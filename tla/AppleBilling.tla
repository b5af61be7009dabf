---------------------------- MODULE AppleBilling -----------------------------
(***************************************************************************)
(* ONE App Store subscription, that is one originalTransactionId, and the  *)
(* accounts of the people who present it: the notifications of Apple       *)
(* (apple_webhook in webhooks.py, parse_server_notification in             *)
(* apple_storekit.py), the verification the app asks for after a purchase  *)
(* (subscription.py) and the limit of the account's usage period.  Apple   *)
(* is external: it sends a notification again until it is answered with a  *)
(* 2xx, in any order unless the setting has them come one by one.          *)
(*                                                                         *)
(* row[u] stands for the CONSUMER subscription of account u (link is its   *)
(* source together with its external_id, which every handler sets in one   *)
(* go) and for its usage periods: the characters_limit, and whether the    *)
(* month has two of them.  A row that get_or_create_subscription has yet   *)
(* to insert counts as Fresh, which is what it will be.  A behaviour spans *)
(* one month.                                                              *)
(***************************************************************************)
EXTENDS Integers, Sequences, FiniteSets

CONSTANTS
    Users,       \* the accounts the transaction may be presented for
    Metered,     \* those of them that translate, and so open a usage period
    Workers,     \* deliveries of notifications
    Tiers,       \* the tiers of APPLE_PRODUCT_TIERS on sale
    MaxNotes,    \* bound on the notifications Apple sends
    Settings     \* users: the accounts there are; pool: the deliveries that
                 \* can overlap; inOrder: do notifications come one after the
                 \* other?  Bounds: Apple's notifications and the crashes

ASSUME AppleAssumption ==
    /\ IsFiniteSet(Users) /\ Metered \subseteq Users /\ Tiers \subseteq {"pro", "business"}
    /\ MaxNotes \in Nat
    /\ Settings \subseteq [users : SUBSET Users, pool : SUBSET Workers,
                           inOrder : BOOLEAN, notes : 0 .. MaxNotes, crashes : Nat]

Ids == 1 .. MaxNotes
None == 0

VARIABLES
    enabled,   \* settings.apple_storekit_enabled
    setting,   \* the setting this behaviour runs in
    apple,     \* Apple's side: the stage of the subscription and its tier
    notes,     \* the notifications sent so far: status and tier
    outbox,    \* those Apple has no 2xx for
    log,       \* log[n]: the webhook_events row of notification n
    job,       \* job[w]: the notification w works on
    row,       \* row[u]: see above
    app,       \* app[u]: the verification request of u
    claim,     \* claim[u]: did the last verification of u go by with nothing
               \* else going on?
    applied,   \* applied[n]: how often n changed a row
    crashes    \* crashes so far

external == <<setting, apple, notes>>
vars == <<enabled, external, outbox, log, job, row, app, claim, applied, crashes>>

Absent == [tier |-> "none", status |-> "none", link |-> "none", limit |-> "none",
           twice |-> FALSE]
Fresh == [Absent EXCEPT !.tier = "free", !.status = "active"]
Idle == [pc |-> "idle", note |-> None, inserted |-> FALSE, user |-> {},
         old |-> Absent, new |-> Absent]
Waiting == [pc |-> "idle", tier |-> "none", clean |-> FALSE, old |-> Absent]

Init ==
    /\ enabled \in BOOLEAN
    /\ setting \in Settings
    /\ apple = [stage |-> "none", tier |-> "none"]
    /\ notes = <<>>
    /\ outbox = {}
    /\ log = [n \in Ids |-> "absent"]
    /\ job = [w \in Workers |-> Idle]
    /\ row = [u \in Users |-> IF u \in setting.users THEN Fresh ELSE Absent]
    /\ app = [u \in Users |-> Waiting]
    /\ claim = [u \in Users |-> FALSE]
    /\ applied = [n \in Ids |-> 0]
    /\ crashes = 0
-----------------------------------------------------------------------------
(* Apple. *)

\* The last notification sent.
Last == notes[Len(notes)]

\* The subscription moves and a notification of the given status goes out.
\* What a verification under way has read is no longer the latest.
Send(from, to, status, tier) ==
    /\ Len(notes) < setting.notes
    /\ apple.stage \in from
    /\ apple' = [stage |-> to, tier |-> tier]
    /\ notes' = Append(notes, [status |-> status, tier |-> tier])
    /\ outbox' = outbox \cup {Len(notes) + 1}
    /\ app' = [u \in Users |-> [app[u] EXCEPT !.clean = FALSE]]
    /\ UNCHANGED <<enabled, setting, log, job, row, applied, crashes>>

\* SUBSCRIBED: a new term of the same subscription.  What an account has
\* verified of the term before is worth nothing for it: EXPIRED has unlinked
\* the row, so that SUBSCRIBED finds no account, is recorded as such and is
\* not tried again; only a new verification links the row again.
Subscribe ==
    /\ \E tier \in Tiers : Send({"none", "expired"}, "active", "active", tier)
    /\ claim' = [u \in Users |-> FALSE]

\* DID_RENEW and DID_CHANGE_RENEWAL_PREF, perhaps with another product.
Renew ==
    /\ \E tier \in Tiers : Send({"active", "retry"}, "active", "active", tier)
    /\ UNCHANGED claim

FailToRenew == Send({"active"}, "retry", "in_billing_retry", apple.tier) /\ UNCHANGED claim

\* DID_CHANGE_RENEWAL_STATUS is "active" to the parser.  While the
\* subscription is active it is a Renew with the tier as before.
ToggleRenewal == Send({"retry"}, "retry", "active", apple.tier) /\ UNCHANGED claim

\* EXPIRED, REVOKE, GRACE_PERIOD_EXPIRED.
End == Send({"active", "retry"}, "expired", "expired", apple.tier) /\ UNCHANGED claim
-----------------------------------------------------------------------------
(* apple_webhook.  While the switch is off, and when Apple's keys cannot be *)
(* had, the payload is refused with 400 and nothing changes.                *)

EventNeverLocked(w, n) == FALSE    \* Mutation: no unique index.

\* The event's row is inserted and not committed.
EventLocked(w, n) == \E v \in Workers : v # w /\ job[v].note = n /\ job[v].inserted

Answer(n) == outbox' = outbox \ {n}


\* check_idempotency found a row: {"status": "ok", "duplicate": true}.
Duplicate(n) == Answer(n)

Receive(w, n) ==
    /\ enabled
    /\ w \in setting.pool /\ job[w].pc = "idle"
    /\ setting.inOrder => \A m \in outbox : n <= m
    /\ \/ log[n] # "absent" /\ Duplicate(n) /\ UNCHANGED job
       \/ /\ log[n] = "absent"
          /\ job' = [job EXCEPT ![w] = [Idle EXCEPT !.pc = "finding", !.note = n]]
          /\ UNCHANGED outbox
    /\ UNCHANGED <<enabled, external, log, row, app, claim, applied, crashes>>

\* An exception that reaches the route: rollback and 500; Apple tries again.
Reject(w) ==
    /\ job' = [job EXCEPT ![w] = Idle]
    /\ UNCHANGED <<enabled, external, outbox, log, row, app, claim, applied, crashes>>

\* select(Subscription).where(external_id == ..., source == APPLE).
Holders == {u \in Users : row[u].link = "apple"}
Found == IF Holders = {} THEN Absent ELSE row[CHOOSE u \in Holders : TRUE]

\* sync_usage_period_limit, called when the tier changed: it finds no period
\* or sets the limit of the one it finds (FindRow has the case of two).
Synced(old, tier) ==
    IF old.limit = "none" \/ old.tier = tier THEN old.limit ELSE tier

\* Mutation: an active subscription keeps the status of its row.
ActiveKeepsStatus(note, old) ==
    CASE note.status = "active" ->
           [old EXCEPT !.tier = note.tier, !.limit = Synced(old, note.tier)]
      [] note.status = "expired" ->
           [old EXCEPT !.tier = "free", !.status = "expired", !.link = "none",
                       !.limit = Synced(old, "free")]
      [] OTHER -> [old EXCEPT !.status = "past_due"]

\* What the handler makes of the row it found.
Outcome(note, old) ==
    CASE note.status = "active" ->
           [old EXCEPT !.tier = note.tier, !.status = "active",
                       !.limit = Synced(old, note.tier)]
      [] note.status = "expired" ->
           [old EXCEPT !.tier = "free", !.status = "expired", !.link = "none",
                       !.limit = Synced(old, "free")]
      [] OTHER -> [old EXCEPT !.status = "past_due"]

\* The row that was found, as the handler of w leaves it.
Handled(w) == IF Holders = {} THEN Absent ELSE Outcome(notes[job[w].note], Found)

\* More than one row is MultipleResultsFound, none is no error.  When the
\* tier changes sync_usage_period_limit raises it for two usage periods.
Ambiguous(w) ==
    \/ Cardinality(Holders) > 1
    \/ Found.twice /\ Handled(w).tier # Found.tier

FindRow(w) ==
    /\ job[w].pc = "finding"
    /\ \/ Ambiguous(w) /\ Reject(w)
       \/ /\ ~Ambiguous(w)
          /\ job' = [job EXCEPT ![w] = [@ EXCEPT !.pc = "recording", !.user = Holders,
                                                 !.old = Found, !.new = Handled(w)]]
          /\ UNCHANGED <<enabled, external, outbox, log, row, app, claim, applied, crashes>>

\* record_webhook_event: the unique index on (source, event_id) lets one
\* delivery through and fails the other when the first has committed.
RecordEvent(w) ==
    LET n == job[w].note IN
    /\ job[w].pc = "recording"
    /\ ~EventLocked(w, n)
    /\ \/ log[n] # "absent" /\ Reject(w)
       \/ /\ log[n] = "absent"
          /\ job' = [job EXCEPT ![w] = [@ EXCEPT !.pc = "committing", !.inserted = TRUE]]
          /\ UNCHANGED <<enabled, external, outbox, log, row, app, claim, applied, crashes>>

\* UPDATE sets the columns that differ from what was read.
Merge(current, old, new) ==
    [c \in DOMAIN current |-> IF new[c] = old[c] THEN current[c] ELSE new[c]]

\* The UPDATE of a row that was deleted with its account raises.
Gone(users) == \E u \in users : row[u] = Absent

CommitEvent(w) ==
    LET j == job[w]
        found == j.user # {}
    IN  /\ j.pc = "committing"
        /\ \/ Gone(j.user) /\ j.old # j.new /\ Reject(w)
           \/ /\ ~Gone(j.user) \/ j.old = j.new
              /\ row' = [u \in Users |-> IF u \in j.user
                                         THEN Merge(row[u], j.old, j.new) ELSE row[u]]
              /\ log' = [log EXCEPT ![j.note] =
                            IF found THEN "processed" ELSE "unprocessed"]
              /\ applied' = [applied EXCEPT ![j.note] = IF found THEN @ + 1 ELSE @]
              /\ job' = [job EXCEPT ![w] = [Idle EXCEPT !.pc = "responding", !.note = j.note]]
              /\ UNCHANGED <<enabled, external, outbox, app, claim, crashes>>

Respond(w) ==
    /\ job[w].pc = "responding"
    /\ Answer(job[w].note)
    /\ job' = [job EXCEPT ![w] = Idle]
    /\ UNCHANGED <<enabled, external, log, row, app, claim, applied, crashes>>
-----------------------------------------------------------------------------
(* The app, the usage periods, the account, the process. *)

\* Nothing is on its way.
Quiet == outbox = {} /\ \A w \in Workers : job[w] = Idle

\* verify_apple_transaction up to get_or_create_subscription.  The app has
\* the latest transaction; an expired one is as good (verify_exp is off).
VerifyRead(u) ==
    /\ enabled /\ apple.stage # "none"
    /\ app[u].pc = "idle" /\ row[u] # Absent
    /\ app' = [app EXCEPT ![u] = [pc |-> "read", tier |-> apple.tier, old |-> row[u],
                                  clean |-> Quiet /\ Last.status = "active"]]
    /\ UNCHANGED <<enabled, external, outbox, log, job, row, claim, applied, crashes>>

\* The row takes the tier of the transaction; the usage period's limit stays.
VerifyCommit(u) ==
    LET new == [app[u].old EXCEPT !.tier = app[u].tier, !.status = "active",
                                  !.link = "apple"]
    IN  /\ app[u].pc = "read"
        /\ \/ row[u] = Absent /\ UNCHANGED <<row, claim>>
           \/ /\ row[u] # Absent
              /\ row' = [row EXCEPT ![u] = Merge(@, app[u].old, new)]
              /\ claim' = [claim EXCEPT ![u] = app[u].clean]
        /\ app' = [app EXCEPT ![u] = Waiting]
        /\ UNCHANGED <<enabled, external, outbox, log, job, applied, crashes>>

\* get_or_create_usage_period: a new period takes the limit of the tier.
NewPeriod(u) ==
    /\ u \in Metered /\ row[u] # Absent /\ row[u].limit = "none"
    /\ row' = [row EXCEPT ![u].limit = row[u].tier]
    /\ UNCHANGED <<enabled, external, outbox, log, job, app, claim, applied, crashes>>

\* Two requests that open the month at once each insert a period: nothing
\* forbids a second row.
SecondPeriod(u) ==
    /\ row[u].limit # "none" /\ ~row[u].twice
    /\ row' = [row EXCEPT ![u].twice = TRUE]
    /\ UNCHANGED <<enabled, external, outbox, log, job, app, claim, applied, crashes>>

\* delete_account: the subscription and its periods go with the user.
DeleteAccount(u) ==
    /\ row[u] # Absent
    /\ row' = [row EXCEPT ![u] = Absent]
    /\ claim' = [claim EXCEPT ![u] = FALSE]
    /\ UNCHANGED <<enabled, external, outbox, log, job, app, applied, crashes>>

\* A deployment with the verifier switched on.
SwitchOn ==
    /\ ~enabled /\ enabled' = TRUE
    /\ UNCHANGED <<external, outbox, log, job, row, app, claim, applied, crashes>>

\* Open transactions are rolled back; no answer is sent.
Crash ==
    /\ crashes < setting.crashes
    /\ crashes' = crashes + 1
    /\ job' = [w \in Workers |-> Idle]
    /\ app' = [u \in Users |-> Waiting]
    /\ UNCHANGED <<enabled, external, outbox, log, row, claim, applied>>

Deliver(w) ==
    \/ \E n \in outbox : Receive(w, n)
    \/ FindRow(w) \/ RecordEvent(w) \/ CommitEvent(w) \/ Respond(w)

Next ==
    \/ Subscribe \/ Renew \/ FailToRenew \/ ToggleRenewal \/ End
    \/ \E w \in Workers : Deliver(w)
    \/ \E u \in Users : \/ VerifyRead(u) \/ VerifyCommit(u) \/ NewPeriod(u)
                        \/ SecondPeriod(u) \/ DeleteAccount(u)
    \/ SwitchOn \/ Crash

Spec == Init /\ [][Next]_vars

\* Apple keeps sending, and a delivery that has begun is carried on.
FairSpec == Spec /\ \A w \in Workers : WF_vars(Deliver(w))
-----------------------------------------------------------------------------
Rows == [tier : Tiers \cup {"none", "free"},
         status : {"none", "active", "past_due", "expired"},
         link : {"none", "apple"}, limit : Tiers \cup {"none", "free"}, twice : BOOLEAN]
Jobs == [pc : {"idle", "finding", "recording", "committing", "responding"},
         note : Ids \cup {None}, inserted : BOOLEAN, user : SUBSET Users,
         old : Rows, new : Rows]
Notes == [status : {"active", "in_billing_retry", "expired"}, tier : Tiers]
Requests == [pc : {"idle", "read"}, tier : Tiers \cup {"none"}, clean : BOOLEAN,
             old : Rows]

TypeOK ==
    /\ enabled \in BOOLEAN /\ setting \in Settings
    /\ apple \in [stage : {"none", "active", "retry", "expired"},
                  tier : Tiers \cup {"none"}]
    /\ notes \in Seq(Notes) /\ Len(notes) <= setting.notes
    /\ outbox \subseteq 1 .. Len(notes)
    /\ log \in [Ids -> {"absent", "unprocessed", "processed"}]
    /\ job \in [Workers -> Jobs]
    /\ row \in [Users -> Rows]
    /\ app \in [Users -> Requests]
    /\ claim \in [Users -> BOOLEAN]
    /\ applied \in [Ids -> Nat]
    /\ crashes \in 0 .. setting.crashes

Log == INSTANCE EventLog
         WITH Events <- Ids, refused <- {n \in Ids : log[n] = "unprocessed"},
              answered <- (1 .. Len(notes)) \ outbox, Halfway <- {}

(* "Dedupe replays. Apple retries notifications on non-2xx; the same        *)
(* notificationUUID must not be applied twice" (webhooks.py:105-106):       *)
(* through overlapping deliveries and crashes a notification takes effect   *)
(* once, in the commit that logs it.                                        *)
ImplementsEventLog == Log!Spec

\* The row of u says what the notification says.
Shows(u, note) ==
    /\ row[u].tier = (IF note.status = "expired" THEN "free" ELSE note.tier)
    /\ row[u].link = (IF note.status = "expired" THEN "none" ELSE "apple")
    /\ row[u].status = (CASE note.status = "active" -> "active"
                          [] note.status = "expired" -> "expired"
                          [] OTHER -> "past_due")

(* An account whose purchase was verified while nothing else was going on   *)
(* follows the subscription: once every notification is answered, in order, *)
(* its row shows what the last one said (webhooks.py:141-164), and an       *)
(* expired subscription leaves it FREE and unlinked, whatever was delivered *)
(* twice, failed or overlapped on the way, and whoever else verifies the    *)
(* same transaction meanwhile: while two accounts hold it, notifications    *)
(* fail and stay unanswered.  A new term needs a new verification: the      *)
(* SUBSCRIBED after an EXPIRED finds no account, is recorded and never      *)
(* tried again (webhooks.py:123-139, 157-158).                              *)
FollowsApple ==
    setting.inOrder /\ Quiet => \A u \in Users : claim[u] => Shows(u, Last)

=============================================================================
