---------------------------- MODULE StripeBilling ----------------------------
(***************************************************************************)
(* The Stripe subscriptions of ONE user and the rows that mirror them: the *)
(* checkout routes (payments.py), the webhook endpoint (webhooks.py,       *)
(* stripe_service.py, webhook_events.py) and the deletion of the account   *)
(* (auth.py).  Stripe itself - sessions, subscriptions, event delivery -   *)
(* is external: it emits one event per change and redelivers an event      *)
(* until it has been answered with a 2xx, in any order unless the setting  *)
(* has each subscription's events come one after the other.                *)
(*                                                                         *)
(* A handler is cut where it awaits the database: between reading a row    *)
(* and committing its changes other deliveries run, and SQLAlchemy writes  *)
(* only the columns whose value differs from the one that was read.  An    *)
(* exception inside the handler is caught, recorded and answered with 200. *)
(*                                                                         *)
(* Left out are the event types whose handlers change no row: the mail of  *)
(* customer.subscription.trial_will_end, and every type without a handler. *)
(***************************************************************************)
EXTENDS Integers, FiniteSets

CONSTANTS
    Subs,        \* checkout sessions and the Stripe subscriptions they become
    NoSub,       \* the NULL of external_id and stripe_customer_id
    Earlier,     \* the customer and session of a B2B subscription that ended
    Workers,     \* webhook deliveries
    TierChoices, \* the tiers a session can be opened for
    CanFail,     \* the subscriptions an invoice can fail for
    Settings     \* pool: the deliveries that can overlap; inOrder: are the
                 \* events of one subscription delivered in order?  Bounds:
                 \* the sessions opened, Stripe's events, the events whose
                 \* handling fails, and the crashes

ASSUME StripeAssumption ==
    /\ NoSub \notin Subs /\ Earlier \notin Subs /\ NoSub # Earlier
    /\ TierChoices \subseteq {"pro", "starter", "business"}
    /\ CanFail \subseteq Subs
    /\ Settings \subseteq [pool : SUBSET Workers, inOrder : BOOLEAN, subs : SUBSET Subs,
                           events : Nat, errors : Nat, crashes : Nat]

Products == {"consumer", "b2b"}
Rank == [checkout |-> 1, paid |-> 2, failed |-> 3, recovered |-> 4, deleted |-> 5]
EventTypes == DOMAIN Rank
Events == EventTypes \X Subs

VARIABLES
    customer,   \* users.stripe_customer_id (named by the session that made it)
    account,    \* "open", "deleting", "deleted"
    tierOf,     \* tierOf[s]: the tier of the prices in session s
    setting,    \* the setting this behaviour runs in
    stage,      \* stage[s]: the session, then the Stripe subscription
    seen,       \* seen[s]: the customer the checkout request read, then used
    row,        \* row[p]: the subscriptions row of product p
    emitted,    \* events Stripe has emitted
    outbox,     \* events Stripe has no 2xx for
    log,        \* log[e]: the webhook_events row of e
    job,        \* job[w]: the delivery w works on
    applied,    \* applied[e]: how often e changed a row
    retried,    \* events that were once recorded unprocessed
    error,      \* error[e]: webhook_events.error, which nothing reads: the
                \* call that last failed while e was handled
    crashes     \* crashes so far

choices == <<tierOf, setting>>
stripe == <<choices, emitted, stage>>
history == <<applied, retried, error>>
vars == <<customer, account, stripe, seen, row, outbox, log, job, history, crashes>>

\* No two deliveries overlap.
OneAtATime == \A v, w \in setting.pool : v = w

Absent == [tier |-> "none", status |-> "none", stripe |-> FALSE, ext |-> NoSub]
Idle == [pc |-> "idle", event |-> <<"none", NoSub>>, inserted |-> FALSE,
         product |-> "none", old |-> Absent, new |-> Absent, error |-> "none"]

Product(s) == IF tierOf[s] = "pro" THEN "consumer" ELSE "b2b"

FreeRow == [tier |-> "free", status |-> "active", stripe |-> FALSE, ext |-> NoSub]
EndedB2B == [tier |-> "starter", status |-> "cancelled", stripe |-> TRUE, ext |-> NoSub]

Init ==
    /\ customer \in {NoSub, Earlier}
    /\ account = "open"
    /\ tierOf \in [Subs -> TierChoices]
    /\ setting \in Settings
    /\ stage = [s \in Subs |-> "idle"]
    /\ seen = [s \in Subs |-> NoSub]
    /\ row = [p \in Products |-> CASE p = "consumer" -> FreeRow
                                   [] customer = Earlier -> EndedB2B
                                   [] OTHER -> Absent]
    /\ emitted = {}
    /\ outbox = {}
    /\ log = [e \in Events |-> "absent"]
    /\ job = [w \in Workers |-> Idle]
    /\ applied = [e \in Events |-> 0]
    /\ retried = {}
    /\ error = [e \in Events |-> "none"]
    /\ crashes = 0
-----------------------------------------------------------------------------
(* Checkout. *)

\* get_current_user reads the user row of the request.
LoadUser(s) ==
    /\ account = "open" /\ stage[s] = "idle"
    /\ s \in setting.subs
    /\ stage' = [stage EXCEPT ![s] = "loaded"]
    /\ seen' = [seen EXCEPT ![s] = customer]
    /\ UNCHANGED <<customer, account, choices, emitted, row, outbox, log, job,
                   history, crashes>>

\* get_or_create_stripe_customer: a request that read no customer makes one,
\* whatever has been committed since.
UseCustomer(s) ==
    IF seen[s] = NoSub
    THEN seen' = [seen EXCEPT ![s] = s] /\ customer' = s
    ELSE UNCHANGED <<seen, customer>>

\* The customer, Session.create, and the commit.
OpenSession(s) ==
    /\ account = "open" /\ stage[s] = "loaded"
    /\ stage' = [stage EXCEPT ![s] = "open"]
    /\ UseCustomer(s)
    /\ UNCHANGED <<account, choices, emitted, row, outbox, log, job, history, crashes>>
-----------------------------------------------------------------------------
(* Stripe. *)

Emit(events) ==
    /\ Cardinality(emitted \cup events) <= setting.events
    /\ outbox' = outbox \cup events
    /\ emitted' = emitted \cup events

StripeMoves(s, from, to, types) ==
    /\ stage[s] = from
    /\ stage' = [stage EXCEPT ![s] = to]
    /\ Emit(types \X {s})
    /\ UNCHANGED <<customer, account, choices, seen, row, log, job, history, crashes>>

Pay(s) == StripeMoves(s, "open", "active", {"checkout", "paid"})
FailInvoice(s) ==
    /\ s \in CanFail /\ <<"failed", s>> \notin emitted
    /\ StripeMoves(s, "active", "past_due", {"failed"})
Recover(s) == StripeMoves(s, "past_due", "active", {"recovered"})
EndSubscription(s) ==
    \E from \in {"active", "past_due"} : StripeMoves(s, from, "deleted", {"deleted"})
-----------------------------------------------------------------------------
(* Webhook delivery: process_webhook. *)

\* Mutation: no unique index on (source, event_id).
EventNeverLocked(w, e) == FALSE

\* The event's row is inserted and not committed.
EventLocked(w, e) == \E v \in Workers : v # w /\ job[v].event = e /\ job[v].inserted

Answer(e) == outbox' = outbox \ {e}

\* check_idempotency.
Receive(w, e) ==
    /\ w \in setting.pool /\ job[w].pc = "idle"
    /\ setting.inOrder => \A x \in outbox : x[2] = e[2] => Rank[e[1]] <= Rank[x[1]]
    /\ IF log[e] = "processed"
       THEN Answer(e) /\ UNCHANGED job
       ELSE /\ job' = [job EXCEPT ![w] =
                 [Idle EXCEPT !.event = e,
                              !.pc = IF log[e] = "absent" THEN "inserting" ELSE "handling"]]
            /\ UNCHANGED outbox
    /\ UNCHANGED <<customer, account, stripe, seen, row, log, history, crashes>>

\* An exception that reaches the route: rollback, 500, Stripe will redeliver.
Reject(w) ==
    /\ job' = [job EXCEPT ![w] = Idle]
    /\ UNCHANGED <<customer, account, stripe, seen, row, outbox, log, history, crashes>>

\* record_webhook_event: the unique index on (source, event_id) lets one
\* delivery through and fails the other when the first has committed.
RecordEvent(w) ==
    LET e == job[w].event IN
    /\ job[w].pc = "inserting"
    /\ ~EventLocked(w, e)
    /\ IF log[e] # "absent" THEN Reject(w)
       ELSE /\ job' = [job EXCEPT ![w] = [@ EXCEPT !.pc = "handling", !.inserted = TRUE]]
            /\ UNCHANGED <<customer, account, stripe, seen, row, outbox, log,
                           history, crashes>>

\* select(Subscription).where(external_id == s, source == STRIPE).
Mirrors(s) == {p \in Products : row[p].ext = s /\ row[p].stripe}

\* Mutation: a payment after a failed invoice is not taken for a recovery.
InvoiceStatusSticks(type) == IF type = "paid" THEN "active" ELSE "past_due"

InvoiceStatus(type) == IF type = "failed" THEN "past_due" ELSE "active"

\* Mutation: external_id is not reset.
EndedKeepsId(old) ==
    IF old.tier \in {"starter", "business"}
    THEN [old EXCEPT !.status = "cancelled", !.ext = NoSub]
    ELSE [FreeRow EXCEPT !.ext = old.ext]

\* _handle_subscription_deleted.
Ended(old) ==
    IF old.tier \in {"starter", "business"}
    THEN [old EXCEPT !.status = "cancelled", !.ext = NoSub]
    ELSE FreeRow

\* What the handler of event e makes of the row it read.
Outcome(e, old) ==
    CASE e[1] = "checkout" ->
           [tier |-> tierOf[e[2]], status |-> "active", stripe |-> TRUE, ext |-> e[2]]
      [] e[1] = "deleted" -> Ended(old)
      [] OTHER -> [old EXCEPT !.status = InvoiceStatus(e[1])]

\* The product whose row the handler of e finds: for a checkout by the Stripe
\* customer of the user, for every other event by the Stripe subscription.
Target(e) ==
    IF e[1] = "checkout"
    THEN IF account # "deleted" /\ customer = seen[e[2]] THEN {Product(e[2])} ELSE {}
    ELSE Mirrors(e[2])

\* A row that get_or_create_subscription has to insert has the default tier.
Default(p) == IF p = "b2b" THEN [FreeRow EXCEPT !.tier = "starter"] ELSE FreeRow

Found(p, old) == IF old = Absent THEN Default(p) ELSE old

\* The handlers that retrieve the subscription from Stripe.
Retrieving == {"checkout", "paid", "recovered"}

\* The bound on the events whose handling fails.
MayFail(e) ==
    Cardinality({x \in Events : error[x] # "none"} \cup {e}) <= setting.errors

\* The row is looked for; Stripe is asked for the subscription; the columns
\* are set; and if the tier changes, sync_usage_period_limit raises when the
\* month has two usage_periods rows (MultipleResultsFound).
ReadRow(w) ==
    LET e == job[w].event
        Written(p) == [job[w] EXCEPT !.pc = "writing", !.product = p, !.old = row[p],
                                     !.new = Outcome(e, Found(p, row[p]))]
    IN
    /\ job[w].pc = "handling"
    /\ \/ /\ Target(e) = {}
          /\ job' = [job EXCEPT ![w] = [@ EXCEPT !.pc = "writing"]]
       \/ /\ Target(e) # {} /\ e[1] \in Retrieving /\ MayFail(e)
          /\ job' = [job EXCEPT ![w] = [@ EXCEPT !.pc = "writing", !.error = "retrieve"]]
       \/ \E p \in Target(e) : job' = [job EXCEPT ![w] = Written(p)]
       \/ \E p \in Target(e) :
            /\ Written(p).new.tier # Found(p, row[p]).tier /\ MayFail(e)
            /\ job' = [job EXCEPT ![w] = [Written(p) EXCEPT !.error = "sync"]]
    /\ UNCHANGED <<customer, account, stripe, seen, row, outbox, log, history, crashes>>

\* UPDATE sets the columns that differ from what was read.
Merge(current, old, new) ==
    [c \in DOMAIN current |-> IF new[c] = old[c] THEN current[c] ELSE new[c]]

\* The INSERT of a row that exists by now, and the UPDATE of one that was
\* deleted with the account, raise out of the flush.
Conflict(j) == /\ j.product # "none"
               /\ (j.old = Absent) # (row[j.product] = Absent)

\* webhook_event.processed = success, or webhook_event.error: FALSE is what
\* an existing row was read with, so that only TRUE or a new row is written.
Succeeds(j) == j.product # "none" /\ j.error = "none"

Logged(j) == IF Succeeds(j) THEN "processed"
             ELSE IF j.inserted THEN "unprocessed" ELSE log[j.event]

\* A conflict fails the flush inside the handler; the flush of the except
\* branch then fails too, and the exception reaches the route.
CommitEvent(w) ==
    LET j == job[w]
        found == j.product # "none"
    IN  /\ j.pc = "writing"
        /\ IF Conflict(j) THEN Reject(w)
           ELSE /\ row' = IF found
                          THEN [row EXCEPT ![j.product] = Merge(@, j.old, j.new)]
                          ELSE row
                /\ log' = [log EXCEPT ![j.event] = Logged(j)]
                /\ error' = IF j.error = "none" THEN error
                            ELSE [error EXCEPT ![j.event] = j.error]
                /\ applied' = IF found THEN [applied EXCEPT ![j.event] = @ + 1]
                                       ELSE applied
                /\ retried' = IF Succeeds(j) THEN retried ELSE retried \cup {j.event}
                /\ job' = [job EXCEPT ![w] = [Idle EXCEPT !.pc = "responding",
                                                          !.event = j.event]]
                /\ UNCHANGED <<customer, account, stripe, seen, outbox, crashes>>

\* Mutation: the route answers 500 unless the event was processed.
RespondHonestly(w) ==
    /\ job[w].pc = "responding"
    /\ IF log[job[w].event] = "processed" THEN Answer(job[w].event) ELSE UNCHANGED outbox
    /\ job' = [job EXCEPT ![w] = Idle]
    /\ UNCHANGED <<customer, account, stripe, seen, row, log, history, crashes>>

\* The route answers {"status": "ok"} whether or not processing succeeded.
Respond(w) ==
    /\ job[w].pc = "responding"
    /\ Answer(job[w].event)
    /\ job' = [job EXCEPT ![w] = Idle]
    /\ UNCHANGED <<customer, account, stripe, seen, row, log, history, crashes>>
-----------------------------------------------------------------------------
(* delete_account, and the process. *)

\* The CONSUMER row is read; its Stripe subscription is cancelled if the row
\* is ACTIVE, and whether the cancellation succeeded is not looked at.
CancelBeforeDelete ==
    LET own == row["consumer"] IN
    /\ account = "open"
    /\ account' = "deleting"
    /\ \/ /\ own.status = "active" /\ own.stripe /\ own.ext # NoSub
          /\ stage[own.ext] \in {"active", "past_due"}
          /\ stage' = [stage EXCEPT ![own.ext] = "deleted"]
          /\ Emit({<<"deleted", own.ext>>})
       \/ UNCHANGED <<stage, emitted, outbox>>
    /\ UNCHANGED <<customer, choices, seen, row, log, job, history, crashes>>

\* get_or_create_subscription has inserted a row and not committed.
Inserts(j) == j.pc = "writing" /\ j.product # "none" /\ j.old = Absent

\* The user row goes, and by ON DELETE CASCADE its subscriptions.  The DELETE
\* waits for an open INSERT of a row that refers to the user.
DeleteUser ==
    /\ account = "deleting"
    /\ \A w \in Workers : ~Inserts(job[w])
    /\ account' = "deleted"
    /\ customer' = NoSub
    /\ row' = [p \in Products |-> Absent]
    /\ UNCHANGED <<stripe, seen, outbox, log, job, history, crashes>>

\* Open transactions are rolled back; no answer is sent.
Crash ==
    /\ crashes < setting.crashes
    /\ \E w \in Workers : job[w] # Idle
    /\ crashes' = crashes + 1
    /\ job' = [w \in Workers |-> Idle]
    /\ UNCHANGED <<customer, account, stripe, seen, row, outbox, log, history>>

Deliver(w) ==
    \/ \E e \in outbox : Receive(w, e)
    \/ RecordEvent(w) \/ ReadRow(w) \/ CommitEvent(w) \/ Respond(w)

Next ==
    \/ \E s \in Subs : \/ LoadUser(s) \/ OpenSession(s) \/ Pay(s)
                       \/ FailInvoice(s) \/ Recover(s) \/ EndSubscription(s)
    \/ \E w \in Workers : Deliver(w)
    \/ CancelBeforeDelete \/ DeleteUser \/ Crash

Spec == Init /\ [][Next]_vars

\* Stripe keeps redelivering, and a delivery that has begun is carried on.
FairSpec == Spec /\ \A w \in Workers : WF_vars(Deliver(w))
-----------------------------------------------------------------------------
Rows == [tier : {"none", "free", "pro", "starter", "business"},
         status : {"none", "active", "past_due", "cancelled"},
         stripe : BOOLEAN, ext : Subs \cup {NoSub}]
Jobs == [pc : {"idle", "inserting", "handling", "writing", "responding"},
         event : Events \cup {Idle.event}, inserted : BOOLEAN,
         product : Products \cup {"none"}, old : Rows, new : Rows,
         error : {"none", "retrieve", "sync"}]

TypeOK ==
    /\ customer \in Subs \cup {NoSub, Earlier}
    /\ account \in {"open", "deleting", "deleted"}
    /\ tierOf \in [Subs -> TierChoices]
    /\ setting \in Settings
    /\ stage \in [Subs -> {"idle", "loaded", "open", "active", "past_due", "deleted"}]
    /\ seen \in [Subs -> Subs \cup {NoSub, Earlier}]
    /\ row \in [Products -> Rows]
    /\ emitted \subseteq Events /\ outbox \subseteq Events
    /\ log \in [Events -> {"absent", "unprocessed", "processed"}]
    /\ job \in [Workers -> Jobs]
    /\ applied \in [Events -> Nat]
    /\ retried \subseteq Events
    /\ error \in [Events -> {"none", "retrieve", "sync"}]
    /\ crashes \in 0 .. setting.crashes

\* The handlers that call sync_usage_period_limit after setting the columns.
Log == INSTANCE EventLog WITH refused <- retried, answered <- emitted \ outbox,
                              Halfway <- {"checkout", "deleted"} \X Subs

(* "Idempotency: webhook providers retry. We dedupe by (source, event_id)." *)
(* (webhook_events.py:11): through overlapping deliveries of an event, and  *)
(* redeliveries after a crash, an event takes effect once, in the commit    *)
(* that logs it, and stays logged (stripe_service.py:392-417).  Only an     *)
(* event whose record was left unprocessed can take effect again, which     *)
(* happens when the sync of the month's limit raises after the row was      *)
(* changed (:218, :375): the except branch (:422-426) commits both.         *)
ImplementsEventLog == Log!Spec

(* "to set the right tier on the subscription when checkout completes"      *)
(* (stripe_b2b.py:104-105): where deliveries do not overlap, the row that   *)
(* names a Stripe subscription has the tier that was paid for with it, in   *)
(* whatever order the events come and wherever a checkout, a crash or the   *)
(* deletion of the account falls between them.                              *)
TierMatchesSubscription ==
    OneAtATime => \A p \in Products : row[p].ext # NoSub =>
        /\ row[p].tier = tierOf[row[p].ext] /\ Product(row[p].ext) = p
        /\ row[p].stripe

\* Stripe has an answer for every event and no delivery is in progress.
Quiet == outbox = {} /\ \A w \in Workers : job[w] = Idle

\* The only session of its product that was paid, by the user's customer.
Sole(s) == /\ customer = seen[s] /\ account = "open"
           /\ \A x \in Subs : x # s /\ Product(x) = Product(s) =>
                                stage[x] \in {"idle", "loaded", "open"}

\* An event that never took effect because Stripe could not be asked: it was
\* answered with 200 and is not delivered again.
Lost(e) == error[e] = "retrieve" /\ applied[e] = 0

(* When Stripe has nothing left to deliver and delivered in order and one   *)
(* at a time, the row follows its Stripe subscription through payment,      *)
(* failed invoice, recovery and cancellation (stripe_service.py:164-378),   *)
(* unless an event was lost: a failed retrieve (:188, :292) is recorded,    *)
(* answered with 200 and never delivered again (:422-426, webhooks.py:      *)
(* 49-56), and the row stays as it was.                                     *)
MirrorsStripe ==
    setting.inOrder /\ OneAtATime /\ Quiet => \A s \in Subs :
        Sole(s) /\ (\A t \in EventTypes : ~Lost(<<t, s>>)) =>
        LET own == row[Product(s)]
            paid == Outcome(<<"checkout", s>>, own)
        IN  /\ stage[s] = "active" => own = paid
            /\ stage[s] = "past_due" => own = [paid EXCEPT !.status = "past_due"]
            /\ stage[s] = "deleted" => own = Outcome(<<"deleted", s>>, paid)

(* Every event is answered in the end: the endpoint never makes Stripe      *)
(* redeliver for ever (webhooks.py:49-56).                                  *)
EventsAnswered == []<>(outbox = {})
=============================================================================
