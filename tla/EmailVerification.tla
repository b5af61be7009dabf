--------------------------- MODULE EmailVerification ---------------------------
(***************************************************************************)
(* The verification of ONE account's e-mail address after registration     *)
(* (services/email_verification.py, verify_email and resend_verification   *)
(* in api/routes/auth.py): links are superseded, mailed and clicked in     *)
(* overlapping transactions under READ COMMITTED.  A mail leaves before    *)
(* its token is committed, and sending reports a failure nobody looks at.  *)
(***************************************************************************)
EXTENDS Integers, FiniteSets, FiniteSetsExt

CONSTANTS
    Resends,     \* requests for another mail, each with a token of its own
    Clicks,      \* requests that present a link
    First,       \* the token of the registration
    MaxInFlight, \* requests handled at the same time
    LastTick     \* bound on the clock

ASSUME EmailAssumption ==
    /\ First \notin Resends
    /\ Resends \cap Clicks = {}
    /\ {MaxInFlight, LastTick} \subseteq Nat \ {0}

Tokens == Resends \cup {First}
Requests == Resends \cup Clicks
Ticks == 1..LastTick

Answers == {"idle", "already verified", "too soon", "sent", "invalid", "verified", "broken"}
Steps == {"cooldown", "superseding", "updating", "mailing", "storing",
          "using", "marking", "confirming"}

VARIABLES
    now,      \* the clock in units of the cooldown of 60 seconds
    token,    \* the committed row of each token
    expired,  \* tokens past expires_at
    verified, \* users.email_verified, committed
    born,     \* created_at of each resend's token: the start of its transaction
    mailbox,  \* tokens whose mail was delivered
    pc,       \* where each request is, or its answer
    rows,     \* rows[r]: token rows r's statement sees, then those it has updated
    link,     \* link[c]: the token that click c presents
    last      \* the token stored last

requests == <<pc, rows, link>>
vars == <<now, token, expired, verified, born, mailbox, requests, last>>

Init ==
    /\ now = 1
    /\ token = [k \in Tokens |-> IF k = First THEN "live" ELSE "absent"]
    /\ expired = {}
    /\ verified = FALSE
    /\ born = [k \in Tokens |-> 1]
    /\ mailbox \in SUBSET {First}
    /\ pc = [r \in Requests |-> "idle"]
    /\ rows = [r \in Requests |-> {}]
    /\ link = [c \in Clicks |-> First]
    /\ last = First
-----------------------------------------------------------------------------
InFlight == {r \in Requests : pc[r] \in Steps}
Stored == {k \in Tokens : token[k] # "absent"}
Live == {k \in Tokens : token[k] = "live"}

\* Rows that requests have updated and not committed.
RowLocked(k) ==
    \E r \in Requests : pc[r] \in {"mailing", "storing", "marking", "confirming"} /\ k \in rows[r]

Goto(r, label) == pc' = [pc EXCEPT ![r] = label]
Start == Cardinality(InFlight) < MaxInFlight

\* A request's transaction, and its created_at, begin with its first statement.
FindUser(r) ==
    /\ pc[r] = "idle" /\ Start
    /\ born' = [born EXCEPT ![r] = now]
    /\ Goto(r, IF verified THEN "already verified" ELSE "cooldown")
    /\ UNCHANGED <<now, token, expired, verified, mailbox, rows, link, last>>

LastSent == Max({born[k] : k \in Stored})

\* can_resend_verification
CheckCooldown(r) ==
    /\ pc[r] = "cooldown"
    /\ Goto(r, IF LastSent = now THEN "too soon" ELSE "superseding")
    /\ UNCHANGED <<now, token, expired, verified, born, mailbox, rows, link, last>>

\* The UPDATE of create_verification_token sees what is committed when it begins...
BeginUpdate(r) ==
    /\ pc[r] = "superseding"
    /\ rows' = [rows EXCEPT ![r] = Live]
    /\ Goto(r, "updating")
    /\ UNCHANGED <<now, token, expired, verified, born, mailbox, link, last>>

\* Mutation: the old links stay.
SupersedeNothing(r) ==
    /\ pc[r] = "updating"
    /\ rows' = [rows EXCEPT ![r] = {}]
    /\ Goto(r, "mailing")
    /\ UNCHANGED <<now, token, expired, verified, born, mailbox, link, last>>

\* ...waits for the rows others have updated, and looks at them again.
Supersede(r) ==
    /\ pc[r] = "updating"
    /\ \A k \in rows[r] : ~RowLocked(k)
    /\ rows' = [rows EXCEPT ![r] = @ \cap Live]
    /\ Goto(r, "mailing")
    /\ UNCHANGED <<now, token, expired, verified, born, mailbox, link, last>>

\* send_verification_email: the result of send_email is dropped by the route.
Mail(r) ==
    /\ pc[r] = "mailing"
    /\ mailbox' \in {mailbox, mailbox \cup {r}}
    /\ Goto(r, "storing")
    /\ UNCHANGED <<now, token, expired, verified, born, rows, link, last>>

CommitToken(r) ==
    /\ pc[r] = "storing"
    /\ token' = [k \in Tokens |->
                    IF k \in rows[r] THEN "used" ELSE IF k = r THEN "live" ELSE token[k]]
    /\ last' = r
    /\ Goto(r, "sent")
    /\ UNCHANGED <<now, expired, verified, born, mailbox, rows, link>>

\* verify_email_token: the SELECT, for a link that was mailed.
FindToken(c) ==
    /\ pc[c] = "idle" /\ Start
    /\ \E k \in mailbox :
          /\ link' = [link EXCEPT ![c] = k]
          /\ Goto(c, IF k \in Live \ expired THEN "using" ELSE "invalid")
    /\ UNCHANGED <<now, token, expired, verified, born, mailbox, rows, last>>

\* token.used = True goes out before the user is read: by the row's id, whatever
\* has become of it.
UseToken(c) ==
    /\ pc[c] = "using" /\ ~RowLocked(link[c])
    /\ rows' = [rows EXCEPT ![c] = {link[c]}]
    /\ Goto(c, "marking")
    /\ UNCHANGED <<now, token, expired, verified, born, mailbox, link, last>>

\* user.email_verified = True
MarkVerified(c) ==
    /\ pc[c] = "marking"
    /\ \A d \in Clicks : pc[d] # "confirming"
    /\ Goto(c, "confirming")
    /\ UNCHANGED <<now, token, expired, verified, born, mailbox, rows, link, last>>

\* Mutation: only the token is saved.
ConfirmTokenOnly(c) ==
    /\ pc[c] = "confirming"
    /\ token' = [token EXCEPT ![link[c]] = "used"]
    /\ Goto(c, "verified")
    /\ UNCHANGED <<now, expired, verified, born, mailbox, rows, link, last>>

CommitVerified(c) ==
    /\ pc[c] = "confirming"
    /\ token' = [token EXCEPT ![link[c]] = "used"]
    /\ verified' = TRUE
    /\ Goto(c, "verified")
    /\ UNCHANGED <<now, expired, born, mailbox, rows, link, last>>

\* A failing statement or commit, or the end of the process: get_db rolls back.
Break(r) ==
    /\ r \in InFlight
    /\ Goto(r, "broken")
    /\ UNCHANGED <<now, token, expired, verified, born, mailbox, rows, link, last>>

\* email_verification_expire_hours after created_at
Expire(k) ==
    /\ k \in Stored \ expired /\ born[k] < now
    /\ \A j \in Stored \ expired : born[k] <= born[j]
    /\ expired' = expired \cup {k}
    /\ UNCHANGED <<now, token, verified, born, mailbox, requests, last>>

\* A request takes less time than the cooldown.
Tick ==
    /\ now < LastTick /\ InFlight = {}
    /\ now' = now + 1
    /\ UNCHANGED <<token, expired, verified, born, mailbox, requests, last>>

Resend(r) == \/ FindUser(r) \/ CheckCooldown(r) \/ BeginUpdate(r) \/ Supersede(r)
             \/ Mail(r) \/ CommitToken(r)
Click(c) == FindToken(c) \/ UseToken(c) \/ MarkVerified(c) \/ CommitVerified(c)

Next ==
    \/ \E r \in Resends : Resend(r)
    \/ \E c \in Clicks : Click(c)
    \/ \E r \in Requests : Break(r)
    \/ \E k \in Tokens : Expire(k)
    \/ Tick

Spec == Init /\ [][Next]_vars
-----------------------------------------------------------------------------
TypeOK ==
    /\ now \in Ticks
    /\ token \in [Tokens -> {"absent", "live", "used"}]
    /\ expired \subseteq Stored
    /\ verified \in BOOLEAN
    /\ born \in [Tokens -> Ticks]
    /\ mailbox \subseteq Tokens
    /\ pc \in [Requests -> Answers \cup Steps]
    /\ rows \in [Requests -> SUBSET Stored]
    /\ link \in [Clicks -> Tokens]
    /\ last \in Stored

(* Links that can be used at the same time belong to requests that overlap: *)
(* there are never more of them than requests handled at once               *)
(* (email_verification.py:36-55).                                           *)
LiveLinksBounded == Cardinality(Live) <= MaxInFlight

(* Until the address is verified, the link of the resend that was stored    *)
(* last can be used: no request that began earlier takes it back, and one   *)
(* that breaks off gives back what it superseded                            *)
(* (email_verification.py:36-55, database.py:29-37).                        *)
NewestLinkWorks == ~verified => token[last] = "live"
=============================================================================
