---------------------------- MODULE LoginSession -----------------------------
(***************************************************************************)
(* What the rotation of refresh tokens promises of the logins of an        *)
(* account ("Revoke old token (rotation)", auth.py:351): a login has one   *)
(* token that can be exchanged, each exchange puts a new one in its place, *)
(* and a token that was exchanged or revoked is done with.  No login opens *)
(* once the account is closed.  A login is named by its first token;       *)
(* Sessions is the detailed model.                                         *)
(***************************************************************************)
EXTENDS Naturals

CONSTANT Tickets

VARIABLES
    credential, \* credential[l]: the token of login l that can be exchanged,
                \* as a set of at most one
    spent,      \* the tokens that were exchanged or revoked
    exchanged,  \* exchanged[t]: how often t was exchanged
    closed      \* the account was deleted

vars == <<credential, spent, exchanged, closed>>

Init ==
    /\ credential = [l \in Tickets |-> {}]
    /\ spent = {}
    /\ exchanged = [t \in Tickets |-> 0]
    /\ closed = FALSE

New(t) == t \notin spent /\ \A l \in Tickets : t \notin credential[l]

Open(l) ==
    /\ ~closed /\ credential[l] = {} /\ New(l)
    /\ credential' = [credential EXCEPT ![l] = {l}]
    /\ UNCHANGED <<spent, exchanged, closed>>

Exchange(l, t, new) ==
    /\ ~closed /\ credential[l] = {t} /\ New(new)
    /\ credential' = [credential EXCEPT ![l] = {new}]
    /\ spent' = spent \cup {t}
    /\ exchanged' = [exchanged EXCEPT ![t] = @ + 1]
    /\ UNCHANGED closed

Revoke(l, t) ==
    /\ credential[l] = {t}
    /\ credential' = [credential EXCEPT ![l] = {}]
    /\ spent' = spent \cup {t}
    /\ UNCHANGED <<exchanged, closed>>

Close ==
    /\ ~closed /\ closed' = TRUE
    /\ credential' = [l \in Tickets |-> {}]
    /\ spent' = spent \cup UNION {credential[l] : l \in Tickets}
    /\ UNCHANGED exchanged

Next ==
    \/ \E l \in Tickets : Open(l)
    \/ \E l \in Tickets : \E t \in credential[l] :
          Revoke(l, t) \/ \E new \in Tickets : Exchange(l, t, new)
    \/ Close

Spec == Init /\ [][Next]_vars
=============================================================================
