------------------------------- MODULE KeyRing --------------------------------
(***************************************************************************)
(* What key management promises a user (api_key.py): a request that        *)
(* succeeds has its whole effect in one step, a request that is refused or *)
(* fails has none, whatever else is going on.  A rotation revokes a key in *)
(* the step that hands out its successor; it may be overtaken by another   *)
(* request that revokes the same key.  What is revoked stays revoked.      *)
(* ApiKeys is the detailed model; a key is named by the request that       *)
(* created it.                                                             *)
(***************************************************************************)
CONSTANTS Requests, FirstKeys, NoKey

VARIABLES
    key,    \* key[k]: "none", "active" or "revoked"
    asked,  \* asked[r]: the kind of request r and the key it is about
    done    \* the requests that succeeded

vars == <<key, asked, done>>

Keys == Requests \cup FirstKeys
Unasked == [kind |-> "use", target |-> NoKey]

Init ==
    /\ key = [k \in Keys |-> IF k \in FirstKeys THEN "active" ELSE "none"]
    /\ asked = [r \in Requests |-> Unasked]
    /\ done = {}

Ask(r, kind, k) ==
    /\ asked[r] = Unasked
    /\ asked' = [asked EXCEPT ![r] = [kind |-> kind, target |-> k]]
    /\ UNCHANGED <<key, done>>

Succeeds(r, kind) ==
    /\ asked[r].kind = kind /\ asked[r] # Unasked /\ r \notin done
    /\ done' = done \cup {r}
    /\ UNCHANGED asked

Use(r) == Succeeds(r, "use") /\ UNCHANGED key

Create(r) ==
    /\ Succeeds(r, "create") /\ key[r] = "none"
    /\ key' = [key EXCEPT ![r] = "active"]

Revoke(r) ==
    /\ Succeeds(r, "revoke")
    /\ key' = [key EXCEPT ![asked[r].target] = "revoked"]

Rotate(r) ==
    /\ Succeeds(r, "rotate") /\ key[r] = "none"
    /\ key' = [key EXCEPT ![asked[r].target] = "revoked", ![r] = "active"]

Next ==
    \E r \in Requests :
        \/ \E k \in Keys :
              /\ key[k] # "none"
              /\ Ask(r, "use", k) \/ Ask(r, "revoke", k) \/ Ask(r, "rotate", k)
        \/ Ask(r, "create", NoKey)
        \/ Use(r) \/ Create(r) \/ Revoke(r) \/ Rotate(r)

Spec == Init /\ [][Next]_vars
=============================================================================
