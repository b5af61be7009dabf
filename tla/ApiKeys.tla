------------------------------- MODULE ApiKeys --------------------------------
(***************************************************************************)
(* The API keys of ONE user (services/api_key.py, api/routes/api_keys.py): *)
(* create, revoke, rotate, and the requests of the public API that         *)
(* authenticate with a key, all in transactions that overlap, while        *)
(* webhooks change the B2B subscription.  A key is named by the request    *)
(* that created it.                                                        *)
(*                                                                         *)
(* Each statement is a step (READ COMMITTED).  An UPDATE of a key's row    *)
(* holds the row until its transaction ends; an UPDATE that waited for the *)
(* row goes through whatever the other transaction made of it, because it  *)
(* looks for the id only.                                                  *)
(***************************************************************************)
EXTENDS Naturals, FiniteSets

CONSTANTS
    Requests,   \* each handled once; also the keys they create
    FirstKeys,  \* the keys that exist at the start
    NoKey,      \* the target of a create
    MaxKeys,    \* MaxKeys[tier]: TierConfig.max_api_keys
    MaxCreating, \* how many requests that create a key are under way at once
    MaxChanges   \* bound on the changes of the subscription

Tiers == {"starter", "business"}
Keys == Requests \cup FirstKeys

ASSUME ApiKeysAssumption ==
    /\ Requests \cap FirstKeys = {}
    /\ NoKey \notin Keys
    /\ MaxKeys \in [Tiers -> Nat]
    /\ MaxCreating \in Nat \ {0} /\ MaxChanges \in Nat
    /\ IsFiniteSet(Requests) /\ IsFiniteSet(FirstKeys)
    /\ \E tier \in Tiers : Cardinality(FirstKeys) <= MaxKeys[tier]

Statuses == {"active", "past_due", "cancelled"}
Kinds == {"create", "revoke", "rotate", "use"}
Ended == {"done", "refused", "error"}

VARIABLES
    key,      \* key[k]: "none", "active", "revoked", the committed row
    sub,      \* the B2B row of subscriptions: [status, tier]
    req,      \* req[r]: the handler of r
    changes   \* how often sub changed

vars == <<key, sub, req, changes>>

Fresh == [kind |-> "use", pc |-> "idle", target |-> NoKey, cap |-> 0]

Init ==
    /\ key = [k \in Keys |-> IF k \in FirstKeys THEN "active" ELSE "none"]
    /\ sub \in [status : {"active"}, tier : Tiers]
    /\ req = [r \in Requests |-> Fresh]
    /\ changes = 0
-----------------------------------------------------------------------------
Active == {k \in Keys : key[k] = "active"}
Creating == {"create", "rotate"}
InFlight(r) == req[r].pc \notin {"idle"} \cup Ended

\* A transaction that has updated the row of k and not ended.
Holding == {"reading tier", "counting", "committing"}

\* Mutation: a failed request keeps its transaction open.
KeyLockedByFailed(r, k) ==
    \E q \in Requests \ {r} : req[q].target = k /\ req[q].pc \in Holding \cup {"error"}

KeyLocked(r, k) ==
    \E q \in Requests \ {r} : req[q].target = k /\ req[q].pc \in Holding

Step(r, pc) == req' = [req EXCEPT ![r].pc = pc] /\ UNCHANGED <<key, sub, changes>>

\* _require_b2b (403) for what manages keys; a request with a key is not asked
\* for a subscription.
Begin(r, kind, k) ==
    /\ req[r].pc = "idle"
    /\ IF kind = "create" THEN k = NoKey ELSE k \in Keys /\ key[k] # "none"
    /\ kind \in Creating =>
         Cardinality({q \in Requests : InFlight(q) /\ req[q].kind \in Creating}) < MaxCreating
    /\ req' = [req EXCEPT ![r] =
                 [Fresh EXCEPT !.kind = kind, !.target = k,
                    !.pc = IF kind = "use" THEN "finding"
                           ELSE IF sub.status # "active" THEN "refused"
                           ELSE IF kind = "create" THEN "reading tier" ELSE "finding"]]
    /\ UNCHANGED <<key, sub, changes>>

\* The SELECT of the key that is not revoked: 404, or 401.
FindKey(r) ==
    /\ req[r].pc = "finding"
    /\ Step(r, IF key[req[r].target] = "active" THEN "updating" ELSE "refused")

\* The flush of revoked_at, or of last_used_at.
UpdateKey(r) ==
    /\ req[r].pc = "updating"
    /\ ~KeyLocked(r, req[r].target)
    /\ Step(r, IF req[r].kind = "rotate" THEN "reading tier" ELSE "committing")

\* The subscription, read again, tells the cap.
ReadTier(r) ==
    /\ req[r].pc = "reading tier"
    /\ req' = [req EXCEPT ![r].pc = "counting",
                 ![r].cap = MaxKeys[IF sub.status = "active" THEN sub.tier ELSE "starter"]]
    /\ UNCHANGED <<key, sub, changes>>

\* Mutation: one key more than the cap.
AtCapPlusOne(r) == Cardinality(Active \ {req[r].target}) > req[r].cap

\* What r sees: the committed rows and, in a rotation, its own revocation.
AtCap(r) == Cardinality(Active \ {req[r].target}) >= req[r].cap

\* create_key turns the ValueError into a 400, rotate_key does not catch it.
CountKeys(r) ==
    /\ req[r].pc = "counting"
    /\ Step(r, IF ~AtCap(r) THEN "committing"
               ELSE IF req[r].kind = "create" THEN "refused" ELSE "error")

\* Mutation: an UPDATE writes every column it read.
RowsRewritten(r) ==
    [k \in Keys |->
       IF k = r /\ req[r].kind \in Creating THEN "active"
       ELSE IF k = req[r].target
            THEN IF req[r].kind = "use" THEN "active" ELSE "revoked"
            ELSE key[k]]

\* Mutation: the successor is inserted in a transaction that is not committed.
RowsWithoutSuccessor(r) ==
    [k \in Keys |->
       IF k = r /\ req[r].kind = "create" THEN "active"
       ELSE IF k = req[r].target /\ req[r].kind # "use" THEN "revoked" ELSE key[k]]

\* What the commit of r makes of the api_keys rows.
Rows(r) ==
    [k \in Keys |->
       IF k = r /\ req[r].kind \in Creating THEN "active"
       ELSE IF k = req[r].target /\ req[r].kind \in {"revoke", "rotate"} THEN "revoked"
       ELSE key[k]]

\* For a use, this is after the translation.
Commit(r) ==
    /\ req[r].pc = "committing"
    /\ key' = Rows(r)
    /\ req' = [req EXCEPT ![r].pc = "done"]
    /\ UNCHANGED <<sub, changes>>

\* The process dies, the database or the upstream service fails: rollback.
Fail(r) == InFlight(r) /\ Step(r, "error")

\* Stripe's events: a checkout (any tier), a payment that failed, the end.
ChangeSubscription ==
    /\ changes < MaxChanges
    /\ changes' = changes + 1
    /\ \/ \E tier \in Tiers : sub' = [status |-> "active", tier |-> tier]
       \/ sub.status = "active" /\ sub' = [sub EXCEPT !.status = "past_due"]
       \/ sub' = [sub EXCEPT !.status = "cancelled"]
    /\ sub' # sub
    /\ UNCHANGED <<key, req>>

Handle(r) == FindKey(r) \/ UpdateKey(r) \/ ReadTier(r) \/ CountKeys(r) \/ Commit(r)

Next ==
    \/ \E r \in Requests :
          \/ \E kind \in Kinds, k \in Keys \cup {NoKey} : Begin(r, kind, k)
          \/ Handle(r)
          \/ Fail(r)
    \/ ChangeSubscription

Spec == Init /\ [][Next]_vars

\* The event loop runs every handler, statements and the upstream call end.
FairSpec == Spec /\ \A r \in Requests : WF_vars(Handle(r))
-----------------------------------------------------------------------------
TypeOK ==
    /\ key \in [Keys -> {"none", "active", "revoked"}]
    /\ sub \in [status : Statuses, tier : Tiers]
    /\ req \in [Requests ->
         [kind : Kinds, target : Keys \cup {NoKey}, cap : Nat,
          pc : {"idle", "finding", "updating"} \cup Holding \cup Ended]]
    /\ changes \in 0..MaxChanges

Ring == INSTANCE KeyRing WITH
    asked <- [r \in Requests |-> [kind |-> req[r].kind, target |-> req[r].target]],
    done <- {r \in Requests : req[r].pc = "done"}

(* A request has its whole effect on the keys in the step in which it       *)
(* succeeds and none if it fails, and a revoked key never works again,      *)
(* although requests that read the row before the revocation write it       *)
(* afterwards (api_key.py:128, last_used_at :156).                          *)
ImplementsKeyRing == Ring!Spec

(* A user loses a key only to a revocation that was answered, or to a       *)
(* rotation that made its successor (rotate_key hits the cap, fails, or is  *)
(* overtaken without costing the key).                                      *)
KeyOrSuccessor ==
    \A k \in Keys : key[k] = "revoked" =>
        \E r \in Requests :
            /\ req[r].target = k /\ req[r].pc = "done"
            /\ \/ req[r].kind = "revoke"
               \/ req[r].kind = "rotate" /\ key[r] # "none"

(* "Maximum of {max_keys} active API keys allowed" (api_key.py:85): requests *)
(* that count before either commits exceed the cap, by no more keys than are *)
(* created at once; no sequence of creations, rotations, failures and        *)
(* changes of tier adds up to more.                                          *)
CapHeld ==
    \E tier \in Tiers : Cardinality(Active) < MaxKeys[tier] + MaxCreating

(* A revocation that found its key takes effect: it does not wait for ever  *)
(* for the requests that use the key, or it fails.                          *)
RevocationTakesEffect ==
    \A r \in Requests :
        (req[r].kind = "revoke" /\ req[r].pc = "updating")
        ~> (req[r].target \in {k \in Keys : key[k] = "revoked"} \/ req[r].pc = "error")
=============================================================================
