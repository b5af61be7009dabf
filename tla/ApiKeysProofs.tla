----------------------------- MODULE ApiKeysProofs -----------------------------
(***************************************************************************)
(* Proofs about ApiKeys, for every set of requests and keys and every cap. *)
(***************************************************************************)
EXTENDS ApiKeys, FiniteSetTheorems, TLAPS

Labels == {"idle", "finding", "updating"} \cup Holding \cup Ended
Request == [kind : Kinds, target : Keys \cup {NoKey}, cap : Nat, pc : Labels]

(* Moving a request on keeps the types. *)
LEMMA LabelType ==
    ASSUME TypeOK, NEW r \in Requests, NEW label \in Labels
    PROVE  [req EXCEPT ![r].pc = label] \in [Requests -> Request]
<1>1. req \in [Requests -> Request]
  BY DEF TypeOK, Request, Labels
<1>2. \A x \in Request : [x EXCEPT !.pc = label] \in Request
  BY DEF Request
<1> QED
  BY <1>1, <1>2

LEMMA StepType ==
    ASSUME TypeOK, NEW r \in Requests, NEW label \in Labels, Step(r, label)
    PROVE  TypeOK'
BY LabelType DEF TypeOK, Request, Labels, Step

(* What a commit makes of the rows, key by key. *)
LEMMA RowsOf ==
    ASSUME TypeOK, NEW r \in Requests
    PROVE  /\ Rows(r) \in [Keys -> {"none", "active", "revoked"}]
           /\ \A k \in Keys : Rows(r)[k] # key[k] =>
                \/ k = r /\ req[r].kind \in Creating /\ Rows(r)[k] = "active"
                \/ /\ k = req[r].target /\ req[r].kind \in {"revoke", "rotate"}
                   /\ Rows(r)[k] = "revoked"
           /\ req[r].kind \in Creating => Rows(r)[r] = "active"
BY DEF TypeOK, Rows, Keys, Creating

(* Every reachable state is well typed. *)
LEMMA NextType == ASSUME TypeOK, [Next]_vars PROVE TypeOK'
<1>0. MaxChanges \in Nat
  BY ApiKeysAssumption
<1>1. ASSUME NEW r \in Requests, NEW kind \in Kinds, NEW k \in Keys \cup {NoKey},
             Begin(r, kind, k)
      PROVE  TypeOK'
  BY <1>1 DEF TypeOK, Begin, Fresh, Kinds, Holding, Ended
<1>2. ASSUME NEW r \in Requests, FindKey(r) \/ UpdateKey(r) \/ CountKeys(r) \/ Fail(r)
      PROVE  TypeOK'
  <2>1. \E label \in Labels : Step(r, label)
    BY <1>2 DEF FindKey, UpdateKey, CountKeys, Fail, Labels, Holding, Ended
  <2> QED
    BY <2>1, StepType
<1>3. ASSUME NEW r \in Requests, ReadTier(r) PROVE TypeOK'
  <2> DEFINE cap == MaxKeys[IF sub.status = "active" THEN sub.tier ELSE "starter"]
  <2>1. sub.tier \in Tiers /\ "starter" \in Tiers /\ MaxKeys \in [Tiers -> Nat]
    BY ApiKeysAssumption DEF TypeOK, Tiers
  <2>2. cap \in Nat
    BY <2>1
  <2>3. req' = [req EXCEPT ![r] = [@ EXCEPT !.pc = "counting", !.cap = cap]]
    BY <1>3 DEF ReadTier, TypeOK
  <2> HIDE DEF cap
  <2>4. req \in [Requests -> Request]
    BY DEF TypeOK, Request, Labels
  <2>5. \A x \in Request : [x EXCEPT !.pc = "counting", !.cap = cap] \in Request
    BY <2>2 DEF Request, Labels, Holding
  <2>6. req' \in [Requests -> Request]
    BY <2>3, <2>4, <2>5
  <2> QED
    BY <1>3, <2>6 DEF TypeOK, ReadTier, Request, Labels
<1>4. ASSUME NEW r \in Requests, Commit(r) PROVE TypeOK'
  <2>1. req' \in [Requests -> Request]
    BY <1>4, LabelType DEF Commit, Labels, Ended
  <2>2. key' \in [Keys -> {"none", "active", "revoked"}]
    BY <1>4, RowsOf DEF Commit
  <2> QED
    BY <1>4, <2>1, <2>2 DEF TypeOK, Commit, Request, Labels
<1>5. ASSUME ChangeSubscription PROVE TypeOK'
  BY <1>0, <1>5 DEF TypeOK, ChangeSubscription, Statuses
<1>6. CASE UNCHANGED vars
  BY <1>6 DEF TypeOK, vars
<1> QED
  BY <1>1, <1>2, <1>3, <1>4, <1>5, <1>6 DEF Next, Handle

LEMMA InitType == Init => TypeOK
BY ApiKeysAssumption DEF Init, TypeOK, Fresh, Keys, Kinds, Statuses

(* Every reachable state is well typed, for all constants. *)
THEOREM TypeCorrect == Spec => []TypeOK
BY InitType, NextType, PTL DEF Spec

-----------------------------------------------------------------------------
(* A request's own key appears with its commit, and what a request is about *)
(* exists: no commit can bring a revoked key back.                          *)
OwnKeyAbsent == \A r \in Requests : req[r].pc # "done" => key[r] = "none"
TargetExists ==
    \A r \in Requests : req[r].pc # "idle" =>
        /\ req[r].kind = "create" => req[r].target = NoKey
        /\ req[r].kind # "create" => req[r].target \in {k \in Keys : key[k] # "none"}

KeyInv == TypeOK /\ OwnKeyAbsent /\ TargetExists /\ KeyOrSuccessor

LEMMA InitKeyInv == Init => KeyInv
BY InitType, ApiKeysAssumption
DEF KeyInv, Init, OwnKeyAbsent, TargetExists, KeyOrSuccessor, Fresh, Keys

(* A step that commits nothing keeps the rows, the requests that are done,  *)
(* and what every other request is about.                                   *)
LEMMA QuietStep ==
    ASSUME KeyInv, TypeOK', UNCHANGED key, NEW r \in Requests,
           \A q \in Requests \ {r} : req'[q] = req[q],
           req[r].pc # "done", req'[r].pc \notin {"idle", "done"},
           \/ req'[r].kind = req[r].kind /\ req'[r].target = req[r].target /\ req[r].pc # "idle"
           \/ req'[r].kind = "create" /\ req'[r].target = NoKey
           \/ /\ req'[r].kind # "create"
              /\ req'[r].target \in {k \in Keys : key[k] # "none"}
    PROVE  KeyInv'
<1>1. OwnKeyAbsent'
  BY DEF KeyInv, OwnKeyAbsent
<1>2. TargetExists'
  BY DEF KeyInv, TargetExists
<1>3. KeyOrSuccessor'
  BY DEF KeyInv, KeyOrSuccessor
<1> QED
  BY <1>1, <1>2, <1>3 DEF KeyInv

LEMMA CommitStep ==
    ASSUME KeyInv, TypeOK', NEW r \in Requests, Commit(r)
    PROVE  KeyInv' /\ \A k \in Keys : key[k] = "revoked" => key'[k] = "revoked"
<1>1. /\ key' = Rows(r)
      /\ req'[r] = [req[r] EXCEPT !.pc = "done"]
      /\ \A q \in Requests \ {r} : req'[q] = req[q]
      /\ key[r] = "none" /\ r \in Keys /\ req[r].pc = "committing"
  BY DEF Commit, KeyInv, TypeOK, OwnKeyAbsent, Keys
<1>2. \A k \in Keys : key[k] # "none" => key'[k] # "none"
  BY <1>1, RowsOf DEF KeyInv
<1>3. OwnKeyAbsent'
  <2> SUFFICES ASSUME NEW q \in Requests, req'[q].pc # "done" PROVE key'[q] = "none"
    BY DEF OwnKeyAbsent
  <2>1. q # r /\ req[q].pc # "done" /\ key[q] = "none" /\ q \in Keys
    BY <1>1 DEF KeyInv, TypeOK, OwnKeyAbsent, Keys
  <2>2. q # req[r].target \/ req[r].kind \notin {"revoke", "rotate"}
    BY <1>1, <2>1 DEF KeyInv, TargetExists
  <2> QED
    BY <1>1, <2>1, <2>2, RowsOf DEF KeyInv
<1>4. TargetExists'
  BY <1>1, <1>2 DEF KeyInv, TargetExists, TypeOK
<1>5. KeyOrSuccessor'
  <2> SUFFICES ASSUME NEW k \in Keys, key'[k] = "revoked"
               PROVE  \E q \in Requests :
                        /\ req'[q].target = k /\ req'[q].pc = "done"
                        /\ \/ req'[q].kind = "revoke"
                           \/ req'[q].kind = "rotate" /\ key'[q] # "none"
    BY DEF KeyOrSuccessor
  <2>1. CASE key[k] = "revoked"
    <3>1. PICK q \in Requests : /\ req[q].target = k /\ req[q].pc = "done"
                                /\ \/ req[q].kind = "revoke"
                                   \/ req[q].kind = "rotate" /\ key[q] # "none"
      BY <2>1 DEF KeyInv, KeyOrSuccessor
    <3>2. q # r /\ q \in Keys
      BY <1>1, <3>1 DEF Keys
    <3> QED
      BY <1>1, <1>2, <3>1, <3>2
  <2>2. CASE key[k] # "revoked"
    <3>1. k = req[r].target /\ req[r].kind \in {"revoke", "rotate"}
      BY <1>1, <2>2, RowsOf DEF KeyInv
    <3>2. req[r].kind = "rotate" => key'[r] # "none"
      BY <1>1, RowsOf DEF KeyInv, Creating
    <3>3. req'[r].target = k /\ req'[r].pc = "done" /\ req'[r].kind = req[r].kind
      BY <1>1, <3>1 DEF KeyInv, TypeOK
    <3> QED
      BY <3>1, <3>2, <3>3
  <2> QED
    BY <2>1, <2>2
<1>6. ASSUME NEW k \in Keys, key[k] = "revoked" PROVE key'[k] = "revoked"
  <2>1. k # r
    BY <1>1, <1>6
  <2> QED
    BY <1>1, <1>6, <2>1, RowsOf DEF KeyInv
<1> QED
  BY <1>3, <1>4, <1>5, <1>6 DEF KeyInv

LEMMA NextKeyInv ==
    ASSUME KeyInv, [Next]_vars
    PROVE  KeyInv' /\ \A k \in Keys : key[k] = "revoked" => key'[k] = "revoked"
<1>0. TypeOK'
  BY NextType DEF KeyInv
<1>1. ASSUME NEW r \in Requests, NEW kind \in Kinds, NEW k \in Keys \cup {NoKey},
             Begin(r, kind, k)
      PROVE  KeyInv' /\ UNCHANGED key
  <2>1. /\ UNCHANGED key
        /\ req[r].pc = "idle"
        /\ \A q \in Requests \ {r} : req'[q] = req[q]
        /\ req'[r].kind = kind /\ req'[r].target = k
        /\ req'[r].pc \in {"finding", "refused", "reading tier"}
    BY <1>1 DEF Begin, Fresh, KeyInv, TypeOK
  <2>2. \/ kind = "create" /\ k = NoKey
        \/ kind # "create" /\ k \in {x \in Keys : key[x] # "none"}
    BY <1>1 DEF Begin
  <2> QED
    BY <1>0, <2>1, <2>2, QuietStep
<1>2. ASSUME NEW r \in Requests,
             FindKey(r) \/ UpdateKey(r) \/ ReadTier(r) \/ CountKeys(r) \/ Fail(r)
      PROVE  KeyInv' /\ UNCHANGED key
  <2>1. /\ UNCHANGED key
        /\ req[r].pc \notin {"idle", "done"}
        /\ \A q \in Requests \ {r} : req'[q] = req[q]
        /\ req'[r].kind = req[r].kind /\ req'[r].target = req[r].target
        /\ req'[r].pc \notin {"idle", "done"}
    <3> USE DEF KeyInv, TypeOK, Ended
    <3>1. CASE ReadTier(r)
      BY <3>1 DEF ReadTier
    <3>2. CASE ~ReadTier(r)
      <4>1. /\ req[r].pc \notin {"idle", "done"}
            /\ \E label \in Labels \ {"idle", "done"} : Step(r, label)
        BY <1>2, <3>2 DEF FindKey, UpdateKey, CountKeys, Fail, InFlight, Labels, Holding
      <4> QED
        BY <4>1 DEF Step
    <3> QED
      BY <3>1, <3>2
  <2> QED
    BY <1>0, <2>1, QuietStep
<1>3. ASSUME NEW r \in Requests, Commit(r)
      PROVE  KeyInv' /\ \A k \in Keys : key[k] = "revoked" => key'[k] = "revoked"
  BY <1>0, <1>3, CommitStep
<1>4. ASSUME ChangeSubscription \/ UNCHANGED vars PROVE KeyInv' /\ UNCHANGED key
  BY <1>0, <1>4 DEF KeyInv, OwnKeyAbsent, TargetExists, KeyOrSuccessor,
                    ChangeSubscription, vars
<1> QED
  BY <1>1, <1>2, <1>3, <1>4 DEF Next, Handle

(* A user loses a key only to an answered revocation or to a successor,     *)
(* whatever requests overlap, fail or hit the cap (api_key.py:133-142).     *)
THEOREM KeysAreNotLost == Spec => []KeyOrSuccessor
<1>1. KeyInv => KeyOrSuccessor
  BY DEF KeyInv
<1> QED
  BY <1>1, InitKeyInv, NextKeyInv, PTL DEF Spec

(* A revoked key never works again: no stale write of a request that read   *)
(* the row before brings it back (api_key.py:128, 156).                     *)
THEOREM RevokedForGood ==
    Spec => [][\A k \in Keys : key[k] = "revoked" => key'[k] = "revoked"]_key
<1>1. KeyInv /\ [Next]_vars => [\A k \in Keys : key[k] = "revoked" => key'[k] = "revoked"]_key
  BY NextKeyInv
<1> QED
  BY <1>1, InitKeyInv, NextKeyInv, PTL DEF Spec

-----------------------------------------------------------------------------
(* The key ring.  What its variables stand for besides the rows: *)
Asked == [r \in Requests |-> [kind |-> req[r].kind, target |-> req[r].target]]
Done == {r \in Requests : req[r].pc = "done"}

\* The step of a handler that is neither its first nor its success.
LEMMA HandlerUnseen ==
    ASSUME TypeOK, NEW r \in Requests,
           FindKey(r) \/ UpdateKey(r) \/ ReadTier(r) \/ CountKeys(r) \/ Fail(r)
    PROVE  UNCHANGED key /\ Asked' = Asked /\ Done' = Done
<1>1. UNCHANGED key
  BY DEF FindKey, UpdateKey, ReadTier, CountKeys, Fail, Step
<1>2. \E pc \in Labels \ {"done"} : \E cap \in Nat :
         req' = [req EXCEPT ![r] = [req[r] EXCEPT !.pc = pc, !.cap = cap]]
  <2>1. req[r] \in Request /\ req \in [Requests -> Request]
    BY DEF TypeOK, Request, Labels
  <2>2. [req[r] EXCEPT !.pc = "counting"].cap = req[r].cap
    BY <2>1 DEF Request
  <2>3. ASSUME NEW pc, Step(r, pc)
        PROVE  req' = [req EXCEPT ![r] = [req[r] EXCEPT !.pc = pc, !.cap = req[r].cap]]
    BY <2>1, <2>3 DEF Step, Request
  <2>4. req[r].cap \in Nat
    BY <2>1 DEF Request
  <2>5. CASE FindKey(r) \/ UpdateKey(r) \/ CountKeys(r) \/ Fail(r)
    <3>1. PICK pc \in Labels \ {"done"} : Step(r, pc)
      BY <2>5 DEF FindKey, UpdateKey, CountKeys, Fail, Labels, Holding, Ended
    <3> QED
      BY <2>3, <2>4, <3>1
  <2>6. CASE ReadTier(r)
    <3> DEFINE cap == MaxKeys[IF sub.status = "active" THEN sub.tier ELSE "starter"]
    <3>1. cap \in Nat
      BY ApiKeysAssumption DEF TypeOK, Tiers
    <3>2. req' = [req EXCEPT ![r] = [req[r] EXCEPT !.pc = "counting", !.cap = cap]]
      BY <2>6 DEF ReadTier
    <3>3. "counting" \in Labels \ {"done"}
      BY DEF Labels, Holding
    <3> HIDE DEF cap
    <3> QED
      BY <3>1, <3>2, <3>3
  <2> QED
    BY <2>5, <2>6
<1>3. PICK pc \in Labels \ {"done"}, cap \in Nat :
         req' = [req EXCEPT ![r] = [req[r] EXCEPT !.pc = pc, !.cap = cap]]
  BY <1>2
<1>4. req[r].pc # "done"
  BY DEF FindKey, UpdateKey, ReadTier, CountKeys, Fail, InFlight, Ended
<1>5. req[r] \in Request /\ req \in [Requests -> Request]
  BY DEF TypeOK, Request, Labels
<1>6. /\ req'[r].kind = req[r].kind /\ req'[r].target = req[r].target /\ req'[r].pc # "done"
      /\ \A q \in Requests \ {r} : req'[q] = req[q]
  BY <1>3, <1>5 DEF Request
<1>7. Asked' = Asked
  BY <1>6 DEF Asked
<1>8. Done' = Done
  BY <1>4, <1>6 DEF Done
<1> QED
  BY <1>1, <1>7, <1>8

\* A request is made, and perhaps refused at once.
LEMMA BeginAsks ==
    ASSUME KeyInv, NEW r \in Requests, NEW kind \in Kinds, NEW k \in Keys \cup {NoKey},
           Begin(r, kind, k), Asked[r] = Ring!Unasked
    PROVE  /\ Ring!Ask(r, kind, k)
           /\ kind = "create" => k = NoKey
           /\ kind # "create" => k \in Keys /\ key[k] # "none"
<1>1. /\ req \in [Requests -> Request] /\ UNCHANGED key
      /\ kind = "create" => k = NoKey
      /\ kind # "create" => k \in Keys /\ key[k] # "none"
  BY DEF KeyInv, TypeOK, Request, Labels, Begin
<1>2. PICK pc \in Labels \ {"done"} :
         req' = [req EXCEPT ![r] = [Fresh EXCEPT !.kind = kind, !.target = k, !.pc = pc]]
  BY DEF Begin, Labels, Ended, Holding
<1>3. /\ req'[r].kind = kind /\ req'[r].target = k /\ req'[r].pc # "done"
      /\ \A q \in Requests \ {r} : req'[q] = req[q]
  BY <1>1, <1>2 DEF Fresh
<1>4. \A q \in Requests : Asked'[q] = IF q = r THEN [kind |-> kind, target |-> k] ELSE Asked[q]
  BY <1>3 DEF Asked
<1>5. Asked' = [Asked EXCEPT ![r] = [kind |-> kind, target |-> k]]
  BY <1>4 DEF Asked
<1>6. Done' = Done
  BY <1>3 DEF Done, Begin
<1> QED
  BY <1>1, <1>5, <1>6 DEF Ring!Ask, Asked, Done

\* A request that has not begun has not asked for anything.
IdleUnasked == \A r \in Requests : req[r].pc = "idle" => Asked[r] = Ring!Unasked

LEMMA IdleInit == Init => IdleUnasked
BY DEF Init, IdleUnasked, Asked, Ring!Unasked, Fresh

\* One that has begun has.
LEMMA BegunHasAsked ==
    ASSUME KeyInv, NEW r \in Requests, req[r].pc # "idle"
    PROVE  Asked[r] # Ring!Unasked
<1>1. \/ req[r].kind = "create"
      \/ req[r].target \in Keys
  BY DEF KeyInv, TargetExists
<1> QED
  BY <1>1, ApiKeysAssumption DEF Asked, Ring!Unasked

\* The commit of a request is its success in the ring.
LEMMA CommitSucceeds ==
    ASSUME KeyInv, NEW r \in Requests, Commit(r)
    PROVE  Ring!Use(r) \/ Ring!Create(r) \/ Ring!Revoke(r) \/ Ring!Rotate(r)
<1> DEFINE t == req[r].target
           k == req[r].kind
<1>1. /\ TypeOK /\ req \in [Requests -> Request] /\ req[r].pc = "committing"
      /\ key' = Rows(r) /\ req' = [req EXCEPT ![r].pc = "done"]
      /\ r \in Keys /\ key[r] = "none"
      /\ k = "create" => t = NoKey
      /\ k # "create" => t \in Keys /\ t # r
  BY DEF KeyInv, TypeOK, Request, Labels, Commit, OwnKeyAbsent, TargetExists, Keys
<1>2. /\ req'[r].pc = "done" /\ req'[r].kind = k /\ req'[r].target = t
      /\ \A q \in Requests \ {r} : req'[q] = req[q]
  BY <1>1 DEF Request
<1>3. Asked' = Asked
  BY <1>2 DEF Asked
<1>4. Done' = Done \cup {r} /\ r \notin Done
  BY <1>1, <1>2 DEF Done
<1>5. Asked[r].kind = k /\ Asked[r].target = t /\ Asked[r] # Ring!Unasked
  BY <1>1, BegunHasAsked DEF Asked
<1>6. ASSUME NEW kind \in Kinds, kind = k PROVE Ring!Succeeds(r, kind)
  BY <1>3, <1>4, <1>5, <1>6 DEF Ring!Succeeds, Asked, Done
<1>7. Kinds = {"create", "revoke", "rotate", "use"}
      /\ NoKey \notin Keys /\ key \in [Keys -> {"none", "active", "revoked"}] /\ k \in Kinds
  BY <1>1, ApiKeysAssumption DEF TypeOK, Request, Kinds
<1>8. CASE k = "use"
  <2>1. key' = key
    BY <1>1, <1>7, <1>8 DEF Rows, Creating
  <2> QED
    BY <1>6, <1>7, <1>8, <2>1 DEF Ring!Use
<1>9. CASE k = "create"
  <2>1. key' = [key EXCEPT ![r] = "active"]
    BY <1>1, <1>7, <1>9 DEF Rows, Creating
  <2> QED
    BY <1>1, <1>6, <1>7, <1>9, <2>1 DEF Ring!Create
<1>10. CASE k = "revoke"
  <2>1. key' = [key EXCEPT ![t] = "revoked"]
    BY <1>1, <1>7, <1>10 DEF Rows, Creating
  <2>2. key' = [key EXCEPT ![Asked[r].target] = "revoked"]
    BY <1>5, <2>1
  <2> QED
    BY <1>6, <1>7, <1>10, <2>2 DEF Ring!Revoke, Asked
<1>11. CASE k = "rotate"
  <2>1. key' = [key EXCEPT ![t] = "revoked", ![r] = "active"]
    BY <1>1, <1>7, <1>11 DEF Rows, Creating
  <2>2. key' = [key EXCEPT ![Asked[r].target] = "revoked", ![r] = "active"]
    BY <1>5, <2>1
  <2> QED
    BY <1>1, <1>6, <1>7, <1>11, <2>2 DEF Ring!Rotate, Asked
<1> QED
  BY <1>7, <1>8, <1>9, <1>10, <1>11 DEF Kinds

LEMMA IdleNext ==
    ASSUME KeyInv, IdleUnasked, [Next]_vars
    PROVE  IdleUnasked'
<1> SUFFICES ASSUME NEW r \in Requests, req'[r].pc = "idle"
             PROVE  req'[r] = req[r]
  BY DEF IdleUnasked, Asked
<1>1. req \in [Requests -> Request]
  BY DEF KeyInv, TypeOK, Request, Labels
<1>2. ASSUME NEW q \in Requests, NEW pc, pc # "idle", Step(q, pc)
      PROVE  req'[r] = req[r]
  BY <1>1, <1>2 DEF Step, Request
<1>3. ASSUME NEW q \in Requests, FindKey(q) \/ UpdateKey(q) \/ CountKeys(q) \/ Fail(q)
      PROVE  req'[r] = req[r]
  BY <1>2, <1>3 DEF FindKey, UpdateKey, CountKeys, Fail
<1>4. ASSUME NEW q \in Requests, ReadTier(q) \/ Commit(q) PROVE req'[r] = req[r]
  BY <1>1, <1>4 DEF ReadTier, Commit, Request
<1>5. ASSUME NEW q \in Requests, NEW kind \in Kinds, NEW k \in Keys \cup {NoKey},
             Begin(q, kind, k)
      PROVE  req'[r] = req[r]
  BY <1>1, <1>5 DEF Begin, Fresh
<1>6. ChangeSubscription \/ UNCHANGED vars => req' = req
  BY DEF ChangeSubscription, vars
<1> QED
  BY <1>3, <1>4, <1>5, <1>6 DEF Next, Handle

(* Key management implements the key ring: however creations, revocations, *)
(* rotations and uses of keys overlap and fail, each has its effect in the *)
(* one step in which it succeeds, on keys as they are then (api_key.py:56- *)
(* 158), and nothing else touches the keys.                                *)
THEOREM KeyRingImplemented == Spec => ImplementsKeyRing
<1>1. Init => Ring!Init
  BY DEF Init, Ring!Init, Ring!Keys, Keys, Ring!Unasked, Fresh
<1>2. KeyInv /\ IdleUnasked /\ [Next]_vars => [Ring!Next]_(Ring!vars)
  <2> SUFFICES ASSUME KeyInv, IdleUnasked, [Next]_vars PROVE [Ring!Next]_(Ring!vars)
    OBVIOUS
  <2>1. ASSUME UNCHANGED key, Asked' = Asked, Done' = Done PROVE [Ring!Next]_(Ring!vars)
    BY <2>1 DEF Ring!vars, Asked, Done
  <2>2. ASSUME NEW r \in Requests, NEW kind \in Kinds, NEW k \in Keys \cup {NoKey},
               Begin(r, kind, k)
        PROVE  [Ring!Next]_(Ring!vars)
    <3>1. Asked[r] = Ring!Unasked
      BY <2>2 DEF IdleUnasked, Begin
    <3>2. /\ Ring!Ask(r, kind, k)
          /\ kind = "create" => k = NoKey
          /\ kind # "create" => k \in Keys /\ key[k] # "none"
      BY <2>2, <3>1, BeginAsks
    <3> QED
      BY <3>2 DEF Ring!Next, Ring!Keys, Keys, Kinds
  <2>3. ASSUME NEW r \in Requests, Commit(r) PROVE [Ring!Next]_(Ring!vars)
    BY <2>3, CommitSucceeds DEF Ring!Next
  <2>4. ASSUME NEW r \in Requests,
               FindKey(r) \/ UpdateKey(r) \/ ReadTier(r) \/ CountKeys(r) \/ Fail(r)
        PROVE  [Ring!Next]_(Ring!vars)
    BY <2>1, <2>4, HandlerUnseen DEF KeyInv
  <2>5. CASE ChangeSubscription \/ UNCHANGED vars
    <3>1. UNCHANGED <<key, req>>
      BY <2>5 DEF ChangeSubscription, vars
    <3> QED
      BY <2>1, <3>1 DEF Asked, Done
  <2> QED
    BY <2>2, <2>3, <2>4, <2>5 DEF Next, Handle
<1> QED
  BY <1>1, <1>2, InitKeyInv, NextKeyInv, IdleInit, IdleNext, PTL
  DEF Spec, ImplementsKeyRing, Ring!Spec

-----------------------------------------------------------------------------
(* The cap.  What a request that passed the count may still add is weighed  *)
(* against the requests that create at once: a rotation adds nothing as     *)
(* long as its own key is active, and the lock it holds keeps it so.        *)

\* Two transactions do not hold the row of one key.
RowAlone ==
    \A q, r \in Requests :
        /\ req[q].pc \in Holding /\ req[r].pc \in Holding
        /\ req[q].target = req[r].target /\ req[r].target # NoKey
        => q = r

CapRead ==
    \A r \in Requests :
        /\ req[r].pc = "counting" => \E tier \in Tiers : req[r].cap = MaxKeys[tier]
        /\ req[r].kind = "create" => req[r].pc \notin {"finding", "updating"}

CreatingNow == {r \in Requests : InFlight(r) /\ req[r].kind \in Creating}

\* The requests whose commit makes one active key more.
Adding == {r \in Requests : /\ req[r].pc = "committing" /\ req[r].kind \in Creating
                            /\ req[r].target \notin Active}

CreatingBounded == Cardinality(CreatingNow) <= MaxCreating

RoomForAll ==
    \E tier \in Tiers : Cardinality(Active) + Cardinality(Adding) < MaxKeys[tier] + MaxCreating

CapInv == KeyInv /\ RowAlone /\ CapRead /\ CreatingBounded /\ RoomForAll

LEMMA Sizes ==
    /\ IsFiniteSet(Active) /\ Cardinality(Active) \in Nat
    /\ IsFiniteSet(Adding) /\ Cardinality(Adding) \in Nat
    /\ IsFiniteSet(CreatingNow) /\ Cardinality(CreatingNow) \in Nat
    /\ Cardinality(Adding) <= Cardinality(CreatingNow)
<1>1. IsFiniteSet(Requests) /\ IsFiniteSet(Keys)
  BY ApiKeysAssumption, FS_Union DEF Keys
<1>2. IsFiniteSet(Active) /\ IsFiniteSet(CreatingNow)
  BY <1>1, FS_Subset DEF Active, CreatingNow
<1>3. Adding \in SUBSET CreatingNow
  BY DEF Adding, CreatingNow, InFlight, Ended
<1> QED
  BY <1>2, <1>3, FS_Subset, FS_CardinalityType

LEMMA AddOne ==
    ASSUME NEW S, NEW x, IsFiniteSet(S)
    PROVE  /\ IsFiniteSet(S \cup {x})
           /\ Cardinality(S \cup {x}) \in Nat
           /\ Cardinality(S \cup {x}) <= Cardinality(S) + 1
<1>1. /\ IsFiniteSet(S \cup {x})
      /\ Cardinality(S \cup {x}) = IF x \in S THEN Cardinality(S) ELSE Cardinality(S) + 1
  BY FS_AddElement
<1>2. Cardinality(S) \in Nat
  BY FS_CardinalityType
<1> QED
  BY <1>1, <1>2

LEMMA SizesNext ==
    (/\ IsFiniteSet(Active) /\ Cardinality(Active) \in Nat
     /\ IsFiniteSet(Adding) /\ Cardinality(Adding) \in Nat
     /\ IsFiniteSet(CreatingNow) /\ Cardinality(CreatingNow) \in Nat
     /\ Cardinality(Adding) <= Cardinality(CreatingNow))'
BY Sizes, PTL

LEMMA CapsAreNumbers ==
    /\ \A tier \in Tiers : MaxKeys[tier] \in Nat
    /\ MaxCreating \in Nat /\ MaxCreating > 0
    /\ NoKey \notin Keys
BY ApiKeysAssumption

LEMMA InitCapInv == Init => CapInv
<1> SUFFICES ASSUME Init PROVE CapInv
  OBVIOUS
<1>1. RowAlone /\ CapRead
  BY DEF Init, Fresh, RowAlone, CapRead, Holding
<1>2. Active = FirstKeys /\ Adding = {} /\ CreatingNow = {}
  BY DEF Init, Fresh, Active, Adding, CreatingNow, InFlight, Keys
<1>3. Cardinality({}) = 0
  BY FS_EmptySet
<1>4. RoomForAll
  <2>1. PICK tier \in Tiers : Cardinality(FirstKeys) <= MaxKeys[tier]
    BY ApiKeysAssumption
  <2>2. Cardinality(FirstKeys) \in Nat
    BY ApiKeysAssumption, FS_CardinalityType
  <2> QED
    BY <1>2, <1>3, <2>1, <2>2, CapsAreNumbers DEF RoomForAll
<1> QED
  BY <1>1, <1>2, <1>3, <1>4, InitKeyInv, CapsAreNumbers DEF CapInv, CreatingBounded

\* A step that adds to none of the three sets keeps the sums.
LEMMA FewerKeep ==
    ASSUME CapInv, CreatingNow' \subseteq CreatingNow, Adding' \subseteq Adding,
           Active' \subseteq Active
    PROVE  CreatingBounded' /\ RoomForAll'
<1>1. /\ Cardinality(CreatingNow') <= Cardinality(CreatingNow)
      /\ Cardinality(Adding') <= Cardinality(Adding)
      /\ Cardinality(Active') <= Cardinality(Active)
  BY Sizes, FS_Subset
<1>2. CreatingBounded'
  BY <1>1, Sizes, SizesNext, CapsAreNumbers DEF CapInv, CreatingBounded
<1>3. RoomForAll'
  <2>1. PICK tier \in Tiers :
          Cardinality(Active) + Cardinality(Adding) < MaxKeys[tier] + MaxCreating
    BY DEF CapInv, RoomForAll
  <2>2. Cardinality(Active') + Cardinality(Adding') < MaxKeys[tier] + MaxCreating
    BY <1>1, <2>1, Sizes, SizesNext, CapsAreNumbers
  <2> QED
    BY <2>2 DEF RoomForAll
<1> QED
  BY <1>2, <1>3

\* Who comes to hold a row has waited for whoever held it.
LEMMA HoldingAlone ==
    ASSUME RowAlone, NEW r \in Requests, \A q \in Requests \ {r} : req'[q] = req[q],
           \/ req'[r].pc \notin Holding \/ req'[r].target = NoKey
           \/ /\ req'[r].target = req[r].target
              /\ req[r].pc \in Holding \/ ~KeyLocked(r, req[r].target)
    PROVE  RowAlone'
<1>1. ASSUME NEW q \in Requests \ {r}, req'[r].pc \in Holding, req'[q].pc \in Holding,
             req'[q].target = req'[r].target, req'[r].target # NoKey
      PROVE  FALSE
  <2>1. req[q].pc \in Holding /\ req[q].target = req[r].target /\ req[r].target # NoKey
    BY <1>1
  <2>2. KeyLocked(r, req[r].target)
    BY <2>1 DEF KeyLocked
  <2>3. req[r].pc \in Holding
    BY <1>1, <2>2
  <2> QED
    BY <2>1, <2>3 DEF RowAlone
<1>2. ASSUME NEW q \in Requests \ {r}, NEW p \in Requests \ {r},
             req'[p].pc \in Holding, req'[q].pc \in Holding,
             req'[q].target = req'[p].target, req'[p].target # NoKey
      PROVE  p = q
  BY <1>2 DEF RowAlone
<1> QED
  BY <1>1, <1>2 DEF RowAlone

\* The transactions begin: only a request that creates joins the creating.
LEMMA BeginKeepsCap ==
    ASSUME CapInv, KeyInv', NEW r \in Requests, NEW kind \in Kinds,
           NEW k \in Keys \cup {NoKey}, Begin(r, kind, k)
    PROVE  CapInv'
<1>0. TypeOK
  BY DEF CapInv, KeyInv
<1>1. /\ UNCHANGED key /\ req[r].pc = "idle"
      /\ \A q \in Requests \ {r} : req'[q] = req[q]
      /\ req'[r].kind = kind /\ req'[r].target = k
      /\ req'[r].pc = IF kind = "use" THEN "finding"
                      ELSE IF sub.status # "active" THEN "refused"
                      ELSE IF kind = "create" THEN "reading tier" ELSE "finding"
      /\ kind = "create" => k = NoKey
  BY <1>0 DEF Begin, Fresh, TypeOK
<1>2. RowAlone'
  <2>1. req'[r].pc \notin Holding \/ req'[r].target = NoKey
    BY <1>1 DEF Holding
  <2> QED
    BY <1>1, <2>1, HoldingAlone DEF CapInv
<1>3. CapRead'
  BY <1>1 DEF CapInv, CapRead
<1>4. Active' = Active /\ Adding' \subseteq Adding
  BY <1>1 DEF Active, Adding
<1>5. CASE kind \notin Creating
  <2>1. CreatingNow' \subseteq CreatingNow
    BY <1>1, <1>5 DEF CreatingNow, InFlight
  <2> QED
    BY <1>2, <1>3, <1>4, <2>1, FewerKeep DEF CapInv
<1>6. CASE kind \in Creating
  <2>1. Cardinality(CreatingNow) < MaxCreating
    BY <1>6 DEF Begin, CreatingNow
  <2>2. CreatingNow' \subseteq CreatingNow \cup {r}
    BY <1>1 DEF CreatingNow, InFlight
  <2>3. /\ IsFiniteSet(CreatingNow \cup {r})
        /\ Cardinality(CreatingNow \cup {r}) <= Cardinality(CreatingNow) + 1
        /\ Cardinality(CreatingNow \cup {r}) \in Nat
    BY Sizes, AddOne
  <2>4. Cardinality(CreatingNow') <= Cardinality(CreatingNow \cup {r})
    BY <2>2, <2>3, FS_Subset
  <2>5. CreatingBounded'
    BY <2>1, <2>3, <2>4, Sizes, SizesNext, CapsAreNumbers DEF CreatingBounded
  <2>6. Cardinality(Adding') <= Cardinality(Adding)
    BY <1>4, Sizes, FS_Subset
  <2>7. RoomForAll'
    <3>1. PICK tier \in Tiers :
            Cardinality(Active) + Cardinality(Adding) < MaxKeys[tier] + MaxCreating
      BY DEF CapInv, RoomForAll
    <3>2. Cardinality(Active') + Cardinality(Adding') < MaxKeys[tier] + MaxCreating
      BY <1>4, <2>6, <3>1, Sizes, SizesNext, CapsAreNumbers
    <3> QED
      BY <3>2 DEF RoomForAll
  <2> QED
    BY <1>2, <1>3, <2>5, <2>7 DEF CapInv
<1> QED
  BY <1>5, <1>6

\* The steps of a transaction that is under way.
LEMMA OnTheWay ==
    ASSUME CapInv, KeyInv', NEW r \in Requests,
           FindKey(r) \/ UpdateKey(r) \/ ReadTier(r) \/ CountKeys(r) \/ Fail(r)
    PROVE  /\ UNCHANGED key /\ InFlight(r)
           /\ \A q \in Requests \ {r} : req'[q] = req[q]
           /\ req'[r].kind = req[r].kind /\ req'[r].target = req[r].target
           /\ RowAlone' /\ CapRead'
           /\ req'[r].pc = "committing" /\ req[r].kind \in Creating =>
                /\ CountKeys(r) /\ ~AtCap(r)
<1>0. /\ TypeOK
      /\ req[r].kind = "create" => req[r].target = NoKey \/ req[r].pc = "idle"
  BY DEF CapInv, KeyInv, TargetExists
<1>1. CASE ReadTier(r)
  <2>1. /\ UNCHANGED key /\ req[r].pc = "reading tier" /\ req'[r].pc = "counting"
        /\ \A q \in Requests \ {r} : req'[q] = req[q]
        /\ req'[r].kind = req[r].kind /\ req'[r].target = req[r].target
        /\ req'[r].cap = MaxKeys[IF sub.status = "active" THEN sub.tier ELSE "starter"]
    BY <1>0, <1>1 DEF ReadTier, TypeOK
  <2>2. \E tier \in Tiers : req'[r].cap = MaxKeys[tier]
    BY <1>0, <2>1 DEF Tiers, TypeOK
  <2>3. CapRead'
    BY <2>1, <2>2 DEF CapInv, CapRead
  <2>4. RowAlone'
    BY <2>1, HoldingAlone DEF CapInv, Holding
  <2> QED
    BY <2>1, <2>3, <2>4 DEF InFlight, Ended
<1>2. CASE ~ReadTier(r)
  <2>1. PICK label \in Labels \ {"idle", "counting", "finding"} :
          /\ Step(r, label)
          /\ label \in Holding /\ req[r].pc \notin Holding =>
               UpdateKey(r) /\ (label = "committing" => req[r].kind # "rotate")
          /\ label = "committing" /\ req[r].pc \in Holding => CountKeys(r) /\ ~AtCap(r)
    <3> USE DEF Labels, Holding, Ended
    <3>1. CASE FindKey(r)
      BY <3>1 DEF FindKey
    <3>2. CASE UpdateKey(r)
      <4>1. CASE req[r].kind = "rotate"
        BY <3>2, <4>1 DEF UpdateKey
      <4>2. CASE req[r].kind # "rotate"
        BY <3>2, <4>2 DEF UpdateKey
      <4> QED
        BY <4>1, <4>2
    <3>3. CASE CountKeys(r)
      <4>1. CASE ~AtCap(r)
        BY <3>3, <4>1 DEF CountKeys
      <4>2. CASE AtCap(r)
        <5>1. \E label \in {"refused", "error"} : Step(r, label)
          BY <3>3, <4>2 DEF CountKeys
        <5> QED
          BY <5>1
      <4> QED
        BY <4>1, <4>2
    <3>4. CASE Fail(r)
      <4>1. \E label \in {"refused", "error"} : Step(r, label)
        BY <3>4 DEF Fail
      <4> QED
        BY <4>1
    <3> QED
      BY <1>2, <3>1, <3>2, <3>3, <3>4
  <2>2. /\ UNCHANGED key /\ req'[r].pc = label
        /\ \A q \in Requests \ {r} : req'[q] = req[q]
        /\ req'[r].kind = req[r].kind /\ req'[r].target = req[r].target
    BY <1>0, <2>1 DEF Step, TypeOK
  <2>3. InFlight(r)
    BY <1>2 DEF FindKey, UpdateKey, CountKeys, Fail, InFlight, Ended
  <2>4. CapRead'
    <3>1. req[r].kind = "create" => label # "updating"
      BY <1>2, <2>2 DEF CapInv, CapRead, FindKey, UpdateKey, CountKeys, Fail, Step, KeyInv,
                        TypeOK
    <3> QED
      BY <2>1, <2>2, <3>1 DEF CapInv, CapRead
  <2>5. RowAlone'
    <3>1. label \in Holding /\ req[r].pc \notin Holding => ~KeyLocked(r, req[r].target)
      BY <2>1 DEF UpdateKey
    <3> QED
      BY <2>2, <3>1, HoldingAlone DEF CapInv
  <2>6. req'[r].pc = "committing" /\ req[r].kind \in Creating => CountKeys(r) /\ ~AtCap(r)
    <3>1. UpdateKey(r) => req[r].kind # "create"
      BY DEF UpdateKey, CapInv, CapRead
    <3> QED
      BY <2>1, <2>2, <3>1 DEF Creating, Holding
  <2> QED
    BY <2>2, <2>3, <2>4, <2>5, <2>6
<1> QED
  BY <1>1, <1>2

LEMMA OnTheWayKeepsCap ==
    ASSUME CapInv, KeyInv', NEW r \in Requests,
           FindKey(r) \/ UpdateKey(r) \/ ReadTier(r) \/ CountKeys(r) \/ Fail(r)
    PROVE  CapInv'
<1>1. /\ UNCHANGED key /\ InFlight(r)
      /\ \A q \in Requests \ {r} : req'[q] = req[q]
      /\ req'[r].kind = req[r].kind /\ req'[r].target = req[r].target
      /\ RowAlone' /\ CapRead'
  BY OnTheWay
<1>2. Active' = Active /\ CreatingNow' \subseteq CreatingNow
  BY <1>1 DEF Active, CreatingNow, InFlight
<1>3. CASE Adding' \subseteq Adding
  BY <1>1, <1>2, <1>3, FewerKeep DEF CapInv
<1>4. CASE ~(Adding' \subseteq Adding)
  <2>1. /\ req'[r].pc = "committing" /\ req[r].kind \in Creating
        /\ req[r].target \notin Active
    BY <1>1, <1>2, <1>4 DEF Adding
  <2>2. CountKeys(r) /\ ~AtCap(r)
    BY <2>1, OnTheWay
  <2>3. PICK tier \in Tiers : req[r].cap = MaxKeys[tier]
    BY <2>2 DEF CountKeys, CapInv, CapRead
  <2>4. Active \ {req[r].target} = Active
    BY <2>1
  <2>5. Cardinality(Active) < MaxKeys[tier]
    BY <2>2, <2>3, <2>4, Sizes, CapsAreNumbers DEF AtCap
  <2>6. Cardinality(CreatingNow') <= Cardinality(CreatingNow)
    BY <1>2, Sizes, FS_Subset
  <2>7. CreatingBounded'
    BY <2>6, Sizes, SizesNext, CapsAreNumbers DEF CapInv, CreatingBounded
  <2>8. Cardinality(Active') + Cardinality(Adding') < MaxKeys[tier] + MaxCreating
    BY <1>2, <2>5, <2>7, Sizes, SizesNext, CapsAreNumbers DEF CreatingBounded
  <2>9. RoomForAll'
    BY <2>8 DEF RoomForAll
  <2> QED
    BY <1>1, <2>7, <2>9 DEF CapInv
<1> QED
  BY <1>3, <1>4

\* A commit takes its own weight with it: the lock on the row it writes keeps
\* the weight of every other request.
LEMMA CommitKeepsCap ==
    ASSUME CapInv, KeyInv', NEW r \in Requests, Commit(r)
    PROVE  CapInv'
<1> DEFINE t == req[r].target
           k == req[r].kind
<1>0. /\ TypeOK /\ r \in Keys /\ req[r].pc = "committing" /\ req[r].pc \in Holding
      /\ k = "create" => t = NoKey
      /\ k # "create" => t \in Keys
  BY DEF CapInv, KeyInv, TargetExists, Commit, Keys, Holding
<1>1. /\ key' = Rows(r)
      /\ req'[r] = [req[r] EXCEPT !.pc = "done"]
      /\ \A q \in Requests \ {r} : req'[q] = req[q]
  BY <1>0 DEF Commit, TypeOK
<1>2. req'[r].pc = "done" /\ req'[r].kind = k /\ req'[r].target = t
  BY <1>0, <1>1 DEF TypeOK
<1>3. RowAlone' /\ CapRead'
  <2>1. "done" \notin Holding
    BY DEF Holding
  <2>2. RowAlone'
    BY <1>1, <1>2, <2>1, HoldingAlone DEF CapInv
  <2>3. ASSUME NEW q \in Requests, req'[q].pc = "counting"
        PROVE  \E tier \in Tiers : req'[q].cap = MaxKeys[tier]
    <3>1. q # r /\ req'[q] = req[q]
      BY <1>1, <1>2, <2>3
    <3>2. req[q].pc = "counting"
      BY <2>3, <3>1
    <3> QED
      BY <3>1, <3>2 DEF CapInv, CapRead
  <2>4. ASSUME NEW q \in Requests, req'[q].kind = "create"
        PROVE  req'[q].pc \notin {"finding", "updating"}
    <3>1. CASE q = r
      BY <1>2, <3>1
    <3>2. CASE q # r
      BY <1>1, <2>4, <3>2 DEF CapInv, CapRead
    <3> QED
      BY <3>1, <3>2
  <2>5. CapRead'
    BY <2>3, <2>4 DEF CapRead
  <2> QED
    BY <2>2, <2>5
<1>4. CreatingNow' \subseteq CreatingNow
  BY <1>1, <1>2 DEF CreatingNow, InFlight, Ended
<1>5. /\ Active' \subseteq Active \cup {r}
      /\ k \notin Creating => Active' \subseteq Active
      /\ k = "rotate" /\ t # r => t \notin Active'
      /\ \A x \in Active : x \in Active' \/ x = t
  BY <1>0, <1>1, RowsOf DEF Active, Creating, Rows
<1>6. Adding' \subseteq Adding \ {r}
  <2> SUFFICES ASSUME NEW q \in Adding' PROVE q \in Adding \ {r}
    OBVIOUS
  <2>1. /\ q \in Requests \ {r} /\ req'[q] = req[q]
        /\ req[q].pc = "committing" /\ req[q].kind \in Creating
        /\ req[q].target \notin Active'
    BY <1>1, <1>2 DEF Adding
  <2>2. req[q].target \in Active => FALSE
    <3>1. SUFFICES ASSUME req[q].target \in Active PROVE FALSE
      OBVIOUS
    <3>2. req[q].target = t /\ t \in Keys
      BY <1>5, <2>1, <3>1 DEF Active
    <3>3. t # NoKey
      BY <3>2, CapsAreNumbers
    <3> QED
      BY <1>0, <2>1, <3>2, <3>3 DEF CapInv, RowAlone
  <2> QED
    BY <2>1, <2>2 DEF Adding
<1>7. CASE k \notin Creating
  BY <1>3, <1>4, <1>5, <1>6, <1>7, FewerKeep DEF CapInv
<1>8. CASE k \in Creating
  <2>1. Cardinality(Active') + Cardinality(Adding') <= Cardinality(Active) + Cardinality(Adding)
    <3>1. CASE r \in Adding
      <4>1. Cardinality(Active') <= Cardinality(Active) + 1
        <5>1. /\ IsFiniteSet(Active \cup {r})
              /\ Cardinality(Active \cup {r}) \in Nat
              /\ Cardinality(Active \cup {r}) <= Cardinality(Active) + 1
          BY Sizes, AddOne
        <5>2. Cardinality(Active') <= Cardinality(Active \cup {r})
          BY <1>5, <5>1, FS_Subset
        <5> QED
          BY <5>1, <5>2, Sizes, SizesNext
      <4>2. Cardinality(Adding') <= Cardinality(Adding) - 1
        <5>1. /\ IsFiniteSet(Adding \ {r})
              /\ Cardinality(Adding \ {r}) = Cardinality(Adding) - 1
          BY <3>1, Sizes, FS_RemoveElement
        <5>2. Cardinality(Adding') <= Cardinality(Adding \ {r})
          BY <1>6, <5>1, FS_Subset
        <5> QED
          BY <5>1, <5>2
      <4> QED
        BY <4>1, <4>2, Sizes, SizesNext
    <3>2. CASE r \notin Adding
      <4>1. t \in Active /\ k = "rotate"
        BY <1>0, <1>8, <3>2, CapsAreNumbers DEF Adding, Active, Creating
      <4>2. t # r
        BY <1>0, <4>1 DEF CapInv, KeyInv, OwnKeyAbsent, Active
      <4>3. Active' \subseteq (Active \ {t}) \cup {r}
        BY <1>5, <4>1, <4>2
      <4>4. /\ IsFiniteSet(Active \ {t})
            /\ Cardinality(Active \ {t}) = Cardinality(Active) - 1
        BY <4>1, Sizes, FS_RemoveElement
      <4>5. /\ IsFiniteSet((Active \ {t}) \cup {r})
            /\ Cardinality((Active \ {t}) \cup {r}) \in Nat
            /\ Cardinality((Active \ {t}) \cup {r}) <= Cardinality(Active \ {t}) + 1
        BY <4>4, AddOne
      <4>6. Cardinality(Active') <= Cardinality((Active \ {t}) \cup {r})
        BY <4>3, <4>5, FS_Subset
      <4>7. Cardinality(Active') <= Cardinality(Active)
        BY <4>4, <4>5, <4>6, Sizes, SizesNext
      <4>8. Cardinality(Adding') <= Cardinality(Adding)
        BY <1>6, Sizes, FS_Subset
      <4> QED
        BY <4>7, <4>8, Sizes, SizesNext
    <3> QED
      BY <3>1, <3>2
  <2>2. RoomForAll'
    <3>1. PICK tier \in Tiers :
            Cardinality(Active) + Cardinality(Adding) < MaxKeys[tier] + MaxCreating
      BY DEF CapInv, RoomForAll
    <3>2. Cardinality(Active') + Cardinality(Adding') < MaxKeys[tier] + MaxCreating
      BY <2>1, <3>1, Sizes, SizesNext, CapsAreNumbers
    <3> QED
      BY <3>2 DEF RoomForAll
  <2>3. CreatingBounded'
    <3>1. Cardinality(CreatingNow') <= Cardinality(CreatingNow)
      BY <1>4, Sizes, FS_Subset
    <3> QED
      BY <3>1, Sizes, SizesNext, CapsAreNumbers DEF CapInv, CreatingBounded
  <2> QED
    BY <1>3, <2>2, <2>3 DEF CapInv
<1> QED
  BY <1>7, <1>8

LEMMA NextCapInv == CapInv /\ [Next]_vars => CapInv'
<1> SUFFICES ASSUME CapInv, [Next]_vars PROVE CapInv'
  OBVIOUS
<1>0. KeyInv'
  BY NextKeyInv DEF CapInv
<1>1. ASSUME NEW r \in Requests,
             \/ \E kind \in Kinds, k \in Keys \cup {NoKey} : Begin(r, kind, k)
             \/ Handle(r)
             \/ Fail(r)
      PROVE  CapInv'
  BY <1>0, <1>1, BeginKeepsCap, OnTheWayKeepsCap, CommitKeepsCap DEF Handle
<1>2. CASE ChangeSubscription \/ UNCHANGED vars
  <2>1. UNCHANGED <<key, req>>
    BY <1>2 DEF ChangeSubscription, vars
  <2>2. Active' = Active /\ Adding' = Adding /\ CreatingNow' = CreatingNow
    BY <2>1 DEF Active, Adding, CreatingNow, InFlight
  <2>3. RowAlone' /\ CapRead'
    BY <2>1 DEF CapInv, RowAlone, CapRead
  <2> QED
    BY <1>0, <2>2, <2>3, FewerKeep DEF CapInv
<1> QED
  BY <1>1, <1>2 DEF Next

(* However many creations, rotations, failures, revocations and changes of  *)
(* tier there are, the keys exceed one of the caps by fewer than are        *)
(* created at once (api_key.py:74-87, 117-142).                             *)
THEOREM CapExceededByTheOverlap == Spec => []CapHeld
<1>1. CapInv => CapHeld
  <2> SUFFICES ASSUME CapInv PROVE CapHeld
    OBVIOUS
  <2>1. PICK tier \in Tiers :
          Cardinality(Active) + Cardinality(Adding) < MaxKeys[tier] + MaxCreating
    BY DEF CapInv, RoomForAll
  <2>2. Cardinality(Active) < MaxKeys[tier] + MaxCreating
    BY <2>1, Sizes, CapsAreNumbers
  <2> QED
    BY <2>2 DEF CapHeld
<1> QED
  BY <1>1, InitCapInv, NextCapInv, PTL DEF Spec
=============================================================================
