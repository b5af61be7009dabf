-------------------------- MODULE StoreKitGateProofs --------------------------
(***************************************************************************)
(* Proofs about StoreKitGate, for every set of transactions, keys and      *)
(* requests and for all lifetimes: how old a verdict can be, and what      *)
(* explains a refusal.                                                     *)
(***************************************************************************)
EXTENDS StoreKitGate, TLAPS

(* A request on its way carries a transaction whose key is published.       *)
Carries ==
    \A r \in Requests : req[r].pc # "idle" =>
        req[r].token \in Tokens /\ KeyOf[req[r].token] \in published

(* Nothing that is on record lies in the future, except for what a verdict  *)
(* has left to live.                                                        *)
Past ==
    /\ fetched <= now /\ failed <= now
    /\ \A k \in Keys : since[k] <= now
    /\ \A p \in Prefixes : cache[p].until <= now + Ttl
    /\ \A r \in Requests : req[r].started <= now /\ req[r].at <= now

(* A key that is missing among the cached ones was published after they     *)
(* were asked for; the same of the keys that are on their way.              *)
KnownAsOf ==
    known # {} => \A k \in Keys \cap published : k \notin known => since[k] >= fetched
GotAsOf ==
    \A r \in Requests : req[r].pc = "fetched" =>
        /\ KeyOf[req[r].token] \in req[r].got
        /\ \A k \in Keys \cap published : k \notin req[r].got => since[k] >= req[r].started

(* A remembered verdict was right when it was made: a positive one about a  *)
(* transaction with the prefix that was valid then, a negative one because  *)
(* of the expiry, of a new key or of a fetch that failed.                   *)
PermitsRight ==
    \A p \in Prefixes : cache[p].valid =>
        \E t \in Tokens : PrefixOf[t] = p /\ cache[p].until < ExpiryOf[t] + Ttl

Sole(t) == \A u \in Tokens \ {t} : PrefixOf[u] # PrefixOf[t]

RefusalsRight ==
    \A t \in Tokens :
        LET c == cache[PrefixOf[t]] IN
        Sole(t) /\ ~c.valid /\ now < c.until =>
            \/ ExpiryOf[t] + Ttl <= c.until
            \/ c.until < since[KeyOf[t]] + KeysTtl + Ttl
            \/ c.until <= failed + Ttl

GateInv ==
    /\ TypeOK /\ Carries /\ Past
    /\ KnownAsOf /\ GotAsOf
    /\ PermitsRight /\ RefusalsRight
    /\ GateIsFresh /\ RefusalIsBrief

ReqType ==
    [pc : {"idle", "fetching", "fetched", "gated"},
     stage : {"gate", "handler"}, token : Tokens \cup {"none"},
     started : 0 .. MaxTime, got : SUBSET (Keys \cup OldKeys), let : BOOLEAN,
     at : 0 .. MaxTime]

(* The part of the invariant that is about requests, one by one.            *)
RequestOK(r) ==
    /\ req[r] \in ReqType
    /\ req[r].pc # "idle" => req[r].token \in Tokens /\ KeyOf[req[r].token] \in published
    /\ req[r].started <= now /\ req[r].at <= now
    /\ req[r].pc = "fetched" =>
         /\ KeyOf[req[r].token] \in req[r].got
         /\ \A k \in Keys \cap published : k \notin req[r].got => since[k] >= req[r].started
    /\ req[r].pc = "gated" /\ req[r].let =>
         \E t \in Tokens : /\ PrefixOf[t] = PrefixOf[req[r].token]
                           /\ req[r].at < ExpiryOf[t] + Ttl
    /\ Refused(r) /\ Sole(req[r].token) => Excused(r)

(* ... and the part about the two caches. *)
CachesOK ==
    /\ now \in 0 .. MaxTime
    /\ published \subseteq Keys \cup OldKeys /\ known \subseteq Keys \cup OldKeys
    /\ since \in [Keys -> Int]
    /\ fetched \in Int /\ failed \in Int
    /\ cache \in [Prefixes -> [valid : BOOLEAN, until : Int]]
    /\ fetched <= now /\ failed <= now
    /\ \A k \in Keys : since[k] <= now
    /\ \A p \in Prefixes : cache[p].until <= now + Ttl
    /\ KnownAsOf /\ PermitsRight /\ RefusalsRight

(* The invariant is the conjunction of the two. *)
LEMMA Split ==
    GateInv <=> /\ CachesOK
                /\ req \in [Requests -> ReqType]
                /\ \A r \in Requests : RequestOK(r)
BY DEF GateInv, CachesOK, RequestOK, TypeOK, ReqType, Carries, Past, GotAsOf,
       GateIsFresh, RefusalIsBrief, Sole

LEMMA SplitNext ==
    ASSUME CachesOK', req' \in [Requests -> ReqType], \A r \in Requests : RequestOK(r)'
    PROVE  GateInv'
BY DEF GateInv, CachesOK, RequestOK, TypeOK, ReqType, Carries, Past, GotAsOf,
       GateIsFresh, RefusalIsBrief, Sole

(* Constants. *)
LEMMA Constants ==
    /\ \A t \in Tokens : KeyOf[t] \in Keys /\ PrefixOf[t] \in Prefixes /\ ExpiryOf[t] \in Int
    /\ Ttl \in Nat \ {0} /\ KeysTtl \in Nat \ {0} /\ LongAgo \in Int /\ LongAgo < 0
BY GateAssumption DEF Keys, Prefixes, LongAgo

LEMMA IdleType == Idle \in ReqType
BY GateAssumption DEF Idle, ReqType

LEMMA InitInv == Init => GateInv
<1> SUFFICES ASSUME Init PROVE GateInv
  OBVIOUS
<1>1. CachesOK
  BY Constants, GateAssumption
     DEF Init, CachesOK, NoVerdict, KnownAsOf, PermitsRight, RefusalsRight
<1>2. \A r \in Requests : req[r] = Idle
  BY DEF Init
<1>3. Idle \in ReqType
  BY IdleType
<1>4. req \in [Requests -> ReqType]
  BY <1>3 DEF Init
<1>5. ASSUME NEW r \in Requests PROVE RequestOK(r)
  BY <1>2, <1>3 DEF RequestOK, Refused, Idle, Init
<1> QED
  BY <1>1, <1>4, <1>5, Split

-----------------------------------------------------------------------------
(* Steps that leave req alone. *)

LEMMA TickStep == ASSUME GateInv, Tick PROVE GateInv'
<1> USE Constants, GateAssumption, Split
<1>1. now \in Nat /\ now' = now + 1 /\ now' \in 0 .. MaxTime
  BY DEF Tick, CachesOK
<1>2. \A p \in Prefixes : cache'[p] = IF now' < cache[p].until THEN cache[p] ELSE NoVerdict
  BY DEF Tick
<1>3. cache' \in [Prefixes -> [valid : BOOLEAN, until : Int]]
  BY <1>1 DEF Tick, CachesOK, NoVerdict
<1>4. \A p \in Prefixes : cache'[p].until <= now' + Ttl
  BY <1>1, <1>2 DEF CachesOK, NoVerdict
<1>5. PermitsRight'
  BY <1>1, <1>2 DEF CachesOK, PermitsRight, NoVerdict
<1>6. RefusalsRight'
  <2> SUFFICES ASSUME NEW t \in Tokens, Sole(t), ~cache'[PrefixOf[t]].valid,
                      now' < cache'[PrefixOf[t]].until
               PROVE  \/ ExpiryOf[t] + Ttl <= cache'[PrefixOf[t]].until
                      \/ cache'[PrefixOf[t]].until < since[KeyOf[t]] + KeysTtl + Ttl
                      \/ cache'[PrefixOf[t]].until <= failed + Ttl
    BY DEF RefusalsRight, Tick, Sole, apple
  <2>1. cache'[PrefixOf[t]] = cache[PrefixOf[t]]
    BY <1>1, <1>2 DEF NoVerdict
  <2> QED
    BY <1>1, <2>1 DEF CachesOK, RefusalsRight
<1>7. CachesOK'
  BY <1>1, <1>3, <1>4, <1>5, <1>6 DEF CachesOK, Tick, KnownAsOf, apple
<1>8. ASSUME NEW r \in Requests PROVE RequestOK(r)'
  BY <1>1 DEF RequestOK, Tick, Refused, Excused, ReqType, apple
<1> QED
  BY <1>7, <1>8, SplitNext DEF Tick

LEMMA PublishStep == ASSUME GateInv, NEW k \in Keys, PublishKey(k) PROVE GateInv'
<1> USE Constants, GateAssumption, Split
<1>1. /\ k \notin published /\ published' = published \cup {k}
      /\ since' = [since EXCEPT ![k] = now]
      /\ UNCHANGED <<now, known, fetched, failed, cache, req>>
  BY DEF PublishKey
<1>2. /\ since' \in [Keys -> Int] /\ since'[k] = now
      /\ \A j \in Keys : since[j] <= since'[j] /\ since'[j] <= now
      /\ \A j \in Keys \ {k} : since'[j] = since[j]
  BY <1>1 DEF CachesOK
<1>3. KnownAsOf' /\ PermitsRight'
  BY <1>1, <1>2 DEF CachesOK, KnownAsOf, PermitsRight
<1>4. RefusalsRight'
  <2> SUFFICES ASSUME NEW t \in Tokens, Sole(t), ~cache[PrefixOf[t]].valid,
                      now < cache[PrefixOf[t]].until
               PROVE  \/ ExpiryOf[t] + Ttl <= cache[PrefixOf[t]].until
                      \/ cache[PrefixOf[t]].until < since'[KeyOf[t]] + KeysTtl + Ttl
                      \/ cache[PrefixOf[t]].until <= failed + Ttl
    BY <1>1 DEF RefusalsRight, Sole
  <2> QED
    BY <1>2 DEF CachesOK, RefusalsRight
<1>5. CachesOK'
  BY <1>1, <1>2, <1>3, <1>4 DEF CachesOK
<1>6. ASSUME NEW r \in Requests PROVE RequestOK(r)'
  <2>1. req[r] \in ReqType /\ RequestOK(r) /\ req'[r] = req[r]
    BY <1>1
  <2>2. req[r].pc = "fetched" =>
          \A j \in Keys \cap published' : j \notin req[r].got => since'[j] >= req[r].started
    BY <1>1, <1>2, <2>1 DEF RequestOK, ReqType, CachesOK
  <2>3. Refused(r)' /\ Sole(req[r].token) => Excused(r)'
    BY <1>1, <1>2, <2>1 DEF RequestOK, Refused, Excused, ReqType, CachesOK
  <2> QED
    BY <1>1, <2>1, <2>2, <2>3 DEF RequestOK, Sole
<1> QED
  BY <1>1, <1>5, <1>6, SplitNext

LEMMA EvictStep == ASSUME GateInv, NEW p \in Prefixes, Evict(p) PROVE GateInv'
<1> USE Constants, GateAssumption, Split
<1>1. /\ cache' = [cache EXCEPT ![p] = NoVerdict]
      /\ UNCHANGED <<now, apple, known, fetched, failed, req>>
  BY DEF Evict
<1>2. \A q \in Prefixes : cache'[q] = IF q = p THEN NoVerdict ELSE cache[q]
  BY <1>1 DEF CachesOK
<1>3. cache' \in [Prefixes -> [valid : BOOLEAN, until : Int]]
  BY <1>1 DEF CachesOK, NoVerdict
<1>4. PermitsRight' /\ RefusalsRight'
  BY <1>1, <1>2 DEF CachesOK, PermitsRight, RefusalsRight, NoVerdict, apple, Sole
<1>5. CachesOK'
  BY <1>1, <1>2, <1>3, <1>4 DEF CachesOK, apple, NoVerdict, KnownAsOf
<1>6. ASSUME NEW r \in Requests PROVE RequestOK(r)'
  BY <1>1 DEF RequestOK, Refused, Excused, apple
<1> QED
  BY <1>1, <1>5, <1>6, SplitNext

-----------------------------------------------------------------------------
(* Steps of a request. *)

(* What a step of one request does to the others: nothing, if all that      *)
(* changes beside it are the caches and the last failure.                   *)
LEMMA OneRequest ==
    ASSUME GateInv, CachesOK', NEW r \in Requests, NEW new \in ReqType,
           req' = [req EXCEPT ![r] = new], RequestOK(r)',
           now' = now, apple' = apple, failed <= failed'
    PROVE  GateInv'
<1>1. req' \in [Requests -> ReqType]
  BY Split
<1>2. ASSUME NEW q \in Requests, q # r PROVE RequestOK(q)'
  <2>1. req'[q] = req[q] /\ RequestOK(q) /\ CachesOK
    BY <1>2, Split
  <2>2. Refused(q)' /\ Sole(req[q].token) => Excused(q)'
    BY <2>1, Constants, Split DEF RequestOK, Refused, Excused, apple, CachesOK, ReqType
  <2> QED
    BY <2>1, <2>2 DEF RequestOK, apple, Sole
<1> QED
  BY <1>1, <1>2, SplitNext

LEMMA Later ==
    ASSUME NEW a \in Int, NEW b \in Int, NEW c \in Int, NEW d \in Int, a < b + c
    PROVE  a + d < b + c + d
OBVIOUS

(* A verdict with the keys at hand, whichever they are, when there is a     *)
(* reason for those that are missing.                                       *)
LEMMA JudgeStep ==
    ASSUME GateInv, NEW r \in Requests, NEW t \in Tokens, NEW keys,
           KeyOf[t] \in published,
           Judge(r, t, keys),
           now' = now, apple' = apple,
           failed' \in Int, failed <= failed', failed' <= now,
           known' \subseteq Keys \cup OldKeys, fetched' \in Int, fetched' <= now,
           KnownAsOf',
           \/ KeyOf[t] \in keys
           \/ now < since[KeyOf[t]] + KeysTtl
           \/ failed' = now
    PROVE  GateInv'
<1> USE Constants
<1> DEFINE p == PrefixOf[t]
           c == [valid |-> Valid(t, keys), until |-> now + Ttl]
<1>0. CachesOK /\ p \in Prefixes /\ now \in Nat /\ now \in 0 .. MaxTime
      /\ Valid(t, keys) \in BOOLEAN
  BY Split DEF CachesOK, Valid
<1>1. Idle \in ReqType
  BY IdleType
<1>2. CASE req[r].stage # "gate"
  <2>1. req' = [req EXCEPT ![r] = Idle] /\ cache' = cache
    BY <1>2 DEF Judge
  <2>2. PermitsRight' /\ RefusalsRight'
    BY <1>0, <2>1 DEF CachesOK, PermitsRight, RefusalsRight, apple, Sole
  <2>3. CachesOK'
    BY <1>0, <2>1, <2>2 DEF CachesOK, apple
  <2>4. req'[r] = Idle
    BY <2>1, Split
  <2>5. RequestOK(r)'
    BY <1>0, <1>1, <2>4 DEF RequestOK, Refused, Idle
  <2> QED
    BY <1>1, <2>1, <2>3, <2>5, OneRequest
<1>3. CASE req[r].stage = "gate"
  <2> DEFINE new == [Idle EXCEPT !.pc = "gated", !.token = t, !.at = now,
                                 !.let = Valid(t, keys)]
  <2>0. ~Valid(t, keys) =>
          \/ ExpiryOf[t] + Ttl <= now + Ttl
          \/ now + Ttl < since[KeyOf[t]] + KeysTtl + Ttl
          \/ now + Ttl <= failed' + Ttl
    <3>1. since[KeyOf[t]] \in Int /\ ExpiryOf[t] \in Int
      BY <1>0 DEF CachesOK
    <3>2. KeyOf[t] \in keys \/ now < since[KeyOf[t]] + KeysTtl \/ failed' = now
      OBVIOUS
    <3>3. Valid(t, keys) <=> KeyOf[t] \in keys /\ ExpiryOf[t] > now
      BY DEF Valid
    <3>4. CASE KeyOf[t] \in keys
      <4>1. ~Valid(t, keys) => ExpiryOf[t] <= now
        BY <1>0, <3>1, <3>3, <3>4
      <4>2. ExpiryOf[t] <= now => ExpiryOf[t] + Ttl <= now + Ttl
        BY <1>0, <3>1
      <4> QED
        BY <4>1, <4>2
    <3>5. CASE now < since[KeyOf[t]] + KeysTtl
      BY <1>0, <3>1, <3>5, Later
    <3>6. CASE failed' = now
      BY <1>0, <3>6
    <3> QED
      BY <3>2, <3>4, <3>5, <3>6
  <2>1. req' = [req EXCEPT ![r] = new] /\ cache' = [cache EXCEPT ![p] = c]
    BY <1>3 DEF Judge, Gate
  <2>2. /\ cache' \in [Prefixes -> [valid : BOOLEAN, until : Int]]
        /\ cache'[p] = c
        /\ \A q \in Prefixes \ {p} : cache'[q] = cache[q]
    BY <1>0, <2>1 DEF CachesOK
  <2>3. \A q \in Prefixes : cache'[q].until <= now + Ttl
    BY <1>0, <2>2 DEF CachesOK
  <2>4. PermitsRight'
    <3> SUFFICES ASSUME NEW q \in Prefixes, cache'[q].valid
                 PROVE  \E u \in Tokens : PrefixOf[u] = q /\ cache'[q].until < ExpiryOf[u] + Ttl
      BY DEF PermitsRight
    <3>1. CASE q = p
      BY <1>0, <2>2, <3>1 DEF Valid
    <3>2. CASE q # p
      BY <1>0, <2>2, <3>2 DEF CachesOK, PermitsRight
    <3> QED
      BY <3>1, <3>2
  <2>5. RefusalsRight'
    <3> SUFFICES ASSUME NEW u \in Tokens, Sole(u), ~cache'[PrefixOf[u]].valid,
                        now < cache'[PrefixOf[u]].until
                 PROVE  \/ ExpiryOf[u] + Ttl <= cache'[PrefixOf[u]].until
                        \/ cache'[PrefixOf[u]].until < since[KeyOf[u]] + KeysTtl + Ttl
                        \/ cache'[PrefixOf[u]].until <= failed' + Ttl
      BY DEF RefusalsRight, Sole, apple
    <3>1. CASE PrefixOf[u] = p
      <4>1. u = t
        BY <3>1 DEF Sole
      <4>2. cache'[PrefixOf[u]].until = now + Ttl /\ ~Valid(t, keys)
        BY <2>2, <3>1
      <4> HIDE DEF c, p
      <4> QED
        BY <1>0, <2>0, <4>1, <4>2
    <3>2. CASE PrefixOf[u] # p
      <4>1. cache'[PrefixOf[u]] = cache[PrefixOf[u]]
        BY <2>2, <3>2
      <4> QED
        BY <1>0, <4>1 DEF CachesOK, RefusalsRight
    <3> QED
      BY <3>1, <3>2
  <2>6. CachesOK'
    BY <1>0, <2>2, <2>3, <2>4, <2>5 DEF CachesOK, apple
  <2>7. new \in ReqType
    BY <1>0, <1>1 DEF Idle, ReqType
  <2>8. /\ new.pc = "gated" /\ new.token = t /\ new.at = now /\ new.started = 0
        /\ new.let = Valid(t, keys)
    BY DEF Idle
  <2>9. req'[r] = new
    BY <2>1, Split
  <2>10. Valid(t, keys) => now < ExpiryOf[t] + Ttl
    BY <1>0 DEF Valid
  <2>11. Refused(r)' /\ Sole(t) => Excused(r)'
    <3>1. since[KeyOf[t]] \in Int /\ ExpiryOf[t] \in Int
      BY <1>0 DEF CachesOK
    <3>2. /\ req'[r].pc = "gated" /\ req'[r].token = t /\ req'[r].at = now
          /\ req'[r].let = Valid(t, keys)
      BY <2>8, <2>9
    <3> HIDE DEF new, c, p
    <3> QED
      BY <1>0, <2>0, <3>1, <3>2 DEF Refused, Excused, apple
  <2>12. RequestOK(r)'
    <3> HIDE DEF new
    <3> QED
      BY <1>0, <2>7, <2>8, <2>9, <2>10, <2>11 DEF RequestOK, apple, Sole
  <2> QED
    BY <2>1, <2>6, <2>7, <2>12, OneRequest
<1> QED
  BY <1>2, <1>3

(* A step that changes nothing but the request, which keeps its promises.   *)
LEMMA QuietRequest ==
    ASSUME GateInv, NEW r \in Requests, NEW new \in ReqType,
           req' = [req EXCEPT ![r] = new],
           UNCHANGED <<now, apple, known, fetched, failed, cache>>,
           RequestOK(r)'
    PROVE  GateInv'
<1>1. CachesOK'
  BY Split DEF CachesOK, KnownAsOf, PermitsRight, RefusalsRight, apple, Sole
<1>2. failed <= failed' /\ apple' = apple
  BY Split DEF CachesOK
<1> QED
  BY <1>1, <1>2, OneRequest

LEMMA AskKeysStep ==
    ASSUME GateInv, NEW r \in Requests, NEW t \in Tokens,
           KeyOf[t] \in published, AskKeys(r, t),
           UNCHANGED <<now, apple, known, fetched, failed>>
    PROVE  GateInv'
<1> USE Constants, GateAssumption
<1>0. CachesOK /\ req[r] \in ReqType /\ now \in 0 .. MaxTime
  BY Split DEF CachesOK
<1>1. CASE KeysFresh /\ Judge(r, t, known)
  <2>1. KeyOf[t] \in known \/ now < since[KeyOf[t]] + KeysTtl
    BY <1>0, <1>1 DEF KeysFresh, CachesOK, KnownAsOf
  <2>2. KnownAsOf'
    BY <1>0 DEF CachesOK, KnownAsOf, apple
  <2> QED
    BY <1>0, <1>1, <2>1, <2>2, JudgeStep DEF CachesOK
<1>2. CASE ~KeysFresh /\ cache' = cache /\
           req' = [req EXCEPT ![r] = [@ EXCEPT !.pc = "fetching", !.token = t, !.started = now]]
  <2> DEFINE new == [req[r] EXCEPT !.pc = "fetching", !.token = t, !.started = now]
  <2>1. /\ new \in ReqType /\ req' = [req EXCEPT ![r] = new]
        /\ new.pc = "fetching" /\ new.token = t /\ new.started = now
        /\ new.at = req[r].at
    BY <1>0, <1>2 DEF ReqType
  <2>2. req'[r] = new
    BY <2>1, Split
  <2>3. req[r].at <= now
    BY Split DEF RequestOK
  <2>4. RequestOK(r)'
    <3> HIDE DEF new
    <3> QED
      BY <1>0, <2>1, <2>2, <2>3 DEF RequestOK, Refused, apple, ReqType
  <2> QED
    BY <1>2, <2>1, <2>4, QuietRequest
<1> QED
  BY <1>1, <1>2 DEF AskKeys

LEMMA ArriveStep ==
    ASSUME GateInv, NEW r \in Requests, NEW t \in Tokens, Arrive(r, t)
    PROVE  GateInv'
<1> USE Constants, GateAssumption
<1> DEFINE c == cache[PrefixOf[t]]
           new == [Idle EXCEPT !.pc = "gated", !.token = t, !.at = now, !.let = c.valid]
<1>0. /\ CachesOK /\ KeyOf[t] \in published /\ now \in 0 .. MaxTime /\ now \in Nat
      /\ c \in [valid : BOOLEAN, until : Int] /\ c.until <= now + Ttl
      /\ UNCHANGED <<now, apple, known, fetched, failed>>
  BY Split DEF CachesOK, Arrive
<1>1. CASE now >= c.until /\ AskKeys(r, t)
  BY <1>0, <1>1, AskKeysStep
<1>2. CASE now < c.until /\ TakeVerdict(r, t)
  <2>1. req' = [req EXCEPT ![r] = new] /\ cache' = cache
    BY <1>2 DEF TakeVerdict, Gate
  <2>2. new \in ReqType
    <3>1. c.valid \in BOOLEAN
      BY <1>0
    <3> HIDE DEF c
    <3> QED
      BY <1>0, <3>1, IdleType DEF Idle, ReqType
  <2>3. /\ new.pc = "gated" /\ new.token = t /\ new.at = now /\ new.started = 0
        /\ new.let = c.valid
    BY DEF Idle
  <2>4. req'[r] = new
    BY <2>1, Split
  <2>5. c.valid => \E u \in Tokens : PrefixOf[u] = PrefixOf[t] /\ now < ExpiryOf[u] + Ttl
    <3> SUFFICES ASSUME c.valid
                 PROVE  \E u \in Tokens : PrefixOf[u] = PrefixOf[t] /\ now < ExpiryOf[u] + Ttl
      OBVIOUS
    <3>1. PICK u \in Tokens : PrefixOf[u] = PrefixOf[t] /\ c.until < ExpiryOf[u] + Ttl
      BY <1>0 DEF CachesOK, PermitsRight
    <3>2. now < ExpiryOf[u] + Ttl
      <4> HIDE DEF c
      <4> QED
        BY <1>0, <1>2, <3>1
    <3> QED
      BY <3>1, <3>2
  <2>6. ASSUME ~c.valid, Sole(t), ExpiryOf[t] > now
        PROVE  now < since[KeyOf[t]] + KeysTtl + Ttl \/ now < failed + Ttl
    <3>1. \/ ExpiryOf[t] + Ttl <= c.until
          \/ c.until < since[KeyOf[t]] + KeysTtl + Ttl
          \/ c.until <= failed + Ttl
      BY <1>0, <1>2, <2>6 DEF CachesOK, RefusalsRight
    <3>2. since[KeyOf[t]] \in Int /\ failed \in Int /\ ExpiryOf[t] \in Int
      BY <1>0 DEF CachesOK
    <3> HIDE DEF c
    <3> QED
      BY <1>0, <1>2, <2>6, <3>1, <3>2
  <2>7. RequestOK(r)'
    <3> HIDE DEF new, c
    <3> QED
      BY <1>0, <2>2, <2>3, <2>4, <2>5, <2>6 DEF RequestOK, Refused, Excused, apple, Sole
  <2> QED
    BY <1>0, <2>1, <2>2, <2>7, QuietRequest
<1> QED
  BY <1>1, <1>2 DEF Arrive

LEMMA HandleStep == ASSUME GateInv, NEW r \in Requests, Handle(r) PROVE GateInv'
<1> USE Constants, GateAssumption
<1>0. /\ CachesOK /\ RequestOK(r) /\ req[r] \in ReqType /\ now \in 0 .. MaxTime
      /\ req[r].pc = "gated" /\ UNCHANGED <<now, apple, known, fetched, failed, cache>>
  BY Split DEF CachesOK, Handle
<1>1. CASE req' = [req EXCEPT ![r] = Idle]
  <2>1. Idle \in ReqType /\ req'[r] = Idle
    BY <1>1, Split DEF Idle, ReqType
  <2>2. RequestOK(r)'
    BY <1>0, <2>1 DEF RequestOK, Refused, Idle, CachesOK
  <2> QED
    BY <1>0, <1>1, <2>1, <2>2, QuietRequest
<1>2. CASE req' = [req EXCEPT ![r] = [Idle EXCEPT !.pc = "fetching", !.stage = "handler",
                                      !.token = req[r].token, !.started = now]]
  <2> DEFINE new == [Idle EXCEPT !.pc = "fetching", !.stage = "handler",
                                 !.token = req[r].token, !.started = now]
  <2>0. req[r].token \in Tokens
    BY <1>0 DEF RequestOK
  <2>1. new \in ReqType
    BY <1>0, <2>0, IdleType DEF Idle, ReqType
  <2>4. req'[r] = new
    BY <1>2, Split
  <2>2. new.pc = "fetching" /\ new.token = req[r].token /\ new.started = now /\ new.at = 0
    BY DEF Idle
  <2>3. RequestOK(r)'
    <3> HIDE DEF new
    <3> QED
      BY <1>0, <2>1, <2>2, <2>4 DEF RequestOK, Refused, CachesOK, apple
  <2> QED
    BY <1>0, <1>2, <2>1, <2>3, QuietRequest
<1> QED
  BY <1>1, <1>2 DEF Handle

LEMMA ServeStep == ASSUME GateInv, NEW r \in Requests, Serve(r) PROVE GateInv'
<1> DEFINE new == [req[r] EXCEPT !.pc = "fetched", !.got = published]
<1>0. /\ CachesOK /\ RequestOK(r) /\ req[r] \in ReqType
      /\ req[r].pc = "fetching" /\ UNCHANGED <<now, apple, known, fetched, failed, cache>>
  BY Split DEF Serve
<1>1. new \in ReqType /\ req' = [req EXCEPT ![r] = new] /\ req'[r] = new
  BY <1>0, Split DEF ReqType, Serve, CachesOK
<1>2. /\ new.pc = "fetched" /\ new.got = published /\ new.token = req[r].token
      /\ new.started = req[r].started /\ new.at = req[r].at
  BY <1>0 DEF ReqType
<1>3. RequestOK(r)'
  <2> HIDE DEF new
  <2> QED
    BY <1>0, <1>1, <1>2 DEF RequestOK, Refused, apple
<1> QED
  BY <1>0, <1>1, <1>3, QuietRequest

LEMMA TakeKeysStep == ASSUME GateInv, NEW r \in Requests, TakeKeys(r) PROVE GateInv'
<1>0. CachesOK /\ RequestOK(r) /\ req[r] \in ReqType /\ req[r].pc = "fetched"
  BY Split DEF TakeKeys
<1>1. /\ known' = req[r].got /\ fetched' = req[r].started
      /\ Judge(r, req[r].token, req[r].got) /\ UNCHANGED <<now, apple, failed>>
  BY DEF TakeKeys, FetchedAt
<1>2. /\ req[r].token \in Tokens /\ KeyOf[req[r].token] \in published
      /\ KeyOf[req[r].token] \in req[r].got
      /\ req[r].got \subseteq Keys \cup OldKeys
      /\ req[r].started \in Int /\ req[r].started <= now
  BY <1>0 DEF RequestOK, ReqType
<1>3. KnownAsOf'
  BY <1>0, <1>1 DEF KnownAsOf, RequestOK, apple
<1> QED
  BY <1>0, <1>1, <1>2, <1>3, JudgeStep DEF CachesOK

LEMMA FetchFailsStep == ASSUME GateInv, NEW r \in Requests, FetchFails(r) PROVE GateInv'
<1>0. CachesOK /\ RequestOK(r) /\ req[r] \in ReqType /\ req[r].pc # "idle"
  BY Split DEF FetchFails
<1>1. /\ failed' = now /\ Judge(r, req[r].token, known)
      /\ UNCHANGED <<now, apple, known, fetched>>
  BY DEF FetchFails
<1>2. req[r].token \in Tokens /\ KeyOf[req[r].token] \in published
  BY <1>0 DEF RequestOK
<1>3. KnownAsOf'
  BY <1>0, <1>1 DEF KnownAsOf, CachesOK, apple
<1>4. now \in Int /\ failed' \in Int /\ failed <= failed' /\ failed' <= now
  BY <1>0, <1>1 DEF CachesOK
<1> QED
  BY <1>0, <1>1, <1>2, <1>3, <1>4, JudgeStep DEF CachesOK

-----------------------------------------------------------------------------
LEMMA NextInv == GateInv /\ [Next]_vars => GateInv'
<1> SUFFICES ASSUME GateInv, [Next]_vars PROVE GateInv'
  OBVIOUS
<1>1. CASE Tick
  BY <1>1, TickStep
<1>2. CASE \E k \in Keys : PublishKey(k)
  BY <1>2, PublishStep
<1>3. CASE \E p \in Prefixes : Evict(p)
  BY <1>3, EvictStep
<1>4. CASE \E r \in Requests : \/ \E t \in Tokens : Arrive(r, t)
                               \/ Handle(r) \/ Serve(r) \/ TakeKeys(r) \/ FetchFails(r)
  BY <1>4, ArriveStep, HandleStep, ServeStep, TakeKeysStep, FetchFailsStep
<1>5. CASE UNCHANGED vars
  <2>1. CachesOK'
    BY <1>5, Split DEF vars, apple, CachesOK, KnownAsOf, PermitsRight, RefusalsRight, Sole
  <2>2. ASSUME NEW r \in Requests PROVE RequestOK(r)'
    BY <1>5, Split DEF vars, apple, RequestOK, Refused, Excused, Sole
  <2>3. req' \in [Requests -> ReqType]
    BY <1>5, Split DEF vars
  <2> QED
    BY <2>1, <2>2, <2>3, SplitNext
<1> QED
  BY <1>1, <1>2, <1>3, <1>4, <1>5 DEF Next

(* Every reachable state is well typed. *)
THEOREM TypeCorrect == Spec => []TypeOK
<1>1. GateInv => TypeOK
  BY DEF GateInv
<1> QED
  BY <1>1, InitInv, NextInv, PTL DEF Spec

(* Whoever is let past the rate limit presents a transaction with the       *)
(* prefix of one that was still valid less than the lifetime of a verdict   *)
(* ago (middleware.py:21, 46-74), whatever the lifetimes are and however    *)
(* many requests share the cache.                                           *)
THEOREM PermitsExpire == Spec => []GateIsFresh
<1>1. GateInv => GateIsFresh
  BY DEF GateInv
<1> QED
  BY <1>1, InitInv, NextInv, PTL DEF Spec

(* A valid transaction that shares its prefix with no other is refused only *)
(* within one lifetime of a fetch that failed, or within both lifetimes of  *)
(* the publication of its key (apple_storekit.py:65-82, middleware.py:      *)
(* 46-77), however slowly the fetches of the keys overtake each other.      *)
THEOREM RefusalsEnd == Spec => []RefusalIsBrief
<1>1. GateInv => RefusalIsBrief
  BY DEF GateInv
<1> QED
  BY <1>1, InitInv, NextInv, PTL DEF Spec
=============================================================================
