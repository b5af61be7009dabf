---------------------------- MODULE RateLimitsProofs ----------------------------
(***************************************************************************)
(* Proofs about the counters in Redis (RateLimits), for every set of       *)
(* requests, every limit and every calendar, and about three modules whose *)
(* bounds rest on the same argument or that stand behind those counters:   *)
(* LoginGate as Login, EmailVerification as Email, Translation as          *)
(* Translate.  Each has variables of its own; what their modules assume of *)
(* the constants is the hypothesis of each theorem.                        *)
(***************************************************************************)
EXTENDS RateLimits, FiniteSetTheorems, TLAPS

Labels == Answers \cup {"counting", "weighing", "handling"}

(* A counter that is added to keeps its type. *)
LEMMA CounterType ==
    ASSUME NEW S, NEW f \in [S -> Nat], NEW w \in S, NEW n \in Nat
    PROVE  /\ [f EXCEPT ![w] = @ + n] \in [S -> Nat]
           /\ [f EXCEPT ![w] = @ + n][w] = f[w] + n
           /\ \A x \in S \ {w} : [f EXCEPT ![w] = @ + n][x] = f[x]
OBVIOUS

(* The windows of a tick are windows of the calendar. *)
LEMMA WindowOfTick ==
    ASSUME NEW t \in Ticks
    PROVE  /\ Minute[t] \in Windows(Minute)
           /\ Day[t] \in Windows(Day)
           /\ Week[t] \in Windows(Week)
BY DEF Windows

(* A request past the middleware's GETs knows the tick it computed its keys *)
(* for; without it TypeOK would not be preserved by Increment.              *)
KeysComputed == \A r \in Requests : pc[r] = "counting" => read[r] \in Ticks
LimitInv == TypeOK /\ KeysComputed /\ WeekLimitHeld

LEMMA InitInv == Init => LimitInv
<1> SUFFICES ASSUME Init PROVE LimitInv
  OBVIOUS
<1>1. 1 \in Ticks
  BY TimeAssumption DEF Ticks
<1>2. TypeOK
  BY <1>1 DEF Init, TypeOK, Answers
<1>3. KeysComputed
  BY DEF Init, KeysComputed
<1>4. WeekLimitHeld
  BY LimitAssumption DEF Init, WeekLimitHeld
<1> QED
  BY <1>2, <1>3, <1>4 DEF LimitInv

(* Steps that touch none of the week's counters. *)
LEMMA QuietStep ==
    ASSUME LimitInv, NEW r \in Requests,
           Skip(r) \/ ReadCounts(r) \/ Finish(r) \/ Break(r)
    PROVE  LimitInv'
<1> USE DEF LimitInv, TypeOK, Goto, Answers
<1>1. TypeOK'
  BY DEF Skip, ReadCounts, Finish, Break
<1>2. KeysComputed'
  BY DEF KeysComputed, Skip, ReadCounts, Finish, Break
<1>3. WeekLimitHeld'
  BY DEF WeekLimitHeld, Skip, ReadCounts, Finish, Break
<1> QED
  BY <1>1, <1>2, <1>3

LEMMA IncrementStep ==
    ASSUME LimitInv, NEW r \in Requests, Increment(r)
    PROVE  LimitInv'
<1>1. read[r] \in Ticks
  BY DEF LimitInv, KeysComputed, Increment
<1>2. minutes' \in [Windows(Minute) -> Nat] /\ days' \in [Windows(Day) -> Nat]
  BY <1>1, WindowOfTick, CounterType DEF LimitInv, TypeOK, Increment
<1>3. pc' \in [Requests -> Labels]
  BY DEF LimitInv, TypeOK, Increment, Goto, Labels
<1>4. TypeOK'
  BY <1>2, <1>3 DEF LimitInv, TypeOK, Increment, Labels
<1>5. KeysComputed'
  BY DEF LimitInv, TypeOK, KeysComputed, Increment, Goto
<1>6. WeekLimitHeld'
  BY DEF LimitInv, WeekLimitHeld, Increment
<1> QED
  BY <1>4, <1>5, <1>6 DEF LimitInv

(* The script compares and adds in one step, so the week stays within its   *)
(* limit.                                                                   *)
LEMMA CountCharactersStep ==
    ASSUME LimitInv, NEW r \in Requests, CountCharacters(r)
    PROVE  LimitInv'
<1> DEFINE w == Week[now]
<1>1. /\ w \in Windows(Week) /\ Chars[r] \in Nat
      /\ used \in [Windows(Week) -> Nat]
  BY WindowOfTick, RequestAssumption DEF LimitInv, TypeOK
<1>2. KeysComputed'
  BY DEF LimitInv, TypeOK, KeysComputed, CountCharacters, Goto
<1>3. pc' \in [Requests -> Labels]
  BY DEF LimitInv, TypeOK, CountCharacters, Goto, Labels, Answers
<1>4. CASE used[w] + Chars[r] > WeekLimit
  <2>1. UNCHANGED <<used, charged>>
    BY <1>4 DEF CountCharacters
  <2> QED
    BY <1>2, <1>3, <2>1 DEF LimitInv, TypeOK, WeekLimitHeld, CountCharacters, Labels
<1>5. CASE ~(used[w] + Chars[r] > WeekLimit)
  <2>1. /\ used' = [used EXCEPT ![w] = @ + Chars[r]]
        /\ charged' = [charged EXCEPT ![r] = {w}]
    BY <1>5 DEF CountCharacters
  <2>2. used' \in [Windows(Week) -> Nat] /\ charged' \in [Requests -> SUBSET Windows(Week)]
    BY <1>1, <2>1, CounterType DEF LimitInv, TypeOK
  <2>3. TypeOK'
    BY <1>3, <2>2 DEF LimitInv, TypeOK, CountCharacters, Labels
  <2>4. ASSUME NEW x \in Windows(Week) PROVE used'[x] <= WeekLimit
    <3>1. CASE x = w
      BY <1>1, <1>5, <2>1, <3>1, CounterType, LimitAssumption
    <3>2. CASE x # w
      BY <1>1, <2>1, <3>2, CounterType DEF LimitInv, WeekLimitHeld
    <3> QED
      BY <3>1, <3>2
  <2> QED
    BY <1>2, <2>3, <2>4 DEF LimitInv, WeekLimitHeld
<1> QED
  BY <1>4, <1>5

LEMMA NextInv == LimitInv /\ [Next]_vars => LimitInv'
<1> SUFFICES ASSUME LimitInv, [Next]_vars PROVE LimitInv'
  OBVIOUS
<1>1. CASE \E r \in Requests : \/ Skip(r) \/ ReadCounts(r) \/ Increment(r)
                               \/ CountCharacters(r) \/ Finish(r) \/ Break(r)
  BY <1>1, QuietStep, IncrementStep, CountCharactersStep
<1>2. CASE Tick
  BY <1>2 DEF LimitInv, TypeOK, KeysComputed, WeekLimitHeld, Tick
<1>3. CASE UNCHANGED vars
  BY <1>3 DEF LimitInv, TypeOK, KeysComputed, WeekLimitHeld, vars
<1> QED
  BY <1>1, <1>2, <1>3 DEF Next

(* Every reachable state is well typed, for all constants. *)
THEOREM TypeCorrect == Spec => []TypeOK
<1>1. LimitInv => TypeOK
  BY DEF LimitInv
<1> QED
  BY <1>1, InitInv, NextInv, PTL DEF Spec

(* An address never gets more anonymous characters in a week than the       *)
(* limit, however many of its requests overlap or break off                 *)
(* (usage_tracker.py:39-50).                                                *)
THEOREM WeekNeverExceeded == Spec => []WeekLimitHeld
<1>1. LimitInv => WeekLimitHeld
  BY DEF LimitInv
<1> QED
  BY <1>1, InitInv, NextInv, PTL DEF Spec

-----------------------------------------------------------------------------
(* What a week was charged.  A sum over a set is a recursive function that  *)
(* MapThenSumSet chooses: it exists, and it is the same whichever elements  *)
(* are picked first.  The induction is over the subsets of a finite set.    *)

\* The sum of f over S, and the recursion that it is defined by.
Sum(f, S) == MapThenSumSet(LAMBDA x : f[x], S)
Picked(s) == CHOOSE x \in s : TRUE
Adds(g, f, S) ==
    g = [s \in SUBSET S |-> IF s = {} THEN 0 ELSE f[Picked(s)] + g[s \ {Picked(s)}]]

LEMMA SumIs == ASSUME NEW f, NEW S PROVE Sum(f, S) = (CHOOSE g : Adds(g, f, S))[S]
BY DEF Sum, MapThenSumSet, MapThenFoldSet, Adds, Picked

(* What holds of a set if it holds of its strict subsets holds of them all. *)
LEMMA OverSubsets ==
    ASSUME NEW S, IsFiniteSet(S), NEW P,
           \A t \in SUBSET S : (\A u \in (SUBSET t) \ {t} : u \in P) => t \in P
    PROVE  SUBSET S \subseteq P
<1> DEFINE Bad == {t \in SUBSET S : t \notin P}
<1>1. SUFFICES ASSUME Bad # {} PROVE FALSE
  OBVIOUS
<1>2. IsWellFoundedOn(StrictSubsetOrdering(S), SUBSET S)
  BY FS_StrictSubsetOrderingWellFounded, FS_FiniteSubsetsOfFinite
<1>3. Bad \subseteq SUBSET S
  OBVIOUS
<1> HIDE DEF Bad
<1>4. PICK t \in Bad : \A u \in Bad : ~(<<u, t>> \in StrictSubsetOrdering(S))
  BY <1>1, <1>2, <1>3, WFMin
<1>5. \A u \in (SUBSET t) \ {t} : u \in P
  BY <1>3, <1>4 DEF StrictSubsetOrdering, Bad
<1> QED
  BY <1>4, <1>5 DEF Bad

(* The recursion has one solution on the sets on which f is the same.       *)
LEMMA AddsAlike ==
    ASSUME NEW S, IsFiniteSet(S), NEW U, NEW V, S \subseteq U, S \subseteq V,
           NEW f, NEW g, NEW e, NEW h, Adds(g, f, U), Adds(h, e, V), \A x \in S : f[x] = e[x]
    PROVE  g[S] = h[S]
<1> DEFINE P == {t \in SUBSET S : g[t] = h[t]}
<1>1. ASSUME NEW t \in SUBSET S, \A u \in (SUBSET t) \ {t} : u \in P
      PROVE  t \in P
  <2>1. t \in SUBSET U /\ t \in SUBSET V
    OBVIOUS
  <2>2. /\ g[t] = IF t = {} THEN 0 ELSE f[Picked(t)] + g[t \ {Picked(t)}]
        /\ h[t] = IF t = {} THEN 0 ELSE e[Picked(t)] + h[t \ {Picked(t)}]
    BY <2>1 DEF Adds
  <2>3. CASE t = {}
    BY <2>2, <2>3
  <2>4. CASE t # {}
    <3>1. Picked(t) \in t
      BY <2>4 DEF Picked
    <3>2. t \ {Picked(t)} \in P
      BY <1>1, <3>1
    <3> QED
      BY <2>2, <2>4, <3>1, <3>2
  <2> QED
    BY <2>3, <2>4
<1>2. SUBSET S \subseteq P
  <2> HIDE DEF P
  <2> QED BY <1>1, OverSubsets
<1> QED
  BY <1>2

LEMMA AddsExist ==
    ASSUME NEW S, IsFiniteSet(S), NEW f
    PROVE  \E g : Adds(g, f, S)
<1> DEFINE P == {t \in SUBSET S : \E g : Adds(g, f, t)}
           G(t) == CHOOSE g : Adds(g, f, t)
<1>1. ASSUME NEW t \in SUBSET S, \A u \in (SUBSET t) \ {t} : u \in P
      PROVE  t \in P
  <2>1. \A u \in (SUBSET t) \ {t} : Adds(G(u), f, u)
    BY <1>1
  <2> DEFINE value == IF t = {} THEN 0
                      ELSE f[Picked(t)] + G(t \ {Picked(t)})[t \ {Picked(t)}]
             h == [u \in SUBSET t |-> IF u = t THEN value ELSE G(u)[u]]
  <2> HIDE DEF G
  <2>2. ASSUME NEW u \in SUBSET t, u # {}
        PROVE  h[u] = f[Picked(u)] + h[u \ {Picked(u)}]
    <3>1. Picked(u) \in u
      BY <2>2 DEF Picked
    <3> DEFINE v == u \ {Picked(u)}
    <3>2. v \in SUBSET t /\ v # t /\ v \subseteq u
      BY <3>1
    <3>3. h[v] = G(v)[v]
      BY <3>2
    <3>4. CASE u = t
      BY <2>2, <3>3, <3>4
    <3>5. CASE u # t
      <4>1. Adds(G(u), f, u) /\ Adds(G(v), f, v)
        BY <2>1, <3>2, <3>5
      <4>2. G(u)[u] = f[Picked(u)] + G(u)[v]
        BY <2>2, <4>1 DEF Adds
      <4>3. IsFiniteSet(v)
        BY <3>2, FS_Subset
      <4>4. G(u)[v] = G(v)[v]
        BY <3>2, <4>1, <4>3, AddsAlike
      <4> QED
        BY <3>3, <3>5, <4>2, <4>4
    <3> QED
      BY <3>4, <3>5
  <2>3. h[{}] = 0
    <3>1. CASE t = {}
      BY <3>1
    <3>2. CASE t # {}
      <4>1. Adds(G({}), f, {})
        BY <2>1, <3>2
      <4>2. G({})[{}] = 0
        BY <4>1 DEF Adds
      <4> QED
        BY <3>2, <4>2
    <3> QED
      BY <3>1, <3>2
  <2>4. h = [u \in SUBSET t |-> h[u]]
    OBVIOUS
  <2> HIDE DEF h
  <2>5. Adds(h, f, t)
    <3>1. \A u \in SUBSET t :
             h[u] = IF u = {} THEN 0 ELSE f[Picked(u)] + h[u \ {Picked(u)}]
      BY <2>2, <2>3
    <3> QED
      BY <2>4, <3>1 DEF Adds
  <2> QED
    BY <2>5
<1>2. SUBSET S \subseteq P
  <2> HIDE DEF P
  <2> QED BY <1>1, OverSubsets
<1> QED
  BY <1>2

LEMMA SumAdds ==
    ASSUME NEW S, IsFiniteSet(S), NEW f, NEW T, T \subseteq S, NEW g, Adds(g, f, S)
    PROVE  Sum(f, T) = g[T]
<1>1. IsFiniteSet(T)
  BY FS_Subset
<1>2. Adds(CHOOSE h : Adds(h, f, T), f, T)
  BY <1>1, AddsExist
<1> QED
  BY <1>1, <1>2, AddsAlike, SumIs

LEMMA SumEmpty == ASSUME NEW f PROVE Sum(f, {}) = 0
<1>1. PICK g : Adds(g, f, {})
  BY FS_EmptySet, AddsExist
<1>2. g[{}] = 0
  BY <1>1 DEF Adds
<1> QED
  BY <1>1, <1>2, FS_EmptySet, SumAdds

(* The order in which the elements are picked makes no difference.          *)
LEMMA SumWithout ==
    ASSUME NEW S, IsFiniteSet(S), NEW f, \A x \in S : f[x] \in Int
    PROVE  Sum(f, S) \in Int /\ \A x \in S : Sum(f, S) = f[x] + Sum(f, S \ {x})
<1>1. PICK g : Adds(g, f, S)
  BY AddsExist
<1> DEFINE P == {t \in SUBSET S : g[t] \in Int /\ \A x \in t : g[t] = f[x] + g[t \ {x}]}
<1>2. ASSUME NEW t \in SUBSET S, \A u \in (SUBSET t) \ {t} : u \in P
      PROVE  t \in P
  <2>1. g[t] = IF t = {} THEN 0 ELSE f[Picked(t)] + g[t \ {Picked(t)}]
    BY <1>1 DEF Adds
  <2>2. CASE t = {}
    BY <2>1, <2>2
  <2>3. CASE t # {}
    <3> DEFINE y == Picked(t)
    <3>1. y \in t /\ f[y] \in Int
      BY <2>3 DEF Picked
    <3>2. g[t] = f[y] + g[t \ {y}]
      BY <2>1, <2>3
    <3> HIDE DEF y
    <3>3. \A x \in t : g[t \ {x}] \in Int /\ \A z \in t \ {x} : g[t \ {x}] = f[z] + g[(t \ {x}) \ {z}]
      BY <1>2
    <3>4. ASSUME NEW x \in t, x # y PROVE g[t] = f[x] + g[t \ {x}]
      <4>1. (t \ {x}) \ {y} = (t \ {y}) \ {x}
        OBVIOUS
      <4>2. g[t \ {y}] = f[x] + g[(t \ {x}) \ {y}] /\ g[t \ {x}] = f[y] + g[(t \ {x}) \ {y}]
        BY <3>1, <3>3, <3>4, <4>1
      <4>3. f[x] \in Int /\ g[(t \ {x}) \ {y}] \in Int
        <5>1. (t \ {x}) \ {y} \in P
          BY <1>2, <3>1
        <5> QED
          BY <5>1
      <4> QED
        BY <3>1, <3>2, <4>2, <4>3
    <3>5. g[t] \in Int
      <4>1. g[t \ {y}] \in Int
        BY <3>1, <3>3
      <4> QED
        BY <3>1, <3>2, <4>1
    <3> QED
      BY <3>2, <3>4, <3>5
  <2> QED
    BY <2>2, <2>3
<1>3. SUBSET S \subseteq P
  <2> HIDE DEF P
  <2> QED BY <1>2, OverSubsets
<1>4. \A T \in SUBSET S : Sum(f, T) = g[T]
  BY <1>1, SumAdds
<1>5. Sum(f, S) = g[S] /\ \A x \in S : Sum(f, S \ {x}) = g[S \ {x}]
  BY <1>4
<1>6. g[S] \in Int /\ \A x \in S : g[S] = f[x] + g[S \ {x}]
  BY <1>3
<1> QED
  BY <1>5, <1>6

LEMMA SumWith ==
    ASSUME NEW S, IsFiniteSet(S), NEW f, NEW x, \A y \in S \cup {x} : f[y] \in Int, x \notin S
    PROVE  Sum(f, S \cup {x}) = f[x] + Sum(f, S)
<1>1. IsFiniteSet(S \cup {x}) /\ (S \cup {x}) \ {x} = S
  BY FS_AddElement
<1> QED
  BY <1>1, SumWithout

(* The requests a week's characters were counted for.                       *)
ChargedIn(w) == {r \in Requests : w \in charged[r]}

(* A text is counted once: nobody that has still to be weighed is charged.  *)
ChargedLast ==
    \A r \in Requests : charged[r] # {} => pc[r] \notin {"idle", "counting", "weighing"}

ChargedInv ==
    /\ LimitInv /\ ChargedLast
    /\ \A w \in Windows(Week) :
          IsFiniteSet(ChargedIn(w)) /\ used[w] = Sum(Chars, ChargedIn(w))

LEMMA InitCharged == Init => ChargedInv
<1> SUFFICES ASSUME Init PROVE ChargedInv
  OBVIOUS
<1>1. LimitInv /\ ChargedLast
  BY InitInv DEF Init, ChargedLast
<1>2. ASSUME NEW w \in Windows(Week)
      PROVE  IsFiniteSet(ChargedIn(w)) /\ used[w] = Sum(Chars, ChargedIn(w))
  <2>1. ChargedIn(w) = {} /\ used[w] = 0
    BY DEF Init, ChargedIn
  <2> QED
    BY <2>1, FS_EmptySet, SumEmpty
<1> QED
  BY <1>1, <1>2 DEF ChargedInv

(* Steps that count nothing. *)
LEMMA ChargedRests ==
    ASSUME ChargedInv, LimitInv', ChargedLast', UNCHANGED <<used, charged>>
    PROVE  ChargedInv'
<1>1. \A w : ChargedIn(w)' = ChargedIn(w)
  BY DEF ChargedIn
<1> QED
  BY <1>1 DEF ChargedInv

(* The text that is let through joins those of its week.                    *)
LEMMA CountCharactersCharges ==
    ASSUME ChargedInv, LimitInv', NEW r \in Requests, CountCharacters(r)
    PROVE  ChargedInv'
<1> DEFINE v == Week[now]
<1>1. /\ TypeOK /\ pc[r] = "weighing" /\ charged[r] = {}
      /\ charged \in [Requests -> SUBSET Windows(Week)]
      /\ pc' = [pc EXCEPT ![r] = "weekly"] \/ pc' = [pc EXCEPT ![r] = "handling"]
  BY DEF ChargedInv, ChargedLast, LimitInv, TypeOK, CountCharacters, Goto
<1>2. CASE UNCHANGED <<used, charged>>
  <2>1. ChargedLast'
    BY <1>1, <1>2 DEF ChargedInv, ChargedLast, TypeOK
  <2> QED
    BY <1>2, <2>1, ChargedRests
<1>3. CASE /\ used' = [used EXCEPT ![v] = @ + Chars[r]]
           /\ charged' = [charged EXCEPT ![r] = {v}]
           /\ pc' = [pc EXCEPT ![r] = "handling"]
  <2>1. ChargedLast'
    BY <1>1, <1>3 DEF ChargedInv, ChargedLast, TypeOK
  <2>2. v \in Windows(Week) /\ used \in [Windows(Week) -> Nat] /\ Chars \in [Requests -> Nat]
    BY <1>1, WindowOfTick, RequestAssumption DEF TypeOK
  <2> HIDE DEF v
  <2>3. ASSUME NEW w \in Windows(Week)
        PROVE  IsFiniteSet(ChargedIn(w))' /\ used'[w] = Sum(Chars, ChargedIn(w)')
    <3>1. IsFiniteSet(ChargedIn(w)) /\ used[w] = Sum(Chars, ChargedIn(w))
      BY DEF ChargedInv
    <3>2. CASE w # v
      <4>1. ChargedIn(w)' = ChargedIn(w)
        BY <1>1, <1>3, <3>2 DEF ChargedIn
      <4>2. used'[w] = used[w]
        BY <1>3, <2>2, <3>2
      <4> QED
        BY <3>1, <4>1, <4>2
    <3>3. CASE w = v
      <4>1. ChargedIn(w)' = ChargedIn(w) \cup {r} /\ r \notin ChargedIn(w)
        BY <1>1, <1>3, <3>3 DEF ChargedIn
      <4>2. \A q \in ChargedIn(w) \cup {r} : Chars[q] \in Int
        BY <2>2 DEF ChargedIn
      <4>3. Sum(Chars, ChargedIn(w) \cup {r}) = Chars[r] + Sum(Chars, ChargedIn(w))
        BY <3>1, <4>1, <4>2, SumWith
      <4>4. used'[w] = used[w] + Chars[r]
        BY <1>3, <2>2, <3>3
      <4>5. IsFiniteSet(ChargedIn(w) \cup {r})
        BY <3>1, FS_AddElement
      <4>6. used[w] \in Nat /\ Chars[r] \in Nat
        BY <2>2
      <4> QED
        BY <3>1, <4>1, <4>3, <4>4, <4>5, <4>6
    <3> QED
      BY <3>2, <3>3
  <2> QED
    BY <2>1, <2>3 DEF ChargedInv
<1> QED
  BY <1>2, <1>3 DEF CountCharacters, Goto

LEMMA NextCharged == ChargedInv /\ [Next]_vars => ChargedInv'
<1> SUFFICES ASSUME ChargedInv, [Next]_vars PROVE ChargedInv'
  OBVIOUS
<1>1. LimitInv /\ TypeOK /\ LimitInv' /\ ChargedLast
  BY NextInv DEF ChargedInv, LimitInv
<1>2. ASSUME NEW r \in Requests,
             Skip(r) \/ ReadCounts(r) \/ Increment(r) \/ Finish(r) \/ Break(r)
      PROVE  ChargedInv'
  <2>1. UNCHANGED <<used, charged>>
    BY <1>2 DEF Skip, ReadCounts, Increment, Finish, Break
  <2>2. /\ \A q \in Requests : q # r => pc'[q] = pc[q]
        /\ pc'[r] \in {"idle", "counting", "weighing"} => pc[r] \in {"idle", "counting"}
    BY <1>1, <1>2 DEF Skip, ReadCounts, Increment, Finish, Break, Goto, TypeOK
  <2>3. ChargedLast'
    BY <1>1, <2>1, <2>2 DEF ChargedLast
  <2> QED
    BY <1>1, <2>1, <2>3, ChargedRests
<1>3. CASE \E r \in Requests : CountCharacters(r)
  BY <1>1, <1>3, CountCharactersCharges
<1>4. CASE Tick \/ UNCHANGED vars
  BY <1>1, <1>4, ChargedRests DEF ChargedLast, Tick, vars
<1> QED
  BY <1>2, <1>3, <1>4 DEF Next

(* What a week shows is the sum of the texts that were let through in it,   *)
(* for any number of requests: none is counted twice, and none that was     *)
(* refused (usage_tracker.py:39-50).                                        *)
THEOREM WeekCountsWhatPassed == Spec => []WeekIsCharged
<1>1. ChargedInv => WeekIsCharged
  BY DEF ChargedInv, WeekIsCharged, ChargedIn, Sum
<1> QED
  BY <1>1, InitCharged, NextCharged, PTL DEF Spec

-----------------------------------------------------------------------------
(* The overshoot.  A window may show its limit only to requests that had    *)
(* read it before: the requests between their GET and their INCR weigh as   *)
(* if they had counted already, and there are fewer than MaxInFlight others *)
(* when one of them reads.                                                  *)

\* The requests that are about to add to window w, of the minutes or the days.
CountingIn(f, w) == {r \in Requests : pc[r] = "counting" /\ f[read[r]] = w}

RoomInMinutes ==
    \A m \in Windows(Minute) :
        minutes[m] + Cardinality(CountingIn(Minute, m)) < MinuteLimit + MaxInFlight

RoomInDays ==
    \A d \in Windows(Day) :
        days[d] + Cardinality(CountingIn(Day, d)) < DayLimit + MaxInFlight

RoomInv == LimitInv /\ IsFiniteSet(InFlight) /\ RoomInMinutes /\ RoomInDays

LEMMA FewerElements ==
    ASSUME NEW T, IsFiniteSet(T), NEW S, S \subseteq T
    PROVE  /\ IsFiniteSet(S) /\ Cardinality(S) \in Nat /\ Cardinality(T) \in Nat
           /\ Cardinality(S) <= Cardinality(T)
BY FS_Subset, FS_CardinalityType

LEMMA OneElementLess ==
    ASSUME NEW T, IsFiniteSet(T), NEW x \in T, NEW S, S \subseteq T \ {x}
    PROVE  /\ Cardinality(S) \in Nat /\ Cardinality(T) \in Nat
           /\ Cardinality(S) + 1 <= Cardinality(T)
<1>1. IsFiniteSet(T \ {x}) /\ Cardinality(T \ {x}) = Cardinality(T) - 1
  BY FS_RemoveElement
<1>2. /\ Cardinality(S) \in Nat /\ Cardinality(S) <= Cardinality(T \ {x})
  BY <1>1, FewerElements
<1>3. Cardinality(T) \in Nat
  BY FS_CardinalityType
<1> QED
  BY <1>1, <1>2, <1>3

LEMMA OneElementMore ==
    ASSUME NEW T, IsFiniteSet(T), NEW x, NEW S, S \subseteq T \cup {x}
    PROVE  /\ IsFiniteSet(S) /\ Cardinality(S) \in Nat /\ Cardinality(T) \in Nat
           /\ Cardinality(S) <= Cardinality(T) + 1
<1>1. /\ IsFiniteSet(T \cup {x})
      /\ Cardinality(T \cup {x}) = IF x \in T THEN Cardinality(T) ELSE Cardinality(T) + 1
  BY FS_AddElement
<1>2. IsFiniteSet(S) /\ Cardinality(S) \in Nat /\ Cardinality(S) <= Cardinality(T \cup {x})
  BY <1>1, FewerElements
<1>3. Cardinality(T) \in Nat
  BY FS_CardinalityType
<1> QED
  BY <1>1, <1>2, <1>3

(* Who counts is in flight.                                                 *)
LEMMA CountingSizes ==
    ASSUME IsFiniteSet(InFlight), NEW f, NEW w
    PROVE  /\ IsFiniteSet(CountingIn(f, w)) /\ Cardinality(CountingIn(f, w)) \in Nat
           /\ Cardinality(InFlight) \in Nat
           /\ Cardinality(CountingIn(f, w)) <= Cardinality(InFlight)
<1>1. CountingIn(f, w) \subseteq InFlight
  BY DEF CountingIn, InFlight, Answers
<1> QED
  BY <1>1, FewerElements

LEMMA LimitsArePositive == {MinuteLimit, DayLimit, MaxInFlight} \subseteq Nat \ {0}
BY LimitAssumption

LEMMA InitRoom == Init => RoomInv
<1> SUFFICES ASSUME Init PROVE RoomInv
  OBVIOUS
<1>1. InFlight = {} /\ \A w : CountingIn(Minute, w) = {} /\ CountingIn(Day, w) = {}
  BY DEF Init, InFlight, CountingIn, Answers
<1>2. IsFiniteSet({}) /\ Cardinality({}) = 0
  BY FS_EmptySet
<1>3. 0 + 0 < MinuteLimit + MaxInFlight /\ 0 + 0 < DayLimit + MaxInFlight
  BY LimitsArePositive
<1>4. RoomInMinutes
  <2>1. \A m \in Windows(Minute) : minutes[m] = 0
    BY DEF Init
  <2> QED
    BY <1>1, <1>2, <1>3, <2>1 DEF RoomInMinutes
<1>5. RoomInDays
  <2>1. \A d \in Windows(Day) : days[d] = 0
    BY DEF Init
  <2> QED
    BY <1>1, <1>2, <1>3, <2>1 DEF RoomInDays
<1> QED
  BY <1>1, <1>2, <1>4, <1>5, InitInv DEF RoomInv

\* A step that adds to no counter and sends nobody to count.
LEMMA NobodyCounts ==
    ASSUME RoomInv, LimitInv', UNCHANGED <<minutes, days>>, IsFiniteSet(InFlight'),
           \A f, w : CountingIn(f, w)' \subseteq CountingIn(f, w)
    PROVE  RoomInv'
<1>1. ASSUME NEW f, NEW w
      PROVE  /\ Cardinality(CountingIn(f, w)') \in Nat
             /\ Cardinality(CountingIn(f, w)) \in Nat
             /\ Cardinality(CountingIn(f, w)') <= Cardinality(CountingIn(f, w))
  BY CountingSizes, FewerElements DEF RoomInv
<1>2. RoomInMinutes'
  <2>1. ASSUME NEW m \in Windows(Minute)
        PROVE  minutes'[m] + Cardinality(CountingIn(Minute, m)') < MinuteLimit + MaxInFlight
    <3>1. minutes'[m] = minutes[m] /\ minutes[m] \in Nat
      BY DEF RoomInv, LimitInv, TypeOK
    <3>2. minutes[m] + Cardinality(CountingIn(Minute, m)) < MinuteLimit + MaxInFlight
      BY DEF RoomInv, RoomInMinutes
    <3> QED
      BY <1>1, <3>1, <3>2, LimitsArePositive
  <2> QED
    BY <2>1 DEF RoomInMinutes
<1>3. RoomInDays'
  <2>1. ASSUME NEW d \in Windows(Day)
        PROVE  days'[d] + Cardinality(CountingIn(Day, d)') < DayLimit + MaxInFlight
    <3>1. days'[d] = days[d] /\ days[d] \in Nat
      BY DEF RoomInv, LimitInv, TypeOK
    <3>2. days[d] + Cardinality(CountingIn(Day, d)) < DayLimit + MaxInFlight
      BY DEF RoomInv, RoomInDays
    <3> QED
      BY <1>1, <3>1, <3>2, LimitsArePositive
  <2> QED
    BY <2>1 DEF RoomInDays
<1> QED
  BY <1>2, <1>3 DEF RoomInv

LEMMA QuietKeepsRoom ==
    ASSUME RoomInv, LimitInv', NEW r \in Requests,
           Skip(r) \/ CountCharacters(r) \/ Finish(r) \/ Break(r)
    PROVE  RoomInv'
<1>1. /\ UNCHANGED <<minutes, days, read>>
      /\ pc' \in [Requests -> Labels] /\ pc'[r] # "counting"
      /\ \A q \in Requests \ {r} : pc'[q] = pc[q]
  BY DEF RoomInv, LimitInv, TypeOK, Skip, CountCharacters, Finish, Break, Goto, Answers, Labels
<1>2. \A f, w : CountingIn(f, w)' \subseteq CountingIn(f, w)
  BY <1>1 DEF CountingIn
<1>3. InFlight' \subseteq InFlight \cup {r}
  BY <1>1 DEF InFlight
<1>4. IsFiniteSet(InFlight')
  BY <1>3, OneElementMore DEF RoomInv
<1> QED
  BY <1>1, <1>2, <1>4, NobodyCounts

\* Who goes on to count found the window below its limit, and fewer than
\* MaxInFlight requests ahead of it.
LEMMA ReadKeepsRoom ==
    ASSUME RoomInv, LimitInv', NEW r \in Requests, ReadCounts(r)
    PROVE  RoomInv'
<1>0. /\ UNCHANGED <<minutes, days>> /\ LimitInv
      /\ pc[r] = "idle" /\ now \in Ticks
      /\ \A q \in Requests \ {r} : pc'[q] = pc[q] /\ read'[q] = read[q]
      /\ pc'[r] = "counting" => ~AtMinuteLimit(now) /\ ~AtDayLimit(now) /\ read'[r] = now
  BY DEF RoomInv, LimitInv, TypeOK, ReadCounts, Goto
<1>1. InFlight' \subseteq InFlight \cup {r}
  BY <1>0 DEF InFlight
<1>2. IsFiniteSet(InFlight')
  BY <1>1, OneElementMore DEF RoomInv
<1>3. CASE pc'[r] # "counting"
  <2>1. \A f, w : CountingIn(f, w)' \subseteq CountingIn(f, w)
    BY <1>0, <1>3 DEF CountingIn
  <2> QED
    BY <1>0, <1>2, <2>1, NobodyCounts
<1>4. CASE pc'[r] = "counting"
  <2>1. Cardinality(InFlight) < MaxInFlight
    BY DEF ReadCounts
  <2>2. ASSUME NEW f, NEW w
        PROVE  /\ CountingIn(f, w)' \subseteq CountingIn(f, w) \cup {r}
               /\ w # f[now] => CountingIn(f, w)' \subseteq CountingIn(f, w)
    BY <1>0, <1>4 DEF CountingIn
  <2>3. ASSUME NEW f, NEW w
        PROVE  /\ Cardinality(CountingIn(f, w)) \in Nat
               /\ Cardinality(CountingIn(f, w)') \in Nat
               /\ Cardinality(CountingIn(f, w)') <= MaxInFlight
               /\ w # f[now] => Cardinality(CountingIn(f, w)') <= Cardinality(CountingIn(f, w))
    <3>1. /\ IsFiniteSet(CountingIn(f, w)) /\ Cardinality(CountingIn(f, w)) \in Nat
          /\ Cardinality(InFlight) \in Nat
          /\ Cardinality(CountingIn(f, w)) <= Cardinality(InFlight)
      BY CountingSizes DEF RoomInv
    <3>2. /\ Cardinality(CountingIn(f, w)') \in Nat
          /\ Cardinality(CountingIn(f, w)') <= Cardinality(CountingIn(f, w)) + 1
      BY <2>2, <3>1, OneElementMore
    <3>3. w # f[now] => Cardinality(CountingIn(f, w)') <= Cardinality(CountingIn(f, w))
      BY <2>2, <3>1, FewerElements
    <3> QED
      BY <2>1, <3>1, <3>2, <3>3, LimitsArePositive
  <2>4. ASSUME NEW m \in Windows(Minute)
        PROVE  minutes'[m] + Cardinality(CountingIn(Minute, m)') < MinuteLimit + MaxInFlight
    <3>1. minutes'[m] = minutes[m] /\ minutes[m] \in Nat
      BY <1>0 DEF LimitInv, TypeOK
    <3>2. CASE m = Minute[now]
      <4>1. ~(minutes[m] >= MinuteLimit)
        BY <1>0, <1>4, <3>2 DEF AtMinuteLimit
      <4> QED
        BY <2>3, <3>1, <4>1, LimitsArePositive
    <3>3. CASE m # Minute[now]
      <4>1. minutes[m] + Cardinality(CountingIn(Minute, m)) < MinuteLimit + MaxInFlight
        BY DEF RoomInv, RoomInMinutes
      <4> QED
        BY <2>3, <3>1, <3>3, <4>1, LimitsArePositive
    <3> QED
      BY <3>2, <3>3
  <2>5. ASSUME NEW d \in Windows(Day)
        PROVE  days'[d] + Cardinality(CountingIn(Day, d)') < DayLimit + MaxInFlight
    <3>1. days'[d] = days[d] /\ days[d] \in Nat
      BY <1>0 DEF LimitInv, TypeOK
    <3>2. CASE d = Day[now]
      <4>1. ~(days[d] >= DayLimit)
        BY <1>0, <1>4, <3>2 DEF AtDayLimit
      <4> QED
        BY <2>3, <3>1, <4>1, LimitsArePositive
    <3>3. CASE d # Day[now]
      <4>1. days[d] + Cardinality(CountingIn(Day, d)) < DayLimit + MaxInFlight
        BY DEF RoomInv, RoomInDays
      <4> QED
        BY <2>3, <3>1, <3>3, <4>1, LimitsArePositive
    <3> QED
      BY <3>2, <3>3
  <2> QED
    BY <1>2, <2>4, <2>5 DEF RoomInv, RoomInMinutes, RoomInDays
<1> QED
  BY <1>3, <1>4

\* The INCR takes the weight of the request with it.
LEMMA IncrementKeepsRoom ==
    ASSUME RoomInv, LimitInv', NEW r \in Requests, Increment(r)
    PROVE  RoomInv'
<1>0. /\ LimitInv /\ pc[r] = "counting" /\ read[r] \in Ticks
      /\ minutes' = [minutes EXCEPT ![Minute[read[r]]] = @ + 1]
      /\ days' = [days EXCEPT ![Day[read[r]]] = @ + 1]
      /\ UNCHANGED read /\ pc'[r] # "counting"
      /\ \A q \in Requests \ {r} : pc'[q] = pc[q]
  BY DEF RoomInv, LimitInv, TypeOK, KeysComputed, Increment, Goto
<1>1. IsFiniteSet(InFlight')
  <2>1. InFlight' \subseteq InFlight \cup {r}
    BY <1>0 DEF InFlight
  <2> QED
    BY <2>1, OneElementMore DEF RoomInv
<1>2. ASSUME NEW f, NEW w
      PROVE  /\ Cardinality(CountingIn(f, w)) \in Nat /\ Cardinality(CountingIn(f, w)') \in Nat
             /\ Cardinality(CountingIn(f, w)') <= Cardinality(CountingIn(f, w))
             /\ w = f[read[r]] =>
                  Cardinality(CountingIn(f, w)') + 1 <= Cardinality(CountingIn(f, w))
  <2>1. IsFiniteSet(CountingIn(f, w))
    BY CountingSizes DEF RoomInv
  <2>2. CountingIn(f, w)' \subseteq CountingIn(f, w) \ {r}
    BY <1>0 DEF CountingIn
  <2>3. /\ Cardinality(CountingIn(f, w)) \in Nat /\ Cardinality(CountingIn(f, w)') \in Nat
        /\ Cardinality(CountingIn(f, w)') <= Cardinality(CountingIn(f, w))
    BY <2>1, <2>2, FewerElements
  <2>4. w = f[read[r]] => r \in CountingIn(f, w)
    BY <1>0 DEF CountingIn
  <2> QED
    BY <2>1, <2>2, <2>3, <2>4, OneElementLess
<1>3. ASSUME NEW m \in Windows(Minute)
      PROVE  minutes'[m] + Cardinality(CountingIn(Minute, m)') < MinuteLimit + MaxInFlight
  <2>1. minutes \in [Windows(Minute) -> Nat] /\ Minute[read[r]] \in Windows(Minute)
    BY <1>0, WindowOfTick DEF LimitInv, TypeOK
  <2>2. minutes[m] + Cardinality(CountingIn(Minute, m)) < MinuteLimit + MaxInFlight
    BY DEF RoomInv, RoomInMinutes
  <2>3. CASE m = Minute[read[r]]
    <3>1. minutes'[m] = minutes[m] + 1 /\ minutes[m] \in Nat
      BY <1>0, <2>1, <2>3
    <3> QED
      BY <1>2, <2>2, <2>3, <3>1, LimitsArePositive
  <2>4. CASE m # Minute[read[r]]
    <3>1. minutes'[m] = minutes[m] /\ minutes[m] \in Nat
      BY <1>0, <2>1, <2>4
    <3> QED
      BY <1>2, <2>2, <3>1, LimitsArePositive
  <2> QED
    BY <2>3, <2>4
<1>4. ASSUME NEW d \in Windows(Day)
      PROVE  days'[d] + Cardinality(CountingIn(Day, d)') < DayLimit + MaxInFlight
  <2>1. days \in [Windows(Day) -> Nat] /\ Day[read[r]] \in Windows(Day)
    BY <1>0, WindowOfTick DEF LimitInv, TypeOK
  <2>2. days[d] + Cardinality(CountingIn(Day, d)) < DayLimit + MaxInFlight
    BY DEF RoomInv, RoomInDays
  <2>3. CASE d = Day[read[r]]
    <3>1. days'[d] = days[d] + 1 /\ days[d] \in Nat
      BY <1>0, <2>1, <2>3
    <3> QED
      BY <1>2, <2>2, <2>3, <3>1, LimitsArePositive
  <2>4. CASE d # Day[read[r]]
    <3>1. days'[d] = days[d] /\ days[d] \in Nat
      BY <1>0, <2>1, <2>4
    <3> QED
      BY <1>2, <2>2, <3>1, LimitsArePositive
  <2> QED
    BY <2>3, <2>4
<1> QED
  BY <1>1, <1>3, <1>4 DEF RoomInv, RoomInMinutes, RoomInDays

LEMMA NextRoom == RoomInv /\ [Next]_vars => RoomInv'
<1> SUFFICES ASSUME RoomInv, [Next]_vars PROVE RoomInv'
  OBVIOUS
<1>1. LimitInv'
  BY NextInv DEF RoomInv
<1>2. CASE \E r \in Requests : \/ Skip(r) \/ ReadCounts(r) \/ Increment(r)
                               \/ CountCharacters(r) \/ Finish(r) \/ Break(r)
  BY <1>1, <1>2, QuietKeepsRoom, ReadKeepsRoom, IncrementKeepsRoom
<1>3. CASE Tick \/ UNCHANGED vars
  <2>1. UNCHANGED <<minutes, days, pc, read>>
    BY <1>3 DEF Tick, vars
  <2>2. InFlight' = InFlight /\ \A f, w : CountingIn(f, w)' = CountingIn(f, w)
    BY <2>1 DEF InFlight, CountingIn
  <2>3. IsFiniteSet(InFlight') /\ \A f, w : CountingIn(f, w)' \subseteq CountingIn(f, w)
    BY <2>2 DEF RoomInv
  <2> QED
    BY <1>1, <2>1, <2>3, NobodyCounts
<1> QED
  BY <1>2, <1>3 DEF Next

(* GET and INCR are two commands: whatever requests come between the two,   *)
(* a minute or a day is exceeded by less than the requests handled at once  *)
(* (rate_limiter.py:60-98).                                                 *)
THEOREM OvershootBoundedByConcurrency == Spec => []OvershootIsConcurrency
<1>1. RoomInv => OvershootIsConcurrency
  <2> SUFFICES ASSUME RoomInv PROVE OvershootIsConcurrency
    OBVIOUS
  <2>1. ASSUME NEW f, NEW w PROVE Cardinality(CountingIn(f, w)) \in Nat
    BY CountingSizes DEF RoomInv
  <2>2. ASSUME NEW m \in Windows(Minute) PROVE minutes[m] < MinuteLimit + MaxInFlight
    <3>1. /\ minutes[m] + Cardinality(CountingIn(Minute, m)) < MinuteLimit + MaxInFlight
          /\ minutes[m] \in Nat
      BY DEF RoomInv, RoomInMinutes, LimitInv, TypeOK
    <3> QED
      BY <2>1, <3>1, LimitsArePositive
  <2>3. ASSUME NEW d \in Windows(Day) PROVE days[d] < DayLimit + MaxInFlight
    <3>1. /\ days[d] + Cardinality(CountingIn(Day, d)) < DayLimit + MaxInFlight
          /\ days[d] \in Nat
      BY DEF RoomInv, RoomInDays, LimitInv, TypeOK
    <3> QED
      BY <2>1, <3>1, LimitsArePositive
  <2> QED
    BY <2>2, <2>3 DEF OvershootIsConcurrency
<1> QED
  BY <1>1, InitRoom, NextRoom, PTL DEF Spec

-----------------------------------------------------------------------------
(* LoginGate, with variables of its own, for every number of requests and   *)
(* windows and every limit.                                                 *)

CONSTANTS Route, Limit, MaxFailed, LastWindow
VARIABLES window, counts, attempts, expires, locked, stage, asked, tries, guesses, lost

Login == INSTANCE LoginGate WITH pc <- stage, read <- asked

Busy == IsFiniteSet(Login!InFlight) /\ Cardinality(Login!InFlight) <= MaxInFlight

\* The requests that are about to add to window w of a route.
CountingLogin(route, w) ==
    {r \in Requests : stage[r] = "counting" /\ Route[r] = route /\ asked[r] = w}

RoomInWindows ==
    \A route \in Login!Routes, w \in Login!Windows :
        counts[route][w] + Cardinality(CountingLogin(route, w)) < Limit[route] + MaxInFlight

Verifying == {r \in Requests : stage[r] = "verifying"}

\* The requests that will still add to the failures, or lock.
Unsettled ==
    {r \in Requests : \/ stage[r] = "failing"
                      \/ stage[r] \in {"expiring", "locking"} /\ tries[r] >= MaxFailed}

(* While nothing is locked, a wrong password is among the failures counted, *)
(* on its way there, or lost, and the failures do not reach MaxFailed       *)
(* without a request that will lock.  Once it is locked, only who verifies  *)
(* already can guess.                                                       *)
GuessesCounted ==
    /\ ~locked => /\ guesses <= attempts + Cardinality(Unsettled) + lost
                  /\ guesses < MaxFailed + Cardinality(Unsettled) + lost
    /\ locked => guesses + Cardinality(Verifying) < MaxFailed + MaxInFlight + lost

\* The failures are deleted behind the lock.
ForgottenBehindLock == \A r \in Requests : stage[r] = "forgetting" => locked

GuessInv == Login!TypeOK /\ Busy /\ GuessesCounted /\ ForgottenBehindLock

LEMMA LoginConstants ==
    ASSUME Login!LoginAssumption
    PROVE  /\ MaxFailed \in Nat /\ MaxFailed > 0
           /\ MaxInFlight \in Nat /\ MaxInFlight > 0
           /\ LastWindow \in Nat /\ LastWindow > 0
           /\ \A route \in Login!Routes : Limit[route] \in Nat /\ Limit[route] > 0
           /\ Route \in [Requests -> Login!Routes]
BY DEF Login!LoginAssumption

LEMMA LoginSizes ==
    Busy => /\ Cardinality(Login!InFlight) \in Nat
            /\ IsFiniteSet(Unsettled) /\ Cardinality(Unsettled) \in Nat
            /\ IsFiniteSet(Verifying) /\ Cardinality(Verifying) \in Nat
            /\ Cardinality(Unsettled) + Cardinality(Verifying) <= Cardinality(Login!InFlight)
<1> SUFFICES ASSUME Busy
             PROVE  /\ Cardinality(Login!InFlight) \in Nat
                    /\ IsFiniteSet(Unsettled) /\ Cardinality(Unsettled) \in Nat
                    /\ IsFiniteSet(Verifying) /\ Cardinality(Verifying) \in Nat
                    /\ Cardinality(Unsettled) + Cardinality(Verifying)
                         <= Cardinality(Login!InFlight)
  OBVIOUS
<1>1. /\ Unsettled \subseteq Login!InFlight /\ Verifying \subseteq Login!InFlight
      /\ Unsettled \cup Verifying \subseteq Login!InFlight
      /\ Unsettled \cap Verifying = {}
  BY DEF Unsettled, Verifying, Login!InFlight, Login!Steps
<1>2. /\ IsFiniteSet(Unsettled) /\ Cardinality(Unsettled) \in Nat
      /\ IsFiniteSet(Verifying) /\ Cardinality(Verifying) \in Nat
      /\ Cardinality(Login!InFlight) \in Nat
      /\ Cardinality(Unsettled \cup Verifying) <= Cardinality(Login!InFlight)
  BY <1>1, FewerElements DEF Busy
<1>3. Cardinality(Unsettled \cup Verifying)
        = Cardinality(Unsettled) + Cardinality(Verifying) - Cardinality(Unsettled \cap Verifying)
  BY <1>2, FS_Union
<1>4. Cardinality(Unsettled \cap Verifying) = 0
  BY <1>1, FS_EmptySet
<1> QED
  BY <1>2, <1>3, <1>4

LEMMA LoginSizesNext ==
    (Busy => /\ Cardinality(Login!InFlight) \in Nat
             /\ IsFiniteSet(Unsettled) /\ Cardinality(Unsettled) \in Nat
             /\ IsFiniteSet(Verifying) /\ Cardinality(Verifying) \in Nat
             /\ Cardinality(Unsettled) + Cardinality(Verifying)
                  <= Cardinality(Login!InFlight))'
BY LoginSizes, PTL

LEMMA LoginInit ==
    ASSUME Login!LoginAssumption, Login!Init
    PROVE  /\ GuessInv /\ RoomInWindows /\ Login!FailuresAreForgotten
<1>1. Login!TypeOK
  <2>1. 1 \in Login!Windows
    BY LoginConstants DEF Login!Windows
  <2> QED
    BY <2>1 DEF Login!Init, Login!TypeOK, Login!Answers
<1>2. /\ Login!InFlight = {} /\ Unsettled = {} /\ Verifying = {}
      /\ \A route, w : CountingLogin(route, w) = {}
  BY DEF Login!Init, Login!InFlight, Login!Steps, Unsettled, Verifying, CountingLogin
<1>3. IsFiniteSet({}) /\ Cardinality({}) = 0
  BY FS_EmptySet
<1>4. Busy
  BY <1>2, <1>3, LoginConstants DEF Busy
<1>5. GuessesCounted /\ ForgottenBehindLock
  BY <1>2, <1>3, LoginConstants DEF Login!Init, GuessesCounted, ForgottenBehindLock
<1>6. RoomInWindows
  <2>1. ASSUME NEW route \in Login!Routes, NEW w \in Login!Windows
        PROVE  counts[route][w] + Cardinality(CountingLogin(route, w)) < Limit[route] + MaxInFlight
    <3>1. counts[route][w] = 0
      BY DEF Login!Init
    <3> QED
      BY <1>2, <1>3, <3>1, LoginConstants
  <2> QED
    BY <2>1 DEF RoomInWindows
<1>7. Login!FailuresAreForgotten
  BY DEF Login!Init, Login!FailuresAreForgotten
<1> QED
  BY <1>1, <1>4, <1>5, <1>6, <1>7 DEF GuessInv

LEMMA LoginCardinality == \A S : Login!Cardinality(S) = Cardinality(S)
BY DEF Login!Cardinality, Cardinality

LEMMA LoginTypes ==
    ASSUME Login!LoginAssumption, Login!TypeOK, [Login!Next]_(Login!vars)
    PROVE  Login!TypeOK'
<1>1. ASSUME NEW r \in Requests,
             \/ Login!ReadCount(r) \/ Login!Count(r) \/ Login!CheckLockout(r)
             \/ Login!Verify(r) \/ Login!ClearFailures(r) \/ Login!RecordFailure(r)
             \/ Login!SetExpiry(r) \/ Login!Lock(r) \/ Login!Forget(r) \/ Login!Break(r)
      PROVE  Login!TypeOK'
  <2>1. stage' \in [Requests -> Login!Answers \cup Login!Steps]
    <3>1. \E label \in Login!Answers \cup Login!Steps : Login!Goto(r, label)
      BY <1>1 DEF Login!ReadCount, Login!Count, Login!CheckLockout, Login!Verify,
           Login!ClearFailures, Login!RecordFailure, Login!SetExpiry, Login!Lock,
           Login!Forget, Login!Break, Login!Answers, Login!Steps
    <3> QED
      BY <3>1 DEF Login!Goto, Login!TypeOK
  <2>2. window' \in Login!Windows /\ asked' \in [Requests -> Login!Windows]
    BY <1>1 DEF Login!TypeOK, Login!ReadCount, Login!Count, Login!CheckLockout,
         Login!Verify, Login!ClearFailures, Login!RecordFailure, Login!SetExpiry,
         Login!Lock, Login!Forget, Login!Break
  <2>3. counts' \in [Login!Routes -> [Login!Windows -> Nat]]
    <3>1. CASE Login!Count(r)
      <4>1. /\ Route[r] \in Login!Routes /\ asked[r] \in Login!Windows
            /\ counts' = [counts EXCEPT ![Route[r]][asked[r]] = @ + 1]
            /\ counts \in [Login!Routes -> [Login!Windows -> Nat]]
        BY <3>1, LoginConstants DEF Login!Count, Login!TypeOK
      <4>2. counts[Route[r]][asked[r]] + 1 \in Nat
        BY <4>1
      <4> QED
        BY <4>1, <4>2
    <3>2. CASE ~Login!Count(r)
      BY <1>1, <3>2 DEF Login!TypeOK, Login!ReadCount, Login!CheckLockout,
           Login!Verify, Login!ClearFailures, Login!RecordFailure, Login!SetExpiry,
           Login!Lock, Login!Forget, Login!Break, Login!redis
    <3> QED
      BY <3>1, <3>2
  <2>4. attempts' \in Nat
    <3>1. \/ attempts' = attempts \/ attempts' = attempts + 1 \/ attempts' = 0
      BY <1>1 DEF Login!ReadCount, Login!Count, Login!CheckLockout,
           Login!Verify, Login!ClearFailures, Login!RecordFailure, Login!SetExpiry,
           Login!Lock, Login!Forget, Login!Break, Login!redis
    <3>2. attempts \in Nat
      BY DEF Login!TypeOK
    <3> QED
      BY <3>1, <3>2
  <2>5. expires' \in BOOLEAN /\ locked' \in BOOLEAN
    <3>1. CASE Login!SetExpiry(r)
      BY <3>1 DEF Login!SetExpiry, Login!TypeOK
    <3>2. CASE ~Login!SetExpiry(r)
      BY <1>1, <3>2 DEF Login!TypeOK, Login!ReadCount, Login!Count, Login!CheckLockout,
           Login!Verify, Login!ClearFailures, Login!RecordFailure,
           Login!Lock, Login!Forget, Login!Break, Login!redis
    <3> QED
      BY <3>1, <3>2
  <2>6. tries' \in [Requests -> Nat]
    <3>1. CASE Login!RecordFailure(r)
      <4>1. tries' = [tries EXCEPT ![r] = attempts + 1] /\ attempts + 1 \in Nat
        BY <3>1 DEF Login!RecordFailure, Login!TypeOK
      <4> QED
        BY <4>1 DEF Login!TypeOK
    <3>2. CASE ~Login!RecordFailure(r)
      BY <1>1, <3>2 DEF Login!TypeOK, Login!ReadCount, Login!Count, Login!CheckLockout,
           Login!Verify, Login!ClearFailures, Login!SetExpiry,
           Login!Lock, Login!Forget, Login!Break
    <3> QED
      BY <3>1, <3>2
  <2>7. guesses' \in Nat /\ lost' \in Nat
    <3>1. /\ guesses' = guesses \/ guesses' = guesses + 1 \/ guesses' = 0
          /\ lost' = lost \/ lost' = lost + 1 \/ lost' = 0
      BY <1>1 DEF Login!ReadCount, Login!Count, Login!CheckLockout,
           Login!Verify, Login!ClearFailures, Login!RecordFailure, Login!SetExpiry,
           Login!Lock, Login!Forget, Login!Break, Login!history, Login!Forgive
    <3>2. guesses \in Nat /\ lost \in Nat
      BY DEF Login!TypeOK
    <3> QED
      BY <3>1, <3>2
  <2> QED
    BY <2>1, <2>2, <2>3, <2>4, <2>5, <2>6, <2>7 DEF Login!TypeOK
<1>2. CASE Login!LockoutEnds \/ Login!FailuresExpire
  <2>1. /\ UNCHANGED <<window, counts, stage, asked, tries>>
        /\ guesses' = 0 /\ lost' = 0
    BY <1>2 DEF Login!LockoutEnds, Login!FailuresExpire, Login!Forgive
  <2>2. attempts' \in Nat /\ expires' \in BOOLEAN /\ locked' \in BOOLEAN
    <3>1. CASE Login!LockoutEnds
      BY <3>1 DEF Login!LockoutEnds, Login!TypeOK
    <3>2. CASE Login!FailuresExpire
      BY <3>2 DEF Login!FailuresExpire, Login!TypeOK
    <3> QED
      BY <1>2, <3>1, <3>2
  <2> QED
    BY <2>1, <2>2 DEF Login!TypeOK
<1>3. CASE Login!NextWindow
  <2>1. window' \in Login!Windows
    BY <1>3, LoginConstants DEF Login!NextWindow, Login!TypeOK, Login!Windows
  <2>2. UNCHANGED <<counts, attempts, expires, locked, stage, asked, tries, guesses, lost>>
    BY <1>3 DEF Login!NextWindow, Login!redis, Login!history
  <2> QED
    BY <2>1, <2>2 DEF Login!TypeOK
<1>4. CASE UNCHANGED Login!vars
  BY <1>4 DEF Login!vars, Login!redis, Login!history, Login!TypeOK
<1> QED
  BY <1>1, <1>2, <1>3, <1>4 DEF Login!Next, Login!Handle

(* What any step leaves alone, and who may join the requests under way.     *)
LEMMA LoginFlight ==
    ASSUME Login!LoginAssumption, Login!TypeOK, Busy, [Login!Next]_(Login!vars)
    PROVE  Busy'
<1>1. ASSUME NEW r \in Requests, Login!ReadCount(r) PROVE Busy'
  <2>1. Login!InFlight' \subseteq Login!InFlight \cup {r}
    BY <1>1 DEF Login!ReadCount, Login!Goto, Login!InFlight, Login!TypeOK
  <2>2. /\ IsFiniteSet(Login!InFlight')
        /\ Cardinality(Login!InFlight') \in Nat /\ Cardinality(Login!InFlight) \in Nat
        /\ Cardinality(Login!InFlight') <= Cardinality(Login!InFlight) + 1
    BY <2>1, OneElementMore DEF Busy
  <2>3. Cardinality(Login!InFlight) < MaxInFlight
    BY <1>1, LoginCardinality DEF Login!ReadCount
  <2> QED
    BY <2>2, <2>3, LoginConstants DEF Busy
<1>2. ASSUME Login!InFlight' \subseteq Login!InFlight PROVE Busy'
  <2>1. /\ IsFiniteSet(Login!InFlight')
        /\ Cardinality(Login!InFlight') \in Nat /\ Cardinality(Login!InFlight) \in Nat
        /\ Cardinality(Login!InFlight') <= Cardinality(Login!InFlight)
    BY <1>2, FewerElements DEF Busy
  <2> QED
    BY <2>1, LoginConstants DEF Busy
<1>3. ASSUME NEW r \in Requests,
             \/ Login!Count(r) \/ Login!CheckLockout(r) \/ Login!Verify(r)
             \/ Login!ClearFailures(r) \/ Login!RecordFailure(r) \/ Login!SetExpiry(r)
             \/ Login!Lock(r) \/ Login!Forget(r) \/ Login!Break(r)
      PROVE  r \in Login!InFlight /\ \A q \in Requests \ {r} : stage'[q] = stage[q]
  BY <1>3 DEF Login!Count, Login!CheckLockout, Login!Verify, Login!ClearFailures,
       Login!RecordFailure, Login!SetExpiry, Login!Lock, Login!Forget, Login!Break,
       Login!Goto, Login!TypeOK, Login!InFlight, Login!Steps
<1>4. ASSUME NEW r \in Requests, r \in Login!InFlight,
             \A q \in Requests \ {r} : stage'[q] = stage[q]
      PROVE  Busy'
  BY <1>2, <1>4 DEF Login!InFlight
<1>5. CASE Login!LockoutEnds \/ Login!FailuresExpire \/ Login!NextWindow \/ UNCHANGED Login!vars
  <2>1. UNCHANGED stage
    BY <1>5 DEF Login!LockoutEnds, Login!FailuresExpire, Login!NextWindow, Login!vars
  <2> QED
    BY <1>2, <2>1 DEF Login!InFlight
<1> QED
  BY <1>1, <1>3, <1>4, <1>5 DEF Login!Next, Login!Handle

\* A step that sends nobody to count and counts nothing.
LEMMA NobodyCountsLogins ==
    ASSUME Login!LoginAssumption, Login!TypeOK, Busy, RoomInWindows, UNCHANGED counts,
           \A route, w : CountingLogin(route, w)' \subseteq CountingLogin(route, w)
    PROVE  RoomInWindows'
<1>1. ASSUME NEW route \in Login!Routes, NEW w \in Login!Windows
      PROVE  counts'[route][w] + Cardinality(CountingLogin(route, w)')
               < Limit[route] + MaxInFlight
  <2>1. CountingLogin(route, w) \subseteq Login!InFlight
    BY DEF CountingLogin, Login!InFlight, Login!Steps
  <2>2. IsFiniteSet(CountingLogin(route, w))
    BY <2>1, FewerElements DEF Busy
  <2>3. /\ Cardinality(CountingLogin(route, w)') \in Nat
        /\ Cardinality(CountingLogin(route, w)) \in Nat
        /\ Cardinality(CountingLogin(route, w)') <= Cardinality(CountingLogin(route, w))
    BY <2>2, FewerElements
  <2>4. counts[route][w] \in Nat
    BY DEF Login!TypeOK
  <2>5. counts[route][w] + Cardinality(CountingLogin(route, w)) < Limit[route] + MaxInFlight
    BY DEF RoomInWindows
  <2> QED
    BY <2>3, <2>4, <2>5, LoginConstants
<1> QED
  BY <1>1 DEF RoomInWindows

LEMMA LoginRoom ==
    ASSUME Login!LoginAssumption, Login!TypeOK, Busy, RoomInWindows,
           [Login!Next]_(Login!vars)
    PROVE  RoomInWindows'
<1>0. ASSUME NEW route, NEW w
      PROVE  /\ IsFiniteSet(CountingLogin(route, w))
             /\ Cardinality(CountingLogin(route, w)) \in Nat
             /\ Cardinality(Login!InFlight) \in Nat
             /\ Cardinality(CountingLogin(route, w)) <= Cardinality(Login!InFlight)
  <2>1. CountingLogin(route, w) \subseteq Login!InFlight
    BY DEF CountingLogin, Login!InFlight, Login!Steps
  <2> QED
    BY <2>1, FewerElements DEF Busy
<1>1. ASSUME NEW r \in Requests, Login!ReadCount(r) PROVE RoomInWindows'
  <2>1. /\ UNCHANGED counts /\ window \in Login!Windows /\ Route[r] \in Login!Routes
        /\ stage[r] = "idle"
        /\ \A q \in Requests \ {r} : stage'[q] = stage[q] /\ asked'[q] = asked[q]
        /\ stage'[r] = "counting" => ~Login!AtLimit(r) /\ asked'[r] = window
    BY <1>1, LoginConstants DEF Login!TypeOK, Login!ReadCount, Login!Goto, Login!redis
  <2>2. CASE stage'[r] # "counting"
    <3>1. \A route, w : CountingLogin(route, w)' \subseteq CountingLogin(route, w)
      BY <2>1, <2>2 DEF CountingLogin
    <3> QED
      BY <2>1, <3>1, NobodyCountsLogins
  <2>3. CASE stage'[r] = "counting"
    <3>1. Cardinality(Login!InFlight) < MaxInFlight
      BY <1>1, LoginCardinality DEF Login!ReadCount
    <3>2. ASSUME NEW route \in Login!Routes, NEW w \in Login!Windows
          PROVE  counts'[route][w] + Cardinality(CountingLogin(route, w)')
                   < Limit[route] + MaxInFlight
      <4>1. /\ CountingLogin(route, w)' \subseteq CountingLogin(route, w) \cup {r}
            /\ route # Route[r] \/ w # window =>
                 CountingLogin(route, w)' \subseteq CountingLogin(route, w)
        BY <2>1, <2>3 DEF CountingLogin
      <4>2. /\ Cardinality(CountingLogin(route, w)') \in Nat
            /\ Cardinality(CountingLogin(route, w)') <= Cardinality(CountingLogin(route, w)) + 1
        BY <1>0, <4>1, OneElementMore
      <4>3. counts'[route][w] = counts[route][w] /\ counts[route][w] \in Nat
        BY <2>1 DEF Login!TypeOK
      <4>4. CASE route = Route[r] /\ w = window
        <5>1. counts[route][w] < Limit[route]
          BY <2>1, <2>3, <4>3, <4>4, LoginConstants DEF Login!AtLimit
        <5>2. Cardinality(CountingLogin(route, w)') <= MaxInFlight
          BY <1>0, <3>1, <4>2, LoginConstants
        <5> QED
          BY <4>2, <4>3, <5>1, <5>2, LoginConstants
      <4>5. CASE ~(route = Route[r] /\ w = window)
        <5>1. Cardinality(CountingLogin(route, w)') <= Cardinality(CountingLogin(route, w))
          BY <1>0, <4>1, <4>5, FewerElements
        <5>2. counts[route][w] + Cardinality(CountingLogin(route, w))
                < Limit[route] + MaxInFlight
          BY DEF RoomInWindows
        <5> QED
          BY <1>0, <4>2, <4>3, <5>1, <5>2, LoginConstants
      <4> QED
        BY <4>4, <4>5
    <3> QED
      BY <3>2 DEF RoomInWindows
  <2> QED
    BY <2>2, <2>3
<1>2. ASSUME NEW r \in Requests, Login!Count(r) PROVE RoomInWindows'
  <2>1. /\ Route[r] \in Login!Routes /\ asked[r] \in Login!Windows
        /\ counts \in [Login!Routes -> [Login!Windows -> Nat]]
        /\ counts' = [counts EXCEPT ![Route[r]][asked[r]] = @ + 1]
        /\ UNCHANGED asked /\ stage[r] = "counting" /\ stage'[r] # "counting"
        /\ \A q \in Requests \ {r} : stage'[q] = stage[q]
    BY <1>2, LoginConstants DEF Login!Count, Login!TypeOK, Login!Goto
  <2>2. ASSUME NEW route \in Login!Routes, NEW w \in Login!Windows
        PROVE  counts'[route][w] + Cardinality(CountingLogin(route, w)')
                 < Limit[route] + MaxInFlight
    <3>1. CountingLogin(route, w)' \subseteq CountingLogin(route, w) \ {r}
      BY <2>1 DEF CountingLogin
    <3>2. /\ Cardinality(CountingLogin(route, w)') \in Nat
          /\ Cardinality(CountingLogin(route, w)') <= Cardinality(CountingLogin(route, w))
      BY <1>0, <3>1, FewerElements
    <3>3. counts[route][w] + Cardinality(CountingLogin(route, w)) < Limit[route] + MaxInFlight
      BY DEF RoomInWindows
    <3>4. CASE route = Route[r] /\ w = asked[r]
      <4>1. r \in CountingLogin(route, w)
        BY <2>1, <3>4 DEF CountingLogin
      <4>2. Cardinality(CountingLogin(route, w)') + 1 <= Cardinality(CountingLogin(route, w))
        BY <1>0, <3>1, <4>1, OneElementLess
      <4>3. counts'[route][w] = counts[route][w] + 1 /\ counts[route][w] \in Nat
        BY <2>1, <3>4
      <4> QED
        BY <1>0, <3>2, <3>3, <4>2, <4>3, LoginConstants
    <3>5. CASE ~(route = Route[r] /\ w = asked[r])
      <4>1. counts'[route][w] = counts[route][w] /\ counts[route][w] \in Nat
        BY <2>1, <3>5
      <4> QED
        BY <1>0, <3>2, <3>3, <4>1, LoginConstants
    <3> QED
      BY <3>4, <3>5
  <2> QED
    BY <2>2 DEF RoomInWindows
<1>3. ASSUME NEW r \in Requests,
             \/ Login!CheckLockout(r) \/ Login!Verify(r)
             \/ Login!ClearFailures(r) \/ Login!RecordFailure(r) \/ Login!SetExpiry(r)
             \/ Login!Lock(r) \/ Login!Forget(r) \/ Login!Break(r)
      PROVE  RoomInWindows'
  <2>1. /\ UNCHANGED <<counts, asked>> /\ stage'[r] # "counting"
        /\ \A q \in Requests \ {r} : stage'[q] = stage[q]
    BY <1>3 DEF Login!CheckLockout, Login!Verify, Login!ClearFailures,
         Login!RecordFailure, Login!SetExpiry, Login!Lock, Login!Forget, Login!Break,
         Login!Goto, Login!TypeOK, Login!redis, Login!history
  <2>2. \A route, w : CountingLogin(route, w)' \subseteq CountingLogin(route, w)
    BY <2>1 DEF CountingLogin
  <2> QED
    BY <2>1, <2>2, NobodyCountsLogins
<1>4. CASE Login!LockoutEnds \/ Login!FailuresExpire \/ Login!NextWindow \/ UNCHANGED Login!vars
  <2>1. UNCHANGED <<stage, asked, counts>>
    BY <1>4 DEF Login!LockoutEnds, Login!FailuresExpire, Login!NextWindow, Login!vars, Login!redis
  <2>2. \A route, w : CountingLogin(route, w)' \subseteq CountingLogin(route, w)
    BY <2>1 DEF CountingLogin
  <2> QED
    BY <2>1, <2>2, NobodyCountsLogins
<1> QED
  BY <1>1, <1>2, <1>3, <1>4 DEF Login!Next, Login!Handle

\* A step that neither guesses nor settles a guess.
LEMMA NothingGuessed ==
    ASSUME Login!LoginAssumption, GuessInv, Login!TypeOK', Busy',
           UNCHANGED <<guesses, locked>>, lost' = lost,
           locked \/ (attempts' = attempts /\ Unsettled \subseteq Unsettled'),
           locked => Verifying' \subseteq Verifying
    PROVE  GuessesCounted'
<1>0. /\ guesses \in Nat /\ lost \in Nat /\ attempts \in Nat
      /\ GuessesCounted /\ Busy
  BY DEF GuessInv, Login!TypeOK
<1>1. CASE locked
  <2>1. Cardinality(Verifying') <= Cardinality(Verifying)
    BY <1>0, <1>1, LoginSizes, FewerElements
  <2>2. guesses + Cardinality(Verifying) < MaxFailed + MaxInFlight + lost
    BY <1>0, <1>1 DEF GuessesCounted
  <2>3. guesses' + Cardinality(Verifying') < MaxFailed + MaxInFlight + lost'
    BY <1>0, <2>1, <2>2, LoginSizes, LoginSizesNext, LoginConstants
  <2> QED
    BY <1>1, <2>3 DEF GuessesCounted
<1>2. CASE ~locked
  <2>1. Cardinality(Unsettled) <= Cardinality(Unsettled')
    BY <1>2, LoginSizesNext, FewerElements
  <2>2. /\ guesses <= attempts + Cardinality(Unsettled) + lost
        /\ guesses < MaxFailed + Cardinality(Unsettled) + lost
    BY <1>0, <1>2 DEF GuessesCounted
  <2>3. /\ guesses' <= attempts' + Cardinality(Unsettled') + lost'
        /\ guesses' < MaxFailed + Cardinality(Unsettled') + lost'
    BY <1>0, <1>2, <2>1, <2>2, LoginSizes, LoginSizesNext, LoginConstants
  <2> QED
    BY <1>2, <2>3 DEF GuessesCounted
<1> QED
  BY <1>1, <1>2

\* Whatever forgives the failures starts from nothing.
LEMMA Pardoned ==
    ASSUME Login!LoginAssumption, Login!TypeOK', Busy', guesses' = 0, lost' = 0
    PROVE  GuessesCounted'
<1>1. attempts' \in Nat
  BY DEF Login!TypeOK
<1>2. /\ Cardinality(Unsettled') \in Nat /\ Cardinality(Verifying') \in Nat
      /\ Cardinality(Verifying') <= MaxInFlight
  BY LoginSizesNext, LoginConstants DEF Busy
<1>3. /\ guesses' <= attempts' + Cardinality(Unsettled') + lost'
      /\ guesses' < MaxFailed + Cardinality(Unsettled') + lost'
      /\ guesses' + Cardinality(Verifying') < MaxFailed + MaxInFlight + lost'
  BY <1>1, <1>2, LoginConstants
<1> QED
  BY <1>3 DEF GuessesCounted

LEMMA VerifyGuesses ==
    ASSUME Login!LoginAssumption, GuessInv, Login!TypeOK', Busy',
           NEW r \in Requests, Login!Verify(r)
    PROVE  GuessesCounted'
<1>0. /\ guesses \in Nat /\ lost \in Nat /\ attempts \in Nat
      /\ GuessesCounted /\ Busy
      /\ UNCHANGED <<attempts, locked, tries, lost>>
      /\ stage[r] = "verifying" /\ stage'[r] \in {"clearing", "failing"}
      /\ stage'[r] = "clearing" => UNCHANGED guesses
      /\ stage'[r] = "failing" => guesses' = guesses + 1
      /\ \A q \in Requests \ {r} : stage'[q] = stage[q]
  BY DEF GuessInv, Login!TypeOK, Login!Verify, Login!Goto, Login!redis
<1>1. Verifying' \subseteq Verifying \ {r} /\ r \in Verifying
  BY <1>0 DEF Verifying
<1>2. CASE stage'[r] = "clearing"
  <2>1. Unsettled \subseteq Unsettled'
    BY <1>0, <1>2 DEF Unsettled
  <2> QED
    BY <1>0, <1>1, <1>2, <2>1, NothingGuessed
<1>3. CASE stage'[r] = "failing"
  <2>1. CASE locked
    <3>1. Cardinality(Verifying') + 1 <= Cardinality(Verifying)
      BY <1>0, <1>1, LoginSizes, OneElementLess
    <3>2. guesses + Cardinality(Verifying) < MaxFailed + MaxInFlight + lost
      BY <1>0, <2>1 DEF GuessesCounted
    <3>3. guesses' + Cardinality(Verifying') < MaxFailed + MaxInFlight + lost'
      BY <1>0, <1>3, <3>1, <3>2, LoginSizes, LoginSizesNext, LoginConstants
    <3> QED
      BY <1>0, <2>1, <3>3 DEF GuessesCounted
  <2>2. CASE ~locked
    <3>1. Unsettled \subseteq Unsettled' \ {r} /\ r \in Unsettled'
      BY <1>0, <1>3 DEF Unsettled
    <3>2. Cardinality(Unsettled) + 1 <= Cardinality(Unsettled')
      BY <3>1, LoginSizesNext, OneElementLess
    <3>3. /\ guesses <= attempts + Cardinality(Unsettled) + lost
          /\ guesses < MaxFailed + Cardinality(Unsettled) + lost
      BY <1>0, <2>2 DEF GuessesCounted
    <3>4. /\ guesses' <= attempts' + Cardinality(Unsettled') + lost'
          /\ guesses' < MaxFailed + Cardinality(Unsettled') + lost'
      BY <1>0, <1>3, <3>2, <3>3, LoginSizes, LoginSizesNext, LoginConstants
    <3> QED
      BY <1>0, <2>2, <3>4 DEF GuessesCounted
  <2> QED
    BY <2>1, <2>2
<1> QED
  BY <1>0, <1>2, <1>3

\* A failure is counted; if that makes it too many, the request will lock.
LEMMA RecordFailureGuesses ==
    ASSUME Login!LoginAssumption, GuessInv, Login!TypeOK', Busy',
           NEW r \in Requests, Login!RecordFailure(r)
    PROVE  GuessesCounted'
<1>0. /\ guesses \in Nat /\ lost \in Nat /\ attempts \in Nat
      /\ GuessesCounted /\ Busy
      /\ UNCHANGED <<locked, guesses, lost>> /\ attempts' = attempts + 1
      /\ stage[r] = "failing" /\ stage'[r] = "expiring" /\ tries'[r] = attempts + 1
      /\ \A q \in Requests \ {r} : stage'[q] = stage[q] /\ tries'[q] = tries[q]
  BY DEF GuessInv, Login!TypeOK, Login!RecordFailure, Login!Goto, Login!history
<1>1. CASE locked
  <2>1. Verifying' \subseteq Verifying
    BY <1>0 DEF Verifying
  <2> QED
    BY <1>0, <1>1, <2>1, NothingGuessed
<1>2. CASE ~locked
  <2>1. /\ guesses <= attempts + Cardinality(Unsettled) + lost
        /\ guesses < MaxFailed + Cardinality(Unsettled) + lost
    BY <1>0, <1>2 DEF GuessesCounted
  <2>2. CASE attempts + 1 >= MaxFailed
    <3>1. Unsettled \subseteq Unsettled'
      BY <1>0, <2>2 DEF Unsettled
    <3>2. Cardinality(Unsettled) <= Cardinality(Unsettled')
      BY <3>1, LoginSizesNext, FewerElements
    <3>3. /\ guesses' <= attempts' + Cardinality(Unsettled') + lost'
          /\ guesses' < MaxFailed + Cardinality(Unsettled') + lost'
      BY <1>0, <2>1, <3>2, LoginSizes, LoginSizesNext, LoginConstants
    <3> QED
      BY <1>0, <1>2, <3>3 DEF GuessesCounted
  <2>3. CASE ~(attempts + 1 >= MaxFailed)
    <3>1. Unsettled \subseteq Unsettled' \cup {r}
      BY <1>0 DEF Unsettled
    <3>2. Cardinality(Unsettled) <= Cardinality(Unsettled') + 1
      BY <3>1, LoginSizesNext, OneElementMore
    <3>3. /\ guesses' <= attempts' + Cardinality(Unsettled') + lost'
          /\ guesses' < MaxFailed + Cardinality(Unsettled') + lost'
      BY <1>0, <2>1, <2>3, <3>2, LoginSizes, LoginSizesNext, LoginConstants
    <3> QED
      BY <1>0, <1>2, <3>3 DEF GuessesCounted
  <2> QED
    BY <2>2, <2>3
<1> QED
  BY <1>1, <1>2

\* At the lock, who still has a guess to make or to count is in flight.
LEMMA LockGuesses ==
    ASSUME Login!LoginAssumption, GuessInv, Login!TypeOK', Busy',
           NEW r \in Requests, Login!Lock(r)
    PROVE  GuessesCounted'
<1>0. /\ guesses \in Nat /\ lost \in Nat /\ attempts \in Nat
      /\ GuessesCounted /\ Busy
      /\ UNCHANGED <<guesses, lost, tries>> /\ locked'
      /\ stage[r] = "locking" /\ stage'[r] = "forgetting"
      /\ \A q \in Requests \ {r} : stage'[q] = stage[q]
  BY DEF GuessInv, Login!TypeOK, Login!Lock, Login!Goto, Login!history
<1>1. Verifying' \subseteq Verifying
  BY <1>0 DEF Verifying
<1>2. Cardinality(Verifying') <= Cardinality(Verifying)
  BY <1>0, <1>1, LoginSizes, FewerElements
<1>3. guesses + Cardinality(Verifying) < MaxFailed + MaxInFlight + lost
  <2>1. CASE locked
    BY <1>0, <2>1 DEF GuessesCounted
  <2>2. CASE ~locked
    <3>1. guesses < MaxFailed + Cardinality(Unsettled) + lost
      BY <1>0, <2>2 DEF GuessesCounted
    <3>2. Cardinality(Unsettled) + Cardinality(Verifying) <= MaxInFlight
      BY <1>0, LoginSizes, LoginConstants DEF Busy
    <3> QED
      BY <1>0, <3>1, <3>2, LoginSizes, LoginConstants
  <2> QED
    BY <2>1, <2>2
<1>4. guesses' + Cardinality(Verifying') < MaxFailed + MaxInFlight + lost'
  BY <1>0, <1>2, <1>3, LoginSizes, LoginSizesNext, LoginConstants
<1> QED
  BY <1>0, <1>4 DEF GuessesCounted

LEMMA BreakGuesses ==
    ASSUME Login!LoginAssumption, GuessInv, Login!TypeOK', Busy',
           NEW r \in Requests, Login!Break(r)
    PROVE  GuessesCounted'
<1>0. /\ guesses \in Nat /\ lost \in Nat /\ attempts \in Nat
      /\ GuessesCounted /\ Busy
      /\ UNCHANGED <<guesses, attempts, locked, tries>>
      /\ lost' = IF stage[r] \in {"failing", "expiring", "locking"} THEN lost + 1 ELSE lost
      /\ stage'[r] = "broken"
      /\ \A q \in Requests \ {r} : stage'[q] = stage[q]
  BY DEF GuessInv, Login!TypeOK, Login!Break, Login!Goto, Login!redis
<1>1. Verifying' \subseteq Verifying
  BY <1>0 DEF Verifying
<1>2. CASE lost' = lost
  <2>1. stage[r] \notin {"failing", "expiring", "locking"}
    BY <1>0, <1>2
  <2>2. Unsettled \subseteq Unsettled'
    BY <1>0, <2>1 DEF Unsettled
  <2> QED
    BY <1>0, <1>1, <1>2, <2>2, NothingGuessed
<1>3. CASE lost' = lost + 1
  <2>1. CASE locked
    <3>1. Cardinality(Verifying') <= Cardinality(Verifying)
      BY <1>0, <1>1, LoginSizes, FewerElements
    <3>2. guesses + Cardinality(Verifying) < MaxFailed + MaxInFlight + lost
      BY <1>0, <2>1 DEF GuessesCounted
    <3>3. guesses' + Cardinality(Verifying') < MaxFailed + MaxInFlight + lost'
      BY <1>0, <1>3, <3>1, <3>2, LoginSizes, LoginSizesNext, LoginConstants
    <3> QED
      BY <1>0, <2>1, <3>3 DEF GuessesCounted
  <2>2. CASE ~locked
    <3>1. Unsettled \subseteq Unsettled' \cup {r}
      BY <1>0 DEF Unsettled
    <3>2. Cardinality(Unsettled) <= Cardinality(Unsettled') + 1
      BY <3>1, LoginSizesNext, OneElementMore
    <3>3. /\ guesses <= attempts + Cardinality(Unsettled) + lost
          /\ guesses < MaxFailed + Cardinality(Unsettled) + lost
      BY <1>0, <2>2 DEF GuessesCounted
    <3>4. /\ guesses' <= attempts' + Cardinality(Unsettled') + lost'
          /\ guesses' < MaxFailed + Cardinality(Unsettled') + lost'
      BY <1>0, <1>3, <3>2, <3>3, LoginSizes, LoginSizesNext, LoginConstants
    <3> QED
      BY <1>0, <2>2, <3>4 DEF GuessesCounted
  <2> QED
    BY <2>1, <2>2
<1> QED
  BY <1>0, <1>2, <1>3

LEMMA LoginGuesses ==
    ASSUME Login!LoginAssumption, GuessInv, Login!TypeOK', Busy', [Login!Next]_(Login!vars)
    PROVE  GuessesCounted'
<1>0. Login!TypeOK /\ ForgottenBehindLock
  BY DEF GuessInv
<1>1. ASSUME NEW r \in Requests, Login!ReadCount(r) \/ Login!Count(r) \/ Login!SetExpiry(r)
      PROVE  GuessesCounted'
  <2>1. /\ UNCHANGED <<guesses, locked, attempts, tries>> /\ lost' = lost
        /\ stage'[r] # "verifying"
        /\ r \in Unsettled => stage'[r] = "locking" /\ tries[r] >= MaxFailed
        /\ \A q \in Requests \ {r} : stage'[q] = stage[q]
    BY <1>0, <1>1 DEF Login!TypeOK, Login!ReadCount, Login!Count, Login!SetExpiry,
         Login!TooMany, Login!Goto, Login!redis, Login!history, Unsettled
  <2>2. Unsettled \subseteq Unsettled' /\ Verifying' \subseteq Verifying
    BY <2>1 DEF Unsettled, Verifying
  <2> QED
    BY <2>1, <2>2, NothingGuessed
<1>2. ASSUME NEW r \in Requests, Login!CheckLockout(r) PROVE GuessesCounted'
  <2>1. /\ UNCHANGED <<guesses, locked, attempts, tries>> /\ lost' = lost
        /\ stage[r] = "checking"
        /\ locked => stage'[r] # "verifying"
        /\ \A q \in Requests \ {r} : stage'[q] = stage[q]
    BY <1>0, <1>2 DEF Login!TypeOK, Login!CheckLockout, Login!Goto, Login!redis, Login!history
  <2>2. Unsettled \subseteq Unsettled' /\ (locked => Verifying' \subseteq Verifying)
    BY <2>1 DEF Unsettled, Verifying
  <2> QED
    BY <2>1, <2>2, NothingGuessed
<1>3. ASSUME NEW r \in Requests, Login!ClearFailures(r) PROVE GuessesCounted'
  BY <1>3, Pardoned DEF Login!ClearFailures, Login!Forgive
<1>4. ASSUME NEW r \in Requests, Login!Forget(r) PROVE GuessesCounted'
  <2>1. /\ UNCHANGED <<guesses, locked>> /\ lost' = lost /\ locked
        /\ stage'[r] # "verifying"
        /\ \A q \in Requests \ {r} : stage'[q] = stage[q]
    BY <1>0, <1>4 DEF ForgottenBehindLock, Login!TypeOK, Login!Forget, Login!Goto, Login!history
  <2>2. Verifying' \subseteq Verifying
    BY <2>1 DEF Verifying
  <2> QED
    BY <2>1, <2>2, NothingGuessed
<1>5. CASE Login!LockoutEnds \/ Login!FailuresExpire
  BY <1>5, Pardoned DEF Login!LockoutEnds, Login!FailuresExpire, Login!Forgive
<1>6. CASE Login!NextWindow \/ UNCHANGED Login!vars
  <2>1. UNCHANGED <<guesses, locked, attempts, tries, stage>> /\ lost' = lost
    BY <1>6 DEF Login!NextWindow, Login!vars, Login!redis, Login!history
  <2>2. Unsettled \subseteq Unsettled' /\ Verifying' \subseteq Verifying
    BY <2>1 DEF Unsettled, Verifying
  <2> QED
    BY <2>1, <2>2, NothingGuessed
<1> QED
  BY <1>1, <1>2, <1>3, <1>4, <1>5, <1>6, VerifyGuesses, RecordFailureGuesses, LockGuesses,
     BreakGuesses DEF Login!Next, Login!Handle

LEMMA LoginForgets ==
    ASSUME Login!TypeOK, ForgottenBehindLock, [Login!Next]_(Login!vars)
    PROVE  ForgottenBehindLock'
<1>1. ASSUME NEW r \in Requests, Login!Handle(r) \/ Login!Break(r)
      PROVE  ForgottenBehindLock'
  <2>1. /\ locked => locked'
        /\ stage'[r] = "forgetting" => locked'
        /\ \A q \in Requests \ {r} : stage'[q] = stage[q]
    BY <1>1 DEF Login!Handle, Login!ReadCount, Login!Count, Login!CheckLockout, Login!Verify,
         Login!ClearFailures, Login!RecordFailure, Login!SetExpiry, Login!Lock, Login!Forget,
         Login!Break, Login!Goto, Login!redis, Login!TypeOK
  <2> QED
    BY <2>1 DEF ForgottenBehindLock
<1>2. CASE Login!LockoutEnds
  <2>1. UNCHANGED stage /\ \A r \in Requests : stage[r] # "forgetting"
    BY <1>2 DEF Login!LockoutEnds, Login!InFlight, Login!Steps
  <2> QED
    BY <2>1 DEF ForgottenBehindLock
<1>3. CASE Login!FailuresExpire \/ Login!NextWindow \/ UNCHANGED Login!vars
  BY <1>3 DEF Login!FailuresExpire, Login!NextWindow, Login!vars, Login!redis,
       ForgottenBehindLock
<1> QED
  BY <1>1, <1>2, <1>3 DEF Login!Next

LEMMA LoginTimeToLive ==
    ASSUME Login!TypeOK, Login!FailuresAreForgotten, [Login!Next]_(Login!vars)
    PROVE  Login!FailuresAreForgotten'
<1> DEFINE Left(q) == stage[q] \in {"expiring", "broken"}
<1>1. ASSUME UNCHANGED <<attempts, expires>>,
             \A q \in Requests : Left(q) => Left(q)' /\ tries'[q] = tries[q]
      PROVE  Login!FailuresAreForgotten'
  BY <1>1 DEF Login!FailuresAreForgotten
<1>2. ASSUME NEW r \in Requests,
             \/ Login!ReadCount(r) \/ Login!Count(r) \/ Login!CheckLockout(r)
             \/ Login!Verify(r) \/ Login!Lock(r) \/ Login!Break(r)
      PROVE  Login!FailuresAreForgotten'
  <2>1. /\ UNCHANGED <<attempts, expires, tries>>
        /\ stage[r] \in {"expiring", "broken"} => stage'[r] \in {"expiring", "broken"}
        /\ \A q \in Requests \ {r} : stage'[q] = stage[q]
    BY <1>2 DEF Login!ReadCount, Login!Count, Login!CheckLockout, Login!Verify, Login!Lock,
         Login!Break, Login!Goto, Login!redis, Login!history, Login!TypeOK
  <2> QED
    BY <1>1, <2>1
<1>3. ASSUME NEW r \in Requests, Login!RecordFailure(r) PROVE Login!FailuresAreForgotten'
  <2>1. /\ tries'[r] = attempts + 1 /\ attempts' = attempts + 1 /\ attempts \in Nat
        /\ stage[r] = "failing" /\ stage'[r] = "expiring" /\ UNCHANGED expires
        /\ \A q \in Requests \ {r} : stage'[q] = stage[q] /\ tries'[q] = tries[q]
    BY <1>3 DEF Login!RecordFailure, Login!Goto, Login!TypeOK
  <2> SUFFICES ASSUME ~expires, NEW k \in 1 .. attempts'
               PROVE  \E q \in Requests : tries'[q] = k /\ Left(q)'
    BY <2>1 DEF Login!FailuresAreForgotten
  <2>2. CASE k = attempts + 1
    BY <2>1, <2>2
  <2>3. CASE k # attempts + 1
    <3>1. k \in 1 .. attempts /\ attempts > 0
      BY <2>1, <2>3
    <3>2. PICK q \in Requests : tries[q] = k /\ Left(q)
      BY <3>1 DEF Login!FailuresAreForgotten
    <3> QED
      BY <2>1, <3>2
  <2> QED
    BY <2>2, <2>3
<1>4. ASSUME NEW r \in Requests, Login!SetExpiry(r) PROVE Login!FailuresAreForgotten'
  BY <1>4 DEF Login!SetExpiry, Login!FailuresAreForgotten
<1>5. ASSUME attempts' = 0 PROVE Login!FailuresAreForgotten'
  BY <1>5 DEF Login!FailuresAreForgotten
<1>6. ASSUME NEW r \in Requests, Login!ClearFailures(r) \/ Login!Forget(r)
      PROVE  Login!FailuresAreForgotten'
  BY <1>5, <1>6 DEF Login!ClearFailures, Login!Forget
<1>7. CASE Login!FailuresExpire
  BY <1>5, <1>7 DEF Login!FailuresExpire
<1>8. CASE Login!LockoutEnds \/ Login!NextWindow \/ UNCHANGED Login!vars
  <2>1. UNCHANGED <<attempts, expires, tries, stage>>
    BY <1>8 DEF Login!LockoutEnds, Login!NextWindow, Login!vars, Login!redis
  <2> QED
    BY <1>1, <2>1
<1> QED
  BY <1>2, <1>3, <1>4, <1>6, <1>7, <1>8 DEF Login!Next, Login!Handle

LEMMA LoginNext ==
    ASSUME Login!LoginAssumption, GuessInv, [Login!Next]_(Login!vars)
    PROVE  GuessInv'
<1>1. Login!TypeOK /\ Busy /\ ForgottenBehindLock
  BY DEF GuessInv
<1>2. Login!TypeOK' /\ Busy'
  BY <1>1, LoginTypes, LoginFlight
<1> QED
  BY <1>1, <1>2, LoginGuesses, LoginForgets DEF GuessInv

(* Every reachable state of the login gate is well typed.                   *)
THEOREM LoginTypeCorrect == Login!LoginAssumption => (Login!Spec => []Login!TypeOK)
<1>1. SUFFICES ASSUME Login!LoginAssumption PROVE Login!Spec => []Login!TypeOK
  OBVIOUS
<1>2. Login!Init => Login!TypeOK
  BY <1>1, LoginInit DEF GuessInv
<1>3. Login!TypeOK /\ [Login!Next]_(Login!vars) => Login!TypeOK'
  BY <1>1, LoginTypes
<1> QED
  BY <1>2, <1>3, PTL DEF Login!Spec

(* Between two pardons nobody guesses a password more often than            *)
(* MAX_FAILED_ATTEMPTS, but for the requests under way at that moment and   *)
(* those that broke off before they counted; and a minute or an hour is     *)
(* exceeded by at most the requests between a GET and an INCR               *)
(* (auth_rate_limiter.py:61-98, 131-146).                                   *)
THEOREM GuessesAreLimited == Login!LoginAssumption => (Login!Spec => []Login!LimitsHeld)
<1> DEFINE Inv == GuessInv /\ RoomInWindows
<1>1. SUFFICES ASSUME Login!LoginAssumption PROVE Login!Spec => []Login!LimitsHeld
  OBVIOUS
<1>2. Login!Init => Inv
  BY <1>1, LoginInit
<1>3. Inv /\ [Login!Next]_(Login!vars) => Inv'
  BY <1>1, LoginNext, LoginRoom DEF GuessInv
<1>4. Inv => Login!LimitsHeld
  <2> SUFFICES ASSUME Inv PROVE Login!LimitsHeld
    OBVIOUS
  <2>1. Login!TypeOK /\ Busy /\ GuessesCounted
    BY DEF GuessInv
  <2>2. guesses \in Nat /\ lost \in Nat
    BY <2>1 DEF Login!TypeOK
  <2>3. guesses < MaxFailed + MaxInFlight + lost
    <3>1. CASE locked
      <4>1. guesses + Cardinality(Verifying) < MaxFailed + MaxInFlight + lost
        BY <2>1, <3>1 DEF GuessesCounted
      <4> QED
        BY <1>1, <2>1, <2>2, <4>1, LoginSizes, LoginConstants
    <3>2. CASE ~locked
      <4>1. guesses < MaxFailed + Cardinality(Unsettled) + lost
        BY <2>1, <3>2 DEF GuessesCounted
      <4>2. Cardinality(Unsettled) <= MaxInFlight
        BY <1>1, <2>1, LoginSizes, LoginConstants DEF Busy
      <4> QED
        BY <1>1, <2>1, <2>2, <4>1, <4>2, LoginSizes, LoginConstants
    <3> QED
      BY <3>1, <3>2
  <2>4. ASSUME NEW route \in Login!Routes, NEW w \in Login!Windows
        PROVE  counts[route][w] < Limit[route] + MaxInFlight
    <3>1. CountingLogin(route, w) \subseteq Login!InFlight
      BY DEF CountingLogin, Login!InFlight, Login!Steps
    <3>2. Cardinality(CountingLogin(route, w)) \in Nat
      BY <2>1, <3>1, FewerElements DEF Busy
    <3>3. counts[route][w] \in Nat
      BY <2>1 DEF Login!TypeOK
    <3>4. counts[route][w] + Cardinality(CountingLogin(route, w)) < Limit[route] + MaxInFlight
      BY DEF RoomInWindows
    <3> QED
      BY <1>1, <3>2, <3>3, <3>4, LoginConstants
  <2> QED
    BY <2>3, <2>4 DEF Login!LimitsHeld
<1> QED
  BY <1>2, <1>3, <1>4, PTL DEF Login!Spec

(* In a counter of failures without a time to live every failure is that of *)
(* a request which is about to set it or broke off before that              *)
(* (auth_rate_limiter.py:137-138), whenever the key or a lockout expires.   *)
THEOREM FailuresHaveAnEnd ==
    Login!LoginAssumption => (Login!Spec => []Login!FailuresAreForgotten)
<1> DEFINE Inv == Login!TypeOK /\ Login!FailuresAreForgotten
<1>1. SUFFICES ASSUME Login!LoginAssumption
               PROVE  Login!Spec => []Login!FailuresAreForgotten
  OBVIOUS
<1>2. Login!Init => Inv
  BY <1>1, LoginInit DEF GuessInv
<1>3. Inv /\ [Login!Next]_(Login!vars) => Inv'
  BY <1>1, LoginTypes, LoginTimeToLive
<1> QED
  BY <1>2, <1>3, PTL DEF Login!Spec

-----------------------------------------------------------------------------
(* EmailVerification, with variables of its own, for every number of        *)
(* resends and clicks.                                                      *)

CONSTANTS Resends, Clicks, First
VARIABLES clock, token, expired, verified, born, mailbox, turn, rows, link, last

Email == INSTANCE EmailVerification WITH now <- clock, pc <- turn

\* The resends that have taken their snapshot of the live links.
Superseding == {r \in Resends : turn[r] \in {"updating", "mailing", "storing"}}

\* The live links that would be left if just the resends of Q commit, and theirs.
CrowdOf(Q) == Q \cup (Email!Live \ UNION {rows[r] : r \in Q})

(* Whichever of the resends under way commit, the links that are live then  *)
(* are no more than the requests handled at once: the links a resend did    *)
(* not see were stored by requests that were under way beside it, and when  *)
(* it takes its snapshot there are none.                                    *)
Crowd == \A Q \in SUBSET Superseding : Cardinality(CrowdOf(Q)) <= MaxInFlight

OwnTokenAbsent == \A r \in Resends : turn[r] # "sent" => token[r] = "absent"

\* A click goes on only with a link that is on record.
LinkStored ==
    \A c \in Clicks :
        turn[c] \in {"using", "marking", "confirming"} => link[c] \in Email!Stored

FlightBounded ==
    /\ IsFiniteSet(Email!InFlight) /\ IsFiniteSet(Email!Live)
    /\ Cardinality(Email!InFlight) <= MaxInFlight

MailTypes == Email!TypeOK /\ OwnTokenAbsent /\ LinkStored

LEMMA MailConstants ==
    ASSUME Email!EmailAssumption
    PROVE  /\ MaxInFlight \in Nat /\ MaxInFlight > 0
           /\ LastTick \in Nat /\ LastTick > 0
           /\ First \notin Resends /\ Resends \cap Clicks = {}
BY DEF Email!EmailAssumption

LEMMA MailCardinality == \A S : Email!Cardinality(S) = Cardinality(S)
BY DEF Email!Cardinality, Cardinality

LEMMA MailInit ==
    ASSUME Email!EmailAssumption, Email!Init
    PROVE  MailTypes /\ FlightBounded /\ Crowd /\ Email!NewestLinkWorks
<1>1. /\ Email!Live = {First} /\ Email!Stored = {First} /\ Email!InFlight = {}
      /\ Superseding = {}
  BY MailConstants DEF Email!Init, Email!Live, Email!Stored, Email!InFlight, Email!Steps,
     Email!Tokens, Email!Requests, Superseding
<1>2. MailTypes
  <2>1. 1 \in Email!Ticks
    BY MailConstants DEF Email!Ticks
  <2>2. turn \in [Email!Requests -> Email!Answers \cup Email!Steps]
    BY DEF Email!Init, Email!Answers
  <2>3. rows \in [Email!Requests -> SUBSET Email!Stored]
    BY DEF Email!Init
  <2>4. token \in [Email!Tokens -> {"absent", "live", "used"}] /\ link \in [Clicks -> Email!Tokens]
    BY DEF Email!Init, Email!Tokens
  <2>5. Email!TypeOK
    BY <1>1, <2>1, <2>2, <2>3, <2>4 DEF Email!Init, Email!TypeOK, Email!Tokens
  <2>6. OwnTokenAbsent /\ LinkStored
    BY MailConstants DEF Email!Init, OwnTokenAbsent, LinkStored, Email!Tokens, Email!Requests
  <2> QED
    BY <2>5, <2>6 DEF MailTypes
<1>3. /\ IsFiniteSet({}) /\ Cardinality({}) = 0
      /\ IsFiniteSet({First}) /\ Cardinality({First}) = 1
  BY FS_EmptySet, FS_Singleton
<1>4. FlightBounded
  BY <1>1, <1>3, MailConstants DEF FlightBounded
<1>5. Crowd
  <2>1. ASSUME NEW Q \in SUBSET Superseding PROVE CrowdOf(Q) = {First}
    BY <1>1 DEF CrowdOf
  <2> QED
    BY <1>3, <2>1, MailConstants DEF Crowd
<1>6. Email!NewestLinkWorks
  BY DEF Email!Init, Email!NewestLinkWorks, Email!Tokens
<1> QED
  BY <1>2, <1>4, <1>5, <1>6

\* What becomes of the rows, step by step.
LEMMA MailTypesKept ==
    ASSUME Email!EmailAssumption, MailTypes, [Email!Next]_(Email!vars)
    PROVE  MailTypes'
<1>0. /\ Email!TypeOK /\ OwnTokenAbsent /\ LinkStored
      /\ Resends \subseteq Email!Tokens /\ Resends \subseteq Email!Requests
      /\ Clicks \subseteq Email!Requests
  BY DEF MailTypes, Email!Tokens, Email!Requests
<1>1. ASSUME NEW r \in Resends, Email!FindUser(r) \/ Email!CheckCooldown(r)
      PROVE  MailTypes'
  <2>1. /\ UNCHANGED <<clock, token, expired, verified, mailbox, rows, link, last>>
        /\ turn[r] \in {"idle", "cooldown"}
        /\ \E label \in {"already verified", "cooldown", "too soon", "superseding"} :
             Email!Goto(r, label)
        /\ born' \in [Email!Tokens -> Email!Ticks]
    BY <1>0, <1>1 DEF Email!FindUser, Email!CheckCooldown, Email!TypeOK
  <2>2. PICK label \in {"already verified", "cooldown", "too soon", "superseding"} :
          turn' = [turn EXCEPT ![r] = label]
    BY <2>1 DEF Email!Goto
  <2>3. turn' \in [Email!Requests -> Email!Answers \cup Email!Steps]
    BY <1>0, <2>2 DEF Email!TypeOK, Email!Answers, Email!Steps
  <2>4. Email!Stored' = Email!Stored
    BY <2>1 DEF Email!Stored
  <2>5. Email!TypeOK'
    BY <1>0, <2>1, <2>3, <2>4 DEF Email!TypeOK
  <2>6. OwnTokenAbsent' /\ LinkStored'
    BY <1>0, <2>1, <2>2, <2>4 DEF OwnTokenAbsent, LinkStored, Email!TypeOK
  <2> QED
    BY <2>5, <2>6 DEF MailTypes
<1>2. ASSUME NEW r \in Resends, Email!BeginUpdate(r) \/ Email!Supersede(r) \/ Email!Mail(r)
      PROVE  MailTypes'
  <2>1. /\ UNCHANGED <<clock, token, expired, verified, born, link, last>>
        /\ turn[r] \in {"superseding", "updating", "mailing"}
        /\ \E label \in {"updating", "mailing", "storing"} : Email!Goto(r, label)
    BY <1>2 DEF Email!BeginUpdate, Email!Supersede, Email!Mail
  <2>2. PICK label \in {"updating", "mailing", "storing"} : turn' = [turn EXCEPT ![r] = label]
    BY <2>1 DEF Email!Goto
  <2>3. turn' \in [Email!Requests -> Email!Answers \cup Email!Steps]
    BY <1>0, <2>2 DEF Email!TypeOK, Email!Answers, Email!Steps
  <2>4. Email!Stored' = Email!Stored
    BY <2>1 DEF Email!Stored
  <2>5. rows' \in [Email!Requests -> SUBSET Email!Stored]
    BY <1>0, <1>2 DEF Email!BeginUpdate, Email!Supersede, Email!Mail, Email!TypeOK, Email!Live,
       Email!Stored
  <2>6. mailbox' \subseteq Email!Tokens
    BY <1>0, <1>2 DEF Email!BeginUpdate, Email!Supersede, Email!Mail, Email!TypeOK
  <2>7. Email!TypeOK'
    BY <1>0, <2>1, <2>3, <2>4, <2>5, <2>6 DEF Email!TypeOK
  <2>8. OwnTokenAbsent' /\ LinkStored'
    BY <1>0, <2>1, <2>2, <2>4 DEF OwnTokenAbsent, LinkStored, Email!TypeOK
  <2> QED
    BY <2>7, <2>8 DEF MailTypes
<1>3. ASSUME NEW r \in Resends, Email!CommitToken(r) PROVE MailTypes'
  <2>1. /\ UNCHANGED <<clock, expired, verified, born, mailbox, rows, link>>
        /\ last' = r /\ turn' = [turn EXCEPT ![r] = "sent"]
        /\ token' = [k \in Email!Tokens |->
                       IF k \in rows[r] THEN "used" ELSE IF k = r THEN "live" ELSE token[k]]
    BY <1>3 DEF Email!CommitToken, Email!Goto
  <2>2. turn' \in [Email!Requests -> Email!Answers \cup Email!Steps]
    BY <1>0, <2>1 DEF Email!TypeOK, Email!Answers
  <2>3. token' \in [Email!Tokens -> {"absent", "live", "used"}]
    BY <1>0, <2>1 DEF Email!TypeOK
  <2>4. Email!Stored \subseteq Email!Stored' /\ r \in Email!Stored'
    BY <1>0, <2>1 DEF Email!Stored
  <2>5. Email!TypeOK'
    BY <1>0, <2>1, <2>2, <2>3, <2>4 DEF Email!TypeOK
  <2>6. OwnTokenAbsent'
    <3>1. ASSUME NEW q \in Resends, turn'[q] # "sent" PROVE token'[q] = "absent"
      <4>1. q # r /\ turn[q] # "sent" /\ token[q] = "absent"
        BY <1>0, <2>1, <3>1 DEF OwnTokenAbsent, Email!TypeOK
      <4>2. q \notin rows[r]
        BY <1>0, <4>1 DEF Email!TypeOK, Email!Stored
      <4> QED
        BY <1>0, <2>1, <4>1, <4>2
    <3> QED
      BY <3>1 DEF OwnTokenAbsent
  <2>7. LinkStored'
    BY <1>0, <2>1, <2>4, MailConstants DEF LinkStored, Email!TypeOK
  <2> QED
    BY <2>5, <2>6, <2>7 DEF MailTypes
<1>4. ASSUME NEW c \in Clicks, Email!FindToken(c) PROVE MailTypes'
  <2>1. PICK k \in mailbox :
          /\ link' = [link EXCEPT ![c] = k]
          /\ Email!Goto(c, IF k \in Email!Live \ expired THEN "using" ELSE "invalid")
    BY <1>4 DEF Email!FindToken
  <2>2. /\ UNCHANGED <<clock, token, expired, verified, born, mailbox, rows, last>>
        /\ turn'[c] \in {"using", "invalid"}
        /\ turn'[c] = "using" => link'[c] \in Email!Live
        /\ turn' = [turn EXCEPT ![c] = turn'[c]]
        /\ \A d \in Clicks \ {c} : turn'[d] = turn[d] /\ link'[d] = link[d]
        /\ link' \in [Clicks -> Email!Tokens]
    BY <1>0, <1>4, <2>1 DEF Email!FindToken, Email!Goto, Email!TypeOK
  <2>3. turn' \in [Email!Requests -> Email!Answers \cup Email!Steps]
    BY <1>0, <2>2 DEF Email!TypeOK, Email!Answers, Email!Steps
  <2>4. Email!Stored' = Email!Stored /\ Email!Live \subseteq Email!Stored
    BY <2>2 DEF Email!Stored, Email!Live
  <2>5. Email!TypeOK'
    BY <1>0, <2>2, <2>3, <2>4 DEF Email!TypeOK
  <2>6. OwnTokenAbsent'
    BY <1>0, <2>2, MailConstants DEF OwnTokenAbsent, Email!TypeOK
  <2>7. LinkStored'
    BY <1>0, <2>2, <2>4 DEF LinkStored
  <2> QED
    BY <2>5, <2>6, <2>7 DEF MailTypes
<1>5. ASSUME NEW c \in Clicks, Email!UseToken(c) \/ Email!MarkVerified(c) PROVE MailTypes'
  <2>1. /\ UNCHANGED <<clock, token, expired, verified, born, mailbox, link, last>>
        /\ turn[c] \in {"using", "marking"}
        /\ \E label \in {"marking", "confirming"} : turn' = [turn EXCEPT ![c] = label]
    BY <1>5 DEF Email!UseToken, Email!MarkVerified, Email!Goto
  <2>2. rows' \in [Email!Requests -> SUBSET Email!Stored]
    BY <1>0, <1>5 DEF Email!UseToken, Email!MarkVerified, Email!TypeOK, LinkStored
  <2>3. turn' \in [Email!Requests -> Email!Answers \cup Email!Steps]
    BY <1>0, <2>1 DEF Email!TypeOK, Email!Answers, Email!Steps
  <2>4. Email!Stored' = Email!Stored
    BY <2>1 DEF Email!Stored
  <2>5. Email!TypeOK'
    BY <1>0, <2>1, <2>2, <2>3, <2>4 DEF Email!TypeOK
  <2>6. OwnTokenAbsent' /\ LinkStored'
    BY <1>0, <2>1, <2>4, MailConstants DEF OwnTokenAbsent, LinkStored, Email!TypeOK
  <2> QED
    BY <2>5, <2>6 DEF MailTypes
<1>6. ASSUME NEW c \in Clicks, Email!CommitVerified(c) PROVE MailTypes'
  <2>1. /\ UNCHANGED <<clock, expired, born, mailbox, rows, link, last>> /\ verified'
        /\ turn' = [turn EXCEPT ![c] = "verified"]
        /\ token' = [token EXCEPT ![link[c]] = "used"]
    BY <1>6 DEF Email!CommitVerified, Email!Goto
  <2>2. turn' \in [Email!Requests -> Email!Answers \cup Email!Steps]
    BY <1>0, <2>1 DEF Email!TypeOK, Email!Answers
  <2>3. token' \in [Email!Tokens -> {"absent", "live", "used"}]
    BY <1>0, <2>1 DEF Email!TypeOK
  <2>4. Email!Stored \subseteq Email!Stored'
    BY <1>0, <2>1 DEF Email!Stored, Email!TypeOK
  <2>5. Email!TypeOK'
    BY <1>0, <2>1, <2>2, <2>3, <2>4 DEF Email!TypeOK
  <2>6. OwnTokenAbsent'
    <3>1. link[c] \in Email!Stored
      BY <1>0, <1>6 DEF LinkStored, Email!CommitVerified
    <3>2. ASSUME NEW q \in Resends, turn'[q] # "sent" PROVE token'[q] = "absent"
      <4>1. q # c /\ turn[q] # "sent" /\ token[q] = "absent"
        BY <1>0, <2>1, <3>2, MailConstants DEF OwnTokenAbsent, Email!TypeOK
      <4>2. q # link[c]
        BY <3>1, <4>1 DEF Email!Stored
      <4> QED
        BY <1>0, <2>1, <4>1, <4>2 DEF Email!TypeOK
    <3> QED
      BY <3>2 DEF OwnTokenAbsent
  <2>7. LinkStored'
    BY <1>0, <2>1, <2>4 DEF LinkStored, Email!TypeOK
  <2> QED
    BY <2>5, <2>6, <2>7 DEF MailTypes
<1>7. ASSUME NEW r \in Email!Requests, Email!Break(r) PROVE MailTypes'
  <2>1. /\ UNCHANGED <<clock, token, expired, verified, born, mailbox, rows, link, last>>
        /\ turn' = [turn EXCEPT ![r] = "broken"] /\ turn[r] \in Email!Steps
    BY <1>7 DEF Email!Break, Email!Goto, Email!InFlight
  <2>2. turn' \in [Email!Requests -> Email!Answers \cup Email!Steps]
    BY <1>0, <2>1 DEF Email!TypeOK, Email!Answers
  <2>3. Email!Stored' = Email!Stored
    BY <2>1 DEF Email!Stored
  <2>4. Email!TypeOK'
    BY <1>0, <2>1, <2>2, <2>3 DEF Email!TypeOK
  <2>5. OwnTokenAbsent'
    BY <1>0, <2>1 DEF OwnTokenAbsent, Email!TypeOK, Email!Steps
  <2>6. LinkStored'
    BY <1>0, <2>1, <2>3 DEF LinkStored, Email!TypeOK
  <2> QED
    BY <2>4, <2>5, <2>6 DEF MailTypes
<1>8. ASSUME UNCHANGED <<token, verified, born, mailbox, turn, rows, link, last>>,
             clock' \in Email!Ticks, expired' \subseteq Email!Stored
      PROVE  MailTypes'
  <2>1. Email!Stored' = Email!Stored
    BY <1>8 DEF Email!Stored
  <2>2. Email!TypeOK'
    BY <1>0, <1>8, <2>1 DEF Email!TypeOK
  <2>3. OwnTokenAbsent' /\ LinkStored'
    BY <1>0, <1>8, <2>1 DEF OwnTokenAbsent, LinkStored
  <2> QED
    BY <2>2, <2>3 DEF MailTypes
<1>9. ASSUME NEW k \in Email!Tokens, Email!Expire(k) PROVE MailTypes'
  <2>1. /\ UNCHANGED <<clock, token, verified, born, mailbox, turn, rows, link, last>>
        /\ expired' = expired \cup {k} /\ k \in Email!Stored
    BY <1>9 DEF Email!Expire, Email!requests
  <2> QED
    BY <1>0, <1>8, <2>1 DEF Email!TypeOK
<1>10. CASE Email!Tick
  <2>1. /\ UNCHANGED <<token, expired, verified, born, mailbox, turn, rows, link, last>>
        /\ clock' = clock + 1 /\ clock < LastTick
    BY <1>10 DEF Email!Tick, Email!requests
  <2>2. clock' \in Email!Ticks
    BY <1>0, <2>1, MailConstants DEF Email!TypeOK, Email!Ticks
  <2> QED
    BY <1>0, <1>8, <2>1, <2>2 DEF Email!TypeOK
<1>11. CASE UNCHANGED Email!vars
  BY <1>0, <1>8, <1>11 DEF Email!vars, Email!requests, Email!TypeOK
<1> QED
  BY <1>1, <1>2, <1>3, <1>4, <1>5, <1>6, <1>7, <1>9, <1>10, <1>11
  DEF Email!Next, Email!Resend, Email!Click

(* A set of links and requests that belongs to what could be live before is *)
(* no larger.                                                               *)
LEMMA CrowdKept ==
    ASSUME Email!EmailAssumption, FlightBounded, Crowd,
           \A Q \in SUBSET Superseding' :
               \E R \in SUBSET Superseding : CrowdOf(Q)' \subseteq CrowdOf(R)
    PROVE  Crowd'
<1>1. ASSUME NEW Q \in SUBSET Superseding' PROVE Cardinality(CrowdOf(Q)') <= MaxInFlight
  <2>1. PICK R \in SUBSET Superseding : CrowdOf(Q)' \subseteq CrowdOf(R)
    OBVIOUS
  <2>2. IsFiniteSet(Email!InFlight \cup Email!Live)
    BY FS_Union DEF FlightBounded
  <2>3. CrowdOf(R) \subseteq Email!InFlight \cup Email!Live
    BY DEF CrowdOf, Superseding, Email!InFlight, Email!Steps, Email!Requests
  <2>4. IsFiniteSet(CrowdOf(R))
    BY <2>2, <2>3, FewerElements
  <2>5. /\ Cardinality(CrowdOf(Q)') \in Nat /\ Cardinality(CrowdOf(R)) \in Nat
        /\ Cardinality(CrowdOf(Q)') <= Cardinality(CrowdOf(R))
    BY <2>1, <2>4, FewerElements
  <2>6. Cardinality(CrowdOf(R)) <= MaxInFlight
    BY DEF Crowd
  <2> QED
    BY <2>5, <2>6, MailConstants
<1> QED
  BY <1>1 DEF Crowd

LEMMA FlightKept ==
    ASSUME Email!EmailAssumption, MailTypes, FlightBounded, [Email!Next]_(Email!vars)
    PROVE  FlightBounded'
<1>0. Email!TypeOK
  BY DEF MailTypes
<1>1. ASSUME Email!InFlight' \subseteq Email!InFlight, Email!Live' \subseteq Email!Live
      PROVE  FlightBounded'
  <2>1. /\ IsFiniteSet(Email!InFlight') /\ IsFiniteSet(Email!Live')
        /\ Cardinality(Email!InFlight') \in Nat /\ Cardinality(Email!InFlight) \in Nat
        /\ Cardinality(Email!InFlight') <= Cardinality(Email!InFlight)
    BY <1>1, FewerElements DEF FlightBounded
  <2> QED
    BY <2>1, MailConstants DEF FlightBounded
<1>2. ASSUME NEW r \in Email!Requests, Cardinality(Email!InFlight) < MaxInFlight,
             Email!InFlight' \subseteq Email!InFlight \cup {r}, Email!Live' \subseteq Email!Live
      PROVE  FlightBounded'
  <2>1. /\ IsFiniteSet(Email!InFlight') /\ IsFiniteSet(Email!Live')
        /\ Cardinality(Email!InFlight') \in Nat /\ Cardinality(Email!InFlight) \in Nat
        /\ Cardinality(Email!InFlight') <= Cardinality(Email!InFlight) + 1
    BY <1>2, FewerElements, OneElementMore DEF FlightBounded
  <2> QED
    BY <1>2, <2>1, MailConstants DEF FlightBounded
<1>3. Resends \subseteq Email!Requests /\ Clicks \subseteq Email!Requests
  BY DEF Email!Requests
<1>4. ASSUME NEW r \in Email!Requests, Email!FindUser(r) \/ Email!FindToken(r)
      PROVE  FlightBounded'
  <2>1. /\ UNCHANGED token /\ Cardinality(Email!InFlight) < MaxInFlight
        /\ \A q \in Email!Requests \ {r} : turn'[q] = turn[q]
    BY <1>0, <1>4, MailCardinality DEF Email!FindUser, Email!FindToken, Email!Start,
       Email!Goto, Email!TypeOK
  <2> QED
    BY <1>2, <2>1 DEF Email!InFlight, Email!Live
<1>5. ASSUME NEW r \in Email!Requests,
             \/ Email!CheckCooldown(r) \/ Email!BeginUpdate(r) \/ Email!Supersede(r)
             \/ Email!Mail(r) \/ Email!UseToken(r) \/ Email!MarkVerified(r) \/ Email!Break(r)
      PROVE  FlightBounded'
  <2>1. /\ UNCHANGED token /\ r \in Email!InFlight
        /\ \A q \in Email!Requests \ {r} : turn'[q] = turn[q]
    BY <1>0, <1>5 DEF Email!CheckCooldown, Email!BeginUpdate, Email!Supersede, Email!Mail,
       Email!UseToken, Email!MarkVerified, Email!Break, Email!Goto, Email!TypeOK,
       Email!InFlight, Email!Steps
  <2> QED
    BY <1>1, <2>1 DEF Email!InFlight, Email!Live
<1>6. ASSUME NEW r \in Resends, Email!CommitToken(r) PROVE FlightBounded'
  <2>1. /\ r \in Email!InFlight
        /\ \A q \in Email!Requests \ {r} : turn'[q] = turn[q]
        /\ Email!Live' \subseteq Email!Live \cup {r}
    BY <1>0, <1>3, <1>6 DEF Email!CommitToken, Email!Goto, Email!TypeOK, Email!InFlight,
       Email!Steps, Email!Live
  <2>2. Email!InFlight' \subseteq Email!InFlight
    BY <2>1 DEF Email!InFlight
  <2>3. IsFiniteSet(Email!Live')
    BY <2>1, OneElementMore DEF FlightBounded
  <2>4. /\ IsFiniteSet(Email!InFlight')
        /\ Cardinality(Email!InFlight') \in Nat /\ Cardinality(Email!InFlight) \in Nat
        /\ Cardinality(Email!InFlight') <= Cardinality(Email!InFlight)
    BY <2>2, FewerElements DEF FlightBounded
  <2> QED
    BY <2>3, <2>4, MailConstants DEF FlightBounded
<1>7. ASSUME NEW c \in Clicks, Email!CommitVerified(c) PROVE FlightBounded'
  <2>1. /\ c \in Email!InFlight
        /\ \A q \in Email!Requests \ {c} : turn'[q] = turn[q]
        /\ Email!Live' \subseteq Email!Live
    BY <1>0, <1>3, <1>7 DEF Email!CommitVerified, Email!Goto, Email!TypeOK, Email!InFlight,
       Email!Steps, Email!Live
  <2> QED
    BY <1>1, <2>1 DEF Email!InFlight
<1>8. CASE (\E k \in Email!Tokens : Email!Expire(k)) \/ Email!Tick \/ UNCHANGED Email!vars
  <2>1. UNCHANGED <<token, turn>>
    BY <1>8 DEF Email!Expire, Email!Tick, Email!vars, Email!requests
  <2> QED
    BY <1>1, <2>1 DEF Email!InFlight, Email!Live
<1> QED
  BY <1>3, <1>4, <1>5, <1>6, <1>7, <1>8 DEF Email!Next, Email!Resend, Email!Click

LEMMA CrowdNext ==
    ASSUME Email!EmailAssumption, MailTypes, FlightBounded, FlightBounded', Crowd,
           [Email!Next]_(Email!vars)
    PROVE  Crowd'
<1>0. /\ Email!TypeOK /\ OwnTokenAbsent
      /\ Resends \subseteq Email!Requests /\ Clicks \subseteq Email!Requests
      /\ Resends \subseteq Email!Tokens
  BY DEF MailTypes, Email!Requests, Email!Tokens
<1>1. ASSUME Email!Live' \subseteq Email!Live, Superseding' \subseteq Superseding,
             \A r \in Superseding' : Email!Live \ rows'[r] \subseteq Email!Live \ rows[r]
      PROVE  Crowd'
  <2>1. ASSUME NEW Q \in SUBSET Superseding' PROVE CrowdOf(Q)' \subseteq CrowdOf(Q)
    BY <1>1 DEF CrowdOf
  <2> QED
    BY <1>1, <2>1, CrowdKept
\* Nothing moves that a resend beside it has not seen.
<1>2. ASSUME NEW r \in Email!Requests,
             \/ Email!CheckCooldown(r) \/ Email!Mail(r)
             \/ Email!MarkVerified(r) \/ Email!Break(r)
             \/ r \in Resends /\ Email!FindUser(r)
             \/ r \in Clicks /\ (Email!FindToken(r) \/ Email!UseToken(r))
      PROVE  Crowd'
  <2>1. /\ UNCHANGED token
        /\ turn'[r] \in {"updating", "mailing", "storing"} =>
             turn[r] \in {"updating", "mailing", "storing"}
        /\ \A q \in Email!Requests \ {r} : turn'[q] = turn[q] /\ rows'[q] = rows[q]
        /\ r \in Resends => rows'[r] = rows[r]
    BY <1>0, <1>2, MailConstants DEF Email!CheckCooldown, Email!Mail, Email!MarkVerified,
       Email!Break, Email!FindUser, Email!FindToken, Email!UseToken, Email!Goto, Email!TypeOK
  <2>2. Email!Live' = Email!Live /\ Superseding' \subseteq Superseding
    BY <1>0, <2>1 DEF Email!Live, Superseding
  <2>3. \A q \in Superseding' : rows'[q] = rows[q]
    BY <1>0, <2>1 DEF Superseding
  <2> QED
    BY <1>1, <2>2, <2>3
\* Who takes a snapshot sees every link that is live.
<1>3. ASSUME NEW r \in Resends, Email!BeginUpdate(r) PROVE Crowd'
  <2>1. /\ UNCHANGED token /\ rows'[r] = Email!Live
        /\ \A q \in Email!Requests \ {r} : turn'[q] = turn[q] /\ rows'[q] = rows[q]
    BY <1>0, <1>3 DEF Email!BeginUpdate, Email!Goto, Email!TypeOK
  <2>2. ASSUME NEW Q \in SUBSET Superseding' PROVE Cardinality(CrowdOf(Q)') <= MaxInFlight
    <3>1. CASE r \in Q
      <4>1. CrowdOf(Q)' \subseteq Email!InFlight'
        <5>1. Email!Live' = rows'[r]
          BY <2>1 DEF Email!Live
        <5>2. CrowdOf(Q)' = Q
          BY <3>1, <5>1 DEF CrowdOf
        <5> QED
          BY <5>2 DEF Superseding, Email!InFlight, Email!Steps, Email!Requests
      <4>2. /\ Cardinality(CrowdOf(Q)') \in Nat /\ Cardinality(Email!InFlight') \in Nat
            /\ Cardinality(CrowdOf(Q)') <= Cardinality(Email!InFlight')
        BY <4>1, FewerElements DEF FlightBounded
      <4> QED
        BY <4>2, MailConstants DEF FlightBounded
    <3>2. CASE r \notin Q
      <4>1. Q \in SUBSET Superseding /\ CrowdOf(Q)' = CrowdOf(Q)
        BY <1>0, <2>1, <3>2 DEF Superseding, CrowdOf, Email!Live
      <4> QED
        BY <4>1 DEF Crowd
    <3> QED
      BY <3>1, <3>2
  <2> QED
    BY <2>2 DEF Crowd
\* A link that is no longer live is not looked for again.
<1>4. ASSUME NEW r \in Resends, Email!Supersede(r) PROVE Crowd'
  <2>1. /\ UNCHANGED token /\ turn[r] = "updating"
        /\ rows'[r] = rows[r] \cap Email!Live
        /\ \A q \in Email!Requests \ {r} : turn'[q] = turn[q] /\ rows'[q] = rows[q]
    BY <1>0, <1>4 DEF Email!Supersede, Email!Goto, Email!TypeOK
  <2>2. Email!Live' = Email!Live /\ Superseding' \subseteq Superseding
    BY <1>0, <2>1 DEF Email!Live, Superseding
  <2>3. \A q \in Superseding' : Email!Live \ rows'[q] \subseteq Email!Live \ rows[q]
    BY <1>0, <2>1 DEF Superseding
  <2> QED
    BY <1>1, <2>2, <2>3
\* The link that is stored takes the place of its request.
<1>5. ASSUME NEW r \in Resends, Email!CommitToken(r) PROVE Crowd'
  <2>1. /\ UNCHANGED rows /\ turn[r] = "storing" /\ turn'[r] = "sent"
        /\ \A q \in Email!Requests \ {r} : turn'[q] = turn[q]
        /\ Email!Live' \subseteq (Email!Live \ rows[r]) \cup {r}
    BY <1>0, <1>5 DEF Email!CommitToken, Email!Goto, Email!TypeOK, Email!Live
  <2>2. ASSUME NEW Q \in SUBSET Superseding'
        PROVE  \E R \in SUBSET Superseding : CrowdOf(Q)' \subseteq CrowdOf(R)
    <3>1. Q \cup {r} \in SUBSET Superseding
      BY <1>0, <2>1 DEF Superseding
    <3>2. CrowdOf(Q)' \subseteq CrowdOf(Q \cup {r})
      BY <2>1 DEF CrowdOf
    <3> QED
      BY <3>1, <3>2
  <2> QED
    BY <2>2, CrowdKept
<1>6. ASSUME NEW c \in Clicks, Email!CommitVerified(c) PROVE Crowd'
  <2>1. /\ UNCHANGED rows /\ turn'[c] = "verified"
        /\ \A q \in Email!Requests \ {c} : turn'[q] = turn[q]
        /\ Email!Live' \subseteq Email!Live
    BY <1>0, <1>6 DEF Email!CommitVerified, Email!Goto, Email!TypeOK, Email!Live
  <2>2. Superseding' \subseteq Superseding
    BY <1>0, <2>1 DEF Superseding
  <2> QED
    BY <1>1, <2>1, <2>2
<1>7. CASE (\E k \in Email!Tokens : Email!Expire(k)) \/ Email!Tick \/ UNCHANGED Email!vars
  <2>1. UNCHANGED <<token, turn, rows>>
    BY <1>7 DEF Email!Expire, Email!Tick, Email!vars, Email!requests
  <2>2. Email!Live' = Email!Live /\ Superseding' = Superseding
    BY <2>1 DEF Email!Live, Superseding
  <2> QED
    BY <1>1, <2>1, <2>2
<1> QED
  BY <1>0, <1>2, <1>3, <1>4, <1>5, <1>6, <1>7 DEF Email!Next, Email!Resend, Email!Click

LEMMA NewestNext ==
    ASSUME Email!EmailAssumption, MailTypes, Email!NewestLinkWorks, [Email!Next]_(Email!vars)
    PROVE  Email!NewestLinkWorks'
<1>0. Email!TypeOK /\ OwnTokenAbsent
  BY DEF MailTypes
<1>1. ASSUME UNCHANGED <<token, verified, last>> PROVE Email!NewestLinkWorks'
  BY <1>1 DEF Email!NewestLinkWorks
<1>2. ASSUME NEW r,
             \/ Email!FindUser(r) \/ Email!CheckCooldown(r) \/ Email!BeginUpdate(r)
             \/ Email!Supersede(r) \/ Email!Mail(r) \/ Email!FindToken(r) \/ Email!UseToken(r)
             \/ Email!MarkVerified(r) \/ Email!Break(r) \/ Email!Expire(r) \/ Email!Tick
             \/ UNCHANGED Email!vars
      PROVE  Email!NewestLinkWorks'
  <2>1. UNCHANGED <<token, verified, last>>
    BY <1>2 DEF Email!FindUser, Email!CheckCooldown, Email!BeginUpdate, Email!Supersede,
       Email!Mail, Email!FindToken, Email!UseToken, Email!MarkVerified, Email!Break,
       Email!Expire, Email!Tick, Email!vars, Email!requests
  <2> QED
    BY <1>1, <2>1
\* A resend does not supersede its own link: it is not stored yet.
<1>3. ASSUME NEW r \in Resends, Email!CommitToken(r) PROVE Email!NewestLinkWorks'
  <2>1. r \in Email!Tokens /\ r \in Email!Requests
    BY DEF Email!Tokens, Email!Requests
  <2>2. token[r] = "absent"
    BY <1>0, <1>3 DEF OwnTokenAbsent, Email!CommitToken
  <2>3. r \notin rows[r]
    BY <1>0, <2>1, <2>2 DEF Email!TypeOK, Email!Stored
  <2>4. last' = r /\ token'[r] = "live"
    BY <1>3, <2>1, <2>3 DEF Email!CommitToken
  <2> QED
    BY <2>4 DEF Email!NewestLinkWorks
<1>4. ASSUME NEW c \in Clicks, Email!CommitVerified(c) PROVE Email!NewestLinkWorks'
  BY <1>4 DEF Email!CommitVerified, Email!NewestLinkWorks
<1> QED
  BY <1>2, <1>3, <1>4 DEF Email!Next, Email!Resend, Email!Click

(* Every reachable state of the e-mail verification is well typed.          *)
THEOREM MailTypeCorrect == Email!EmailAssumption => (Email!Spec => []Email!TypeOK)
<1>1. SUFFICES ASSUME Email!EmailAssumption PROVE Email!Spec => []Email!TypeOK
  OBVIOUS
<1>2. Email!Init => MailTypes
  BY <1>1, MailInit
<1>3. MailTypes /\ [Email!Next]_(Email!vars) => MailTypes'
  BY <1>1, MailTypesKept
<1>4. MailTypes => Email!TypeOK
  BY DEF MailTypes
<1> QED
  BY <1>2, <1>3, <1>4, PTL DEF Email!Spec

(* However resends and clicks overlap, there are never more links that can  *)
(* be used than requests handled at once: each resend invalidates the links *)
(* it sees (email_verification.py:36-55).                                   *)
THEOREM LiveLinksAreFew == Email!EmailAssumption => (Email!Spec => []Email!LiveLinksBounded)
<1> DEFINE Inv == MailTypes /\ FlightBounded /\ Crowd
<1>1. SUFFICES ASSUME Email!EmailAssumption PROVE Email!Spec => []Email!LiveLinksBounded
  OBVIOUS
<1>2. Email!Init => Inv
  BY <1>1, MailInit
<1>3. Inv /\ [Email!Next]_(Email!vars) => Inv'
  BY <1>1, MailTypesKept, FlightKept, CrowdNext
<1>4. Inv => Email!LiveLinksBounded
  <2> SUFFICES ASSUME Inv PROVE Email!LiveLinksBounded
    OBVIOUS
  <2>1. CrowdOf({}) = Email!Live
    BY DEF CrowdOf
  <2>2. Cardinality(CrowdOf({})) <= MaxInFlight
    BY DEF Crowd
  <2> QED
    BY <2>1, <2>2, MailCardinality DEF Email!LiveLinksBounded
<1> QED
  BY <1>2, <1>3, <1>4, PTL DEF Email!Spec

(* Until the address is verified, the link that was stored last works: no   *)
(* request that began earlier takes it back (email_verification.py:36-55,   *)
(* database.py:29-37).                                                      *)
THEOREM NewestLinkStays == Email!EmailAssumption => (Email!Spec => []Email!NewestLinkWorks)
<1> DEFINE Inv == MailTypes /\ Email!NewestLinkWorks
<1>1. SUFFICES ASSUME Email!EmailAssumption PROVE Email!Spec => []Email!NewestLinkWorks
  OBVIOUS
<1>2. Email!Init => Inv
  BY <1>1, MailInit
<1>3. Inv /\ [Email!Next]_(Email!vars) => Inv'
  BY <1>1, MailTypesKept, NewestNext
<1> QED
  BY <1>2, <1>3, PTL DEF Email!Spec

-----------------------------------------------------------------------------
(* Translation, with variables of its own, for every text, whatever the     *)
(* model writes.                                                            *)

CONSTANTS Texts, Shapes, Sizes, Names, Slots, Langs, None
VARIABLES route, text, target, auto, phase, calls, failure, result, billed, status

Translate == INSTANCE Translation WITH pc <- phase, charged <- billed

\* The answer of the model satisfies every check, as it is delivered.
ResultSound ==
    /\ Translate!Checked(result) = "none"
    /\ target = "de" => result.sharp = 0
    /\ auto /\ result.lang = target => Translate!Guess(text) \in {None, target}

(* What was accepted is kept until it is delivered; before that only the    *)
(* anonymous tracker charges, and then an account for what was recorded.    *)
DeliveryInv ==
    /\ phase \in {"new", "calling", "recording", "reporting", "failed", "answered"}
    /\ phase \in {"recording", "reporting"} \/ status = 200 => ResultSound
    /\ phase # "answered" => status = 0
    /\ phase = "new" => billed = 0
    /\ phase \in {"new", "calling", "recording", "reporting"} => failure # "alerts"
    /\ phase = "calling" \/ phase = "recording" \/ (phase = "failed" /\ failure # "alerts") =>
          billed = IF route = "anonymous" THEN text.len ELSE 0
    /\ phase = "reporting" \/ (phase = "failed" /\ failure = "alerts") =>
          route = "public" /\ billed = text.len
    /\ Translate!BilledForDelivery

\* Two letters for one, the language and the checks leave nothing to be done.
LEMMA CleanedIsSound ==
    ASSUME NEW s, Translate!Verdict(s) = "none"
    PROVE  /\ Translate!Checked(Translate!Cleaned(s)) = "none"
           /\ target = "de" => Translate!Cleaned(s).sharp = 0
           /\ auto /\ Translate!Cleaned(s).lang = target => Translate!Guess(text) \in {None, target}
<1>1. ~(auto /\ s.form = "odd") /\ Translate!Checked(Translate!Cleaned(s)) = "none"
  BY DEF Translate!Verdict
<1>2. target = "de" => Translate!Cleaned(s).sharp = 0
  BY DEF Translate!Cleaned, Translate!Orthography, Translate!Stripped
<1>3. Translate!Cleaned(s).lang = Translate!DetectedLang(s)
  BY DEF Translate!Cleaned, Translate!Orthography, Translate!Stripped
<1>4. auto /\ Translate!DetectedLang(s) = target => Translate!Guess(text) \in {None, target}
  BY DEF Translate!DetectedLang, Translate!ValidDetection
<1> QED
  BY <1>1, <1>2, <1>3, <1>4

LEMMA DeliveryInit == Translate!Init => DeliveryInv
BY DEF Translate!Init, DeliveryInv, Translate!BilledForDelivery

LEMMA DeliveryNext == DeliveryInv /\ [Translate!Next]_(Translate!vars) => DeliveryInv'
<1> SUFFICES ASSUME DeliveryInv, [Translate!Next]_(Translate!vars) PROVE DeliveryInv'
  OBVIOUS
<1>1. CASE Translate!Accept
  BY <1>1 DEF Translate!Accept, Translate!request, DeliveryInv, Translate!BilledForDelivery
<1>2. CASE Translate!CallFails
  <2>1. PICK f \in Translate!CallFailures : Translate!Fail(f)
    BY <1>2 DEF Translate!CallFails
  <2>2. /\ UNCHANGED <<route, text, target, auto, billed, status>>
        /\ phase = "calling" /\ phase' \in {"calling", "failed"} /\ failure' # "alerts"
    BY <1>2, <2>1 DEF Translate!CallFails, Translate!Fail, Translate!request,
                      Translate!CallFailures
  <2> QED
    BY <2>2 DEF DeliveryInv, Translate!BilledForDelivery
<1>3. CASE Translate!CallReturns
  <2>1. PICK s \in Translate!Samples :
          \/ Translate!Verdict(s) # "none" /\ Translate!Fail(Translate!Verdict(s))
          \/ /\ Translate!Verdict(s) = "none"
             /\ result' = Translate!Cleaned(s)
             /\ failure' = "none"
             /\ phase' = "recording"
    BY <1>3 DEF Translate!CallReturns
  <2>2. UNCHANGED <<route, text, target, auto, billed, status>> /\ phase = "calling"
    BY <1>3 DEF Translate!CallReturns, Translate!request
  <2>3. CASE Translate!Verdict(s) # "none"
    <3>1. phase' \in {"calling", "failed"} /\ failure' # "alerts"
      BY <2>1, <2>3 DEF Translate!Fail, Translate!Verdict, Translate!Checked
    <3> QED
      BY <2>2, <3>1 DEF DeliveryInv, Translate!BilledForDelivery
  <2>4. CASE Translate!Verdict(s) = "none"
    <3>1. result' = Translate!Cleaned(s) /\ phase' = "recording" /\ failure' = "none"
      BY <2>1, <2>4
    <3>2. ResultSound'
      <4>1. Translate!Checked(result)' = Translate!Checked(result')
        BY <2>2 DEF Translate!Checked, Translate!NameChanged, Translate!MaxLength
      <4>2. Translate!Guess(text)' = Translate!Guess(text)
        BY <2>2 DEF Translate!Guess
      <4> QED
        BY <2>2, <2>4, <3>1, <4>1, <4>2, CleanedIsSound DEF ResultSound
    <3> QED
      BY <2>2, <3>1, <3>2 DEF DeliveryInv, Translate!BilledForDelivery
  <2> QED
    BY <2>3, <2>4
<1>4. ASSUME UNCHANGED <<route, text, target, auto, result>>, ResultSound
      PROVE  ResultSound'
  BY <1>4 DEF ResultSound, Translate!Checked, Translate!NameChanged, Translate!MaxLength,
     Translate!Guess
<1>5. CASE Translate!Record
  <2>1. /\ UNCHANGED <<route, text, target, auto, result>> /\ phase = "recording"
        /\ \/ /\ UNCHANGED failure
              /\ billed' = IF route \in Translate!Accounts THEN text.len ELSE billed
              /\ \/ route = "public" /\ phase' = "reporting" /\ UNCHANGED status
                 \/ route # "public" /\ phase' = "answered" /\ status' = 200
           \/ /\ route \in Translate!Accounts
              /\ phase' = "failed" /\ failure' = "database" /\ UNCHANGED <<billed, status>>
    BY <1>5 DEF Translate!Record, Translate!request
  <2>2. ResultSound'
    BY <1>4, <2>1 DEF DeliveryInv
  <2> QED
    BY <2>1, <2>2 DEF DeliveryInv, Translate!BilledForDelivery, Translate!Accounts
<1>6. CASE Translate!Report
  <2>1. /\ UNCHANGED <<route, text, target, auto, result, billed>> /\ phase = "reporting"
        /\ \/ phase' = "answered" /\ status' = 200 /\ UNCHANGED failure
           \/ phase' = "failed" /\ failure' = "alerts" /\ UNCHANGED status
    BY <1>6 DEF Translate!Report, Translate!request
  <2>2. ResultSound'
    BY <1>4, <2>1 DEF DeliveryInv
  <2> QED
    BY <2>1, <2>2 DEF DeliveryInv, Translate!BilledForDelivery, Translate!Accounts
<1>7. CASE Translate!AnswerFailure
  <2>1. /\ UNCHANGED <<route, text, billed, failure>>
        /\ phase = "failed" /\ phase' = "answered"
        /\ status' = Translate!StatusOf(failure)
    BY <1>7 DEF Translate!AnswerFailure, Translate!request
  <2>2. status' # 200
    BY <2>1 DEF Translate!StatusOf
  <2> QED
    BY <2>1, <2>2 DEF DeliveryInv, Translate!BilledForDelivery, Translate!Accounts
<1>8. CASE UNCHANGED Translate!vars
  <2>1. UNCHANGED <<route, text, target, auto, phase, failure, result, billed, status>>
    BY <1>8 DEF Translate!vars, Translate!request
  <2> QED
    BY <1>4, <2>1 DEF DeliveryInv, Translate!BilledForDelivery
<1> QED
  BY <1>1, <1>2, <1>3, <1>5, <1>7, <1>8, <1>6 DEF Translate!Next

(* What is delivered satisfies every check in the form in which it is       *)
(* delivered, whatever the model wrote and after whichever call             *)
(* (translation.py:409-434, language_detection.py:72-75).                   *)
THEOREM OnlySoundIsDelivered == Translate!Spec => []Translate!DeliveredIsSound
<1>1. DeliveryInv => Translate!DeliveredIsSound
  BY DEF DeliveryInv, ResultSound, Translate!DeliveredIsSound
<1> QED
  BY <1>1, DeliveryInit, DeliveryNext, PTL DEF Translate!Spec

(* "no usage is billed for a failed request" (public.py:318), on any route  *)
(* and whichever call, check or database access failed, except that the     *)
(* alerts come after the commit: where they fail, the request is billed and *)
(* answered with 500 (public.py:330-349).  What is recorded is billed once. *)
THEOREM BilledOnceRecorded == Translate!Spec => []Translate!BilledForDelivery
<1>1. DeliveryInv => Translate!BilledForDelivery
  BY DEF DeliveryInv
<1> QED
  BY <1>1, DeliveryInit, DeliveryNext, PTL DEF Translate!Spec
=============================================================================
