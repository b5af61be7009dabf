------------------------- MODULE UsageMeteringProofs -------------------------
(* Theorems about UsageMetering, for every set of requests and keys. *)
EXTENDS UsageMeteringProps, TLAPS

USE LaneAssumption, QuantityAssumption DEF LaneAssumption, QuantityAssumption

(* Updating one entry of a function keeps its type. *)
LEMMA UpdateType ==
    ASSUME NEW S, NEW T, NEW f \in [S -> T], NEW x, NEW v \in T
    PROVE  [f EXCEPT ![x] = v] \in [S -> T]
OBVIOUS

LEMMA NoTxnType == ASSUME NEW r \in Requests PROVE NoTxn(r) \in Transaction
BY DEF NoTxn, Transaction, RowIds, Months

(* Updating one field of a transaction or of a row keeps its type. *)
LEMMA FieldType ==
    /\ \A t \in Transaction, n \in Nat : [t EXCEPT !.balance = n] \in Transaction
    /\ \A t \in Transaction, A \in SUBSET Thresholds :
          [t EXCEPT !.alerts = A] \in Transaction
    /\ \A t \in Transaction, i \in RowIds, a, b, c \in Nat :
          [t EXCEPT !.id = i, !.old = a, !.new = b, !.over = c] \in Transaction
    /\ \A t \in Transaction, i \in RowIds, A \in SUBSET Thresholds :
          [t EXCEPT !.id = i, !.alerts = A] \in Transaction
    /\ \A p \in PeriodRow, n \in Nat :
          [p EXCEPT !.used = n] \in PeriodRow /\ [p EXCEPT !.limit = n] \in PeriodRow
    /\ \A p \in PeriodRow, A \in SUBSET Thresholds :
          [p EXCEPT !.alerts = p.alerts \cup A] \in PeriodRow
BY DEF Transaction, PeriodRow

LEMMA NewPeriodType == TypeOK => NewPeriod \in PeriodRow
BY QuantityAssumption DEF TypeOK, NewPeriod, PeriodRow, Plans

(* The rollback of a transaction keeps every variable in its type. *)
LEMMA AbortType ==
    ASSUME TypeOK, NEW r \in Requests, NEW outcome \in Terminal, Abort(r, outcome)
    PROVE  TypeOK'
BY NoTxnType DEF TypeOK, Abort, Goto, InTransaction, AfterCommit, Terminal, ledger

(* get_or_create_usage_period returns a row of the user's table. *)
LEMMA UsePeriodType ==
    ASSUME TypeOK, NEW r \in Requests, NEW id \in RowIds, UsePeriod(r, id)
    PROVE  /\ pending' \subseteq RowIds
           /\ row' \in [RowIds -> PeriodRow]
           /\ Period(r, id) \in PeriodRow
BY NewPeriodType DEF TypeOK, UsePeriod, Period

(* Init puts every variable in its type. *)
LEMMA InitType == Init => TypeOK
<1> SUFFICES ASSUME Init PROVE TypeOK
  OBVIOUS
<1>1. txn \in [Requests -> Transaction]
  BY NoTxnType DEF Init
<1>2. row \in [RowIds -> PeriodRow]
  BY DEF Init, PeriodRow
<1> QED
  BY <1>1, <1>2 DEF Init, TypeOK, Months

LEMMA CheckUsageType ==
    ASSUME TypeOK, NEW r \in Requests, CheckUsage(r) \/ ReadUsage(r)
    PROVE  TypeOK'
<1>1. CASE \E outcome \in {"error", "refused"} : Abort(r, outcome)
  BY <1>1, AbortType DEF Terminal
<1>2. CASE \E id \in RowIds :
             /\ UsePeriod(r, id)
             /\ \E label \in {"translating", "closing"} : Goto(r, label)
             /\ UNCHANGED <<month, sub, subInserted, plan, committed, txn,
                            ledger, metered, emails>>
  BY <1>2, UsePeriodType DEF TypeOK, Goto, ledger, InTransaction
<1> QED
  BY <1>1, <1>2 DEF CheckUsage, ReadUsage

LEMMA ReadAllowanceType ==
    ASSUME TypeOK, NEW r \in Requests, ReadAllowance(r)
    PROVE  TypeOK'
<1>1. CASE Abort(r, "error")
  BY <1>1, AbortType DEF Terminal
<1>2. ASSUME NEW id \in RowIds,
             UsePeriod(r, id),
             pc' = [pc EXCEPT ![r] = IF Chars[r] <= Left(Period(r, id))
                                     THEN "recording" ELSE "overflow"],
             txn' = [txn EXCEPT ![r] =
               [@ EXCEPT !.id = id, !.old = Period(r, id).used,
                         !.new  = IF Chars[r] <= Left(Period(r, id))
                                  THEN Period(r, id).used + Chars[r]
                                  ELSE Period(r, id).limit,
                         !.over = IF Chars[r] <= Left(Period(r, id))
                                  THEN 0
                                  ELSE Chars[r] - Left(Period(r, id))]],
             UNCHANGED <<month, sub, subInserted, plan, committed, ledger, metered, emails>>
      PROVE  TypeOK'
  <2> DEFINE period == Period(r, id)
             over == IF Chars[r] <= Left(period)
                     THEN 0 ELSE Chars[r] - Left(period)
             new == IF Chars[r] <= Left(period)
                    THEN period.used + Chars[r] ELSE period.limit
  <2>1. period.used \in Nat /\ period.limit \in Nat
    BY <1>2, UsePeriodType DEF PeriodRow
  <2>2. over \in Nat /\ new \in Nat
    BY <2>1 DEF Left
  <2>3. txn' = [txn EXCEPT ![r] =
                 [@ EXCEPT !.id = id, !.old = period.used, !.new = new, !.over = over]]
    BY <1>2
  <2> HIDE DEF period, over, new
  <2>4. [txn[r] EXCEPT !.id = id, !.old = period.used, !.new = new, !.over = over]
          \in Transaction
    BY <2>1, <2>2, FieldType DEF TypeOK
  <2>5. txn' \in [Requests -> Transaction]
    BY <2>3, <2>4 DEF TypeOK
  <2> QED
    BY <1>2, <2>5, UsePeriodType DEF TypeOK, ledger, InTransaction
<1> QED
  BY <1>1, <1>2 DEF ReadAllowance, Goto

LEMMA FlushUsageType ==
    ASSUME TypeOK, NEW r \in Requests, FlushUsage(r)
    PROVE  TypeOK'
<1>1. CASE Abort(r, "error")
  BY <1>1, AbortType DEF Terminal
<1>2. CASE /\ \E id \in RowIds : UsePeriod(r, id)
           /\ Goto(r, "flushed")
           /\ UNCHANGED <<month, sub, subInserted, plan, committed, txn, ledger,
                          metered, emails>>
  BY <1>2, UsePeriodType DEF TypeOK, Goto, ledger, InTransaction
<1> QED
  BY <1>1, <1>2 DEF FlushUsage

LEMMA CommitUsageType ==
    ASSUME TypeOK, NEW r \in Requests, CommitUsage(r)
    PROVE  TypeOK'
<1> DEFINE m == txn[r].id[2]
           over == txn[r].over
           id == txn[r].id
<1>1. /\ m \in Months
      /\ over \in Nat /\ txn[r].balance \in Nat /\ txn[r].new \in Nat
      /\ id \in RowIds
  BY DEF TypeOK, Transaction, RowIds
<1>2. /\ credits' \in Nat
      /\ spent' = [spent EXCEPT ![m] = @ + over] \/ spent' = spent
      /\ waived' = [waived EXCEPT ![m] = @ + over] \/ waived' = waived
      /\ \/ row' = row
         \/ row' = [row EXCEPT ![id] = [row[id] EXCEPT !.used = txn[r].new]]
      /\ recorded' = [recorded EXCEPT ![r] = m]
  <2>1. CASE Draws(r)
    BY <1>1, <2>1 DEF CommitUsage, TypeOK, Draws
  <2>2. CASE ~Draws(r)
    BY <1>1, <2>2 DEF CommitUsage, TypeOK
  <2> QED
    BY <2>1, <2>2
<1> HIDE DEF m, over, id
<1>3. spent' \in [Months -> Nat] /\ waived' \in [Months -> Nat]
  <2>1. spent \in [Months -> Nat] /\ waived \in [Months -> Nat]
    BY DEF TypeOK
  <2>2. spent' \in [Months -> Nat]
    BY <1>1, <1>2, <2>1
  <2>3. waived' \in [Months -> Nat]
    BY <1>1, <1>2, <2>1
  <2> QED
    BY <2>2, <2>3
<1>4. row' \in [RowIds -> PeriodRow]
  <2>1. [row[id] EXCEPT !.used = txn[r].new] \in PeriodRow
    BY <1>1, FieldType DEF TypeOK
  <2>2. CASE row' = row
    BY <2>2 DEF TypeOK
  <2>3. CASE row' = [row EXCEPT ![id] = [row[id] EXCEPT !.used = txn[r].new]]
    BY <1>1, <2>1, <2>3, UpdateType DEF TypeOK
  <2> QED
    BY <1>2, <2>2, <2>3
<1>5. recorded' \in [Requests -> Months \cup {0}]
  BY <1>1, <1>2, UpdateType DEF TypeOK
<1>6. txn' \in [Requests -> Transaction]
  BY NoTxnType DEF CommitUsage, TypeOK
<1>7. pc' \in [Requests -> {"idle"} \cup InTransaction \cup AfterCommit \cup Terminal]
  BY DEF CommitUsage, TypeOK, Goto, AfterCommit, Terminal
<1> QED
  BY <1>2, <1>3, <1>4, <1>5, <1>6, <1>7
  DEF CommitUsage, CommitInserts, TypeOK

LEMMA SimpleStepType ==
    ASSUME TypeOK, NEW r \in Requests,
           \/ Start(r) \/ InsertSubscription(r) \/ SkipUsageCheck(r)
           \/ CloseUsageRead(r) \/ TranslateSucceeds(r) \/ TranslateFails(r)
           \/ ReadCredits(r) \/ ReportMeter(r)
    PROVE  TypeOK'
<1> USE DEF TypeOK, Goto, ledger, InTransaction, AfterCommit, Terminal
<1>1. CASE Start(r)
  BY <1>1 DEF Start
<1>2. CASE InsertSubscription(r)
  BY <1>2, AbortType DEF InsertSubscription
<1>3. CASE SkipUsageCheck(r)
  BY <1>3 DEF SkipUsageCheck
<1>4. CASE CloseUsageRead(r)
  BY <1>4 DEF CloseUsageRead, CommitInserts
<1>5. CASE TranslateSucceeds(r)
  BY <1>5 DEF TranslateSucceeds
<1>6. CASE TranslateFails(r)
  BY <1>6, AbortType DEF TranslateFails
<1>7. CASE ReadCredits(r)
  <2>1. txn' = [txn EXCEPT ![r] = [txn[r] EXCEPT !.balance = credits]]
    BY <1>7 DEF ReadCredits
  <2>2. [txn[r] EXCEPT !.balance = credits] \in Transaction
    BY FieldType
  <2>3. txn' \in [Requests -> Transaction]
    BY <2>1, <2>2, UpdateType
  <2> QED
    BY <1>7, <2>3 DEF ReadCredits
<1>8. CASE ReportMeter(r)
  BY <1>8 DEF ReportMeter
<1> QED
  BY <1>1, <1>2, <1>3, <1>4, <1>5, <1>6, <1>7, <1>8

LEMMA AlertType ==
    ASSUME TypeOK, NEW r \in Requests,
           ReadAlerts(r) \/ SendAlerts(r) \/ CommitAlerts(r)
    PROVE  TypeOK'
<1> USE DEF Goto, ledger, AfterCommit, Terminal
<1>1. CASE ReadAlerts(r)
  <2>1. CASE \E outcome \in {"error", "ok"} : Abort(r, outcome)
    BY <2>1, AbortType
  <2>2. CASE \E id \in RowIds :
               /\ Goto(r, IF Crossed(id) = {} THEN "ok" ELSE "alerting")
               /\ txn' = IF Crossed(id) = {} THEN txn
                         ELSE [txn EXCEPT ![r] = [@ EXCEPT !.id = id,
                                                           !.alerts = Crossed(id)]]
               /\ UNCHANGED <<month, sub, subInserted, plan, committed, pending,
                              row, ledger, metered, emails>>
    <3>1. PICK id \in RowIds :
            /\ Goto(r, IF Crossed(id) = {} THEN "ok" ELSE "alerting")
            /\ txn' = IF Crossed(id) = {} THEN txn
                      ELSE [txn EXCEPT ![r] = [txn[r] EXCEPT !.id = id,
                                                             !.alerts = Crossed(id)]]
            /\ UNCHANGED <<month, sub, subInserted, plan, committed, pending,
                           row, ledger, metered, emails>>
      BY <2>2 DEF TypeOK
    <3>2. Crossed(id) \in SUBSET Thresholds
      BY DEF Crossed
    <3>3. [txn[r] EXCEPT !.id = id, !.alerts = Crossed(id)] \in Transaction
      BY <3>2, FieldType DEF TypeOK
    <3>4. txn' \in [Requests -> Transaction]
      BY <3>1, <3>3, UpdateType DEF TypeOK
    <3> QED
      BY <3>1, <3>4 DEF TypeOK
  <2> QED
    BY <1>1, <2>1, <2>2 DEF ReadAlerts
<1>2. CASE SendAlerts(r)
  <2>1. PICK sent \in SUBSET txn[r].alerts :
          /\ txn' = [txn EXCEPT ![r].alerts = sent]
          /\ emails' = [emails EXCEPT ![txn[r].id[2]] =
                          [t \in Thresholds |->
                              IF t \in sent THEN @[t] + 1 ELSE @[t]]]
    BY <1>2 DEF SendAlerts
  <2> DEFINE m == txn[r].id[2]
             counts == [t \in Thresholds |->
                          IF t \in sent THEN emails[m][t] + 1 ELSE emails[m][t]]
  <2>2. emails' \in [Months -> [Thresholds -> Nat]]
    <3>1. m \in Months
      BY DEF TypeOK, Transaction, RowIds
    <3>2. counts \in [Thresholds -> Nat]
      BY <3>1 DEF TypeOK
    <3>3. emails' = [emails EXCEPT ![m] = counts]
      BY <2>1
    <3> QED
      BY <3>2, <3>3, UpdateType DEF TypeOK
  <2>3. txn' \in [Requests -> Transaction]
    <3>1. txn' = [txn EXCEPT ![r] = [txn[r] EXCEPT !.alerts = sent]]
      BY <2>1
    <3>2. sent \in SUBSET Thresholds
      BY DEF TypeOK, Transaction
    <3>3. [txn[r] EXCEPT !.alerts = sent] \in Transaction
      BY <3>2, FieldType DEF TypeOK
    <3> QED
      BY <3>1, <3>3, UpdateType DEF TypeOK
  <2> QED
    BY <1>2, <2>2, <2>3 DEF SendAlerts, TypeOK
<1>3. CASE CommitAlerts(r)
  <2> DEFINE id == txn[r].id
             flagged == [row[id] EXCEPT !.alerts = row[id].alerts \cup txn[r].alerts]
  <2>1. id \in RowIds /\ txn[r].alerts \in SUBSET Thresholds
    BY DEF TypeOK, Transaction
  <2>2. flagged \in PeriodRow
    BY <2>1, FieldType DEF TypeOK
  <2>3. row' = [row EXCEPT ![id] = flagged]
    BY <1>3 DEF CommitAlerts
  <2>4. row' \in [RowIds -> PeriodRow]
    BY <2>2, <2>3, UpdateType DEF TypeOK
  <2>5. txn' \in [Requests -> Transaction]
    BY <1>3, NoTxnType, UpdateType DEF CommitAlerts, TypeOK
  <2> QED
    BY <1>3, <2>4, <2>5 DEF CommitAlerts, TypeOK
<1> QED
  BY <1>1, <1>2, <1>3

LEMMA EnvironmentType == TypeOK /\ Environment => TypeOK'
<1> SUFFICES ASSUME TypeOK, Environment PROVE TypeOK'
  OBVIOUS
<1> USE DEF TypeOK, ledger
<1>0. \A limit \in Nat : SyncPeriodLimit(limit) =>
        row' \in [RowIds -> PeriodRow]
  <2> SUFFICES ASSUME NEW limit \in Nat, NEW id \in RowIds,
                      row' = [row EXCEPT ![id] = [row[id] EXCEPT !.limit = limit]]
               PROVE  row' \in [RowIds -> PeriodRow]
    BY DEF SyncPeriodLimit
  <2>1. [row[id] EXCEPT !.limit = limit] \in PeriodRow
    BY FieldType
  <2> QED
    BY <2>1, UpdateType
<1>1. CASE \E product \in {"consumer", "b2b"}, limit \in ConsumerLimits \cup B2BLimits :
              ChangeTier(product, limit)
  BY <1>0, <1>1, QuantityAssumption DEF ChangeTier
<1>2. CASE NextMonth
  BY <1>2 DEF NextMonth, Months
<1>3. CASE Crash
  BY <1>3, NoTxnType DEF Crash, Terminal
<1> QED
  BY <1>1, <1>2, <1>3 DEF Environment

LEMMA NextType == TypeOK /\ [Next]_vars => TypeOK'
<1> SUFFICES ASSUME TypeOK, [Next]_vars PROVE TypeOK'
  OBVIOUS
<1>1. CASE \E r \in Requests : Start(r) \/ Serve(r)
  BY <1>1, CheckUsageType, ReadAllowanceType, FlushUsageType, CommitUsageType,
     SimpleStepType, AlertType DEF Serve
<1>2. CASE Environment
  BY <1>2, EnvironmentType
<1>3. CASE UNCHANGED vars
  BY <1>3 DEF vars, TypeOK, ledger
<1> QED
  BY <1>1, <1>2, <1>3 DEF Next

(* Every row, balance and counter stays a natural number and every request  *)
(* in a state the handlers have (subscription.py:153-187: a balance is only *)
(* reduced by what it covers).                                              *)
THEOREM TypeCorrect == Spec => []TypeOK
<1>1. TypeOK /\ [Next]_vars => TypeOK'
  BY NextType
<1> QED
  BY <1>1, InitType, PTL DEF Spec
-----------------------------------------------------------------------------
(* The rows of the period table, as one key's transactions leave them. *)

(* Authentication writes last_used_at (api_key.py:155) and the lock of that *)
(* write is held until public.py:330 commits or the request fails.          *)
SerialPerKey ==
    \A q, r \in Requests :
        SameKey(q, r) /\ q # r =>
            ~(pc[q] \in InTransaction /\ pc[r] \in InTransaction)

PendingIsOpen == \A id \in pending : pc[id[1]] \in InTransaction

RowsInv == TypeOK /\ SerialPerKey /\ PendingIsOpen /\ OnePeriodPerKey

\* What a step of request r does to the rows: nothing, roll back, commit, insert.
RowsStep(r) ==
    \/ /\ UNCHANGED <<committed, pending>>
       /\ pc[r] \in InTransaction => pc'[r] \in InTransaction
    \/ committed' = committed /\ pending' = {id \in pending : id[1] # r}
    \/ /\ committed' = committed \cup {id \in pending : id[1] = r}
       /\ pending' = {id \in pending : id[1] # r}
    \/ /\ committed' = committed
       /\ Visible(r) = {}
       /\ pending' = pending \cup {<<r, month>>}
       /\ pc'[r] \in InTransaction

\* Only r moves, and it opens a transaction only when its key is free.
ControlStep(r) ==
    /\ \A q \in Requests : q # r => pc'[q] = pc[q]
    /\ pc'[r] \in InTransaction /\ pc[r] \notin InTransaction => ~KeyLocked(r)

LEMMA StepShape ==
    ASSUME TypeOK, NEW r \in Requests, Start(r) \/ Serve(r)
    PROVE  RowsStep(r) /\ ControlStep(r)
<1> USE DEF RowsStep, ControlStep, Goto, InTransaction
<1>1. ASSUME NEW outcome \in Terminal, Abort(r, outcome)
      PROVE  RowsStep(r) /\ ControlStep(r)
  BY <1>1 DEF Abort, TypeOK, Terminal
<1>2. CASE Start(r)
  BY <1>2 DEF Start, TypeOK
<1>3. CASE InsertSubscription(r)
  BY <1>1, <1>3 DEF InsertSubscription, TypeOK, Terminal
<1>4. CASE SkipUsageCheck(r) \/ TranslateSucceeds(r) \/ ReadCredits(r)
  BY <1>4 DEF SkipUsageCheck, TranslateSucceeds, ReadCredits, TypeOK
<1>5. CASE TranslateFails(r)
  BY <1>1, <1>5 DEF TranslateFails, Terminal
<1>6. CASE CheckUsage(r) \/ ReadUsage(r)
  <2>1. CASE \E outcome \in Terminal : Abort(r, outcome)
    BY <1>1, <2>1
  <2>2. CASE \E id \in RowIds :
               /\ UsePeriod(r, id)
               /\ \E label \in {"translating", "closing"} : Goto(r, label)
               /\ UNCHANGED committed
    BY <1>6, <2>2 DEF UsePeriod, TypeOK, CheckUsage, ReadUsage
  <2> QED
    BY <1>6, <2>1, <2>2 DEF CheckUsage, ReadUsage, Terminal
<1>7. CASE ReadAllowance(r)
  <2>1. CASE Abort(r, "error")
    BY <1>1, <2>1 DEF Terminal
  <2>2. CASE \E id \in RowIds :
               /\ UsePeriod(r, id)
               /\ \E label \in {"recording", "overflow"} : Goto(r, label)
               /\ UNCHANGED committed
    BY <1>7, <2>2 DEF UsePeriod, TypeOK, ReadAllowance
  <2> QED
    BY <1>7, <2>1, <2>2 DEF ReadAllowance
<1>8. CASE FlushUsage(r)
  <2>1. CASE Abort(r, "error")
    BY <1>1, <2>1 DEF Terminal
  <2>2. CASE \E id \in RowIds :
               UsePeriod(r, id) /\ Goto(r, "flushed") /\ UNCHANGED committed
    BY <1>8, <2>2 DEF UsePeriod, TypeOK, FlushUsage
  <2> QED
    BY <1>8, <2>1, <2>2 DEF FlushUsage
<1>9. CASE CloseUsageRead(r)
  BY <1>9 DEF CloseUsageRead, CommitInserts, TypeOK
<1>10. CASE CommitUsage(r)
  BY <1>10 DEF CommitUsage, CommitInserts, TypeOK
<1>11. CASE ReportMeter(r) \/ SendAlerts(r) \/ CommitAlerts(r)
  BY <1>11 DEF ReportMeter, SendAlerts, CommitAlerts, TypeOK
<1>12. CASE ReadAlerts(r)
  BY <1>1, <1>12 DEF ReadAlerts, TypeOK, Terminal
<1> QED
  BY <1>2, <1>3, <1>4, <1>5, <1>6, <1>7, <1>8, <1>9, <1>10, <1>11, <1>12 DEF Serve

LEMMA EnvironmentShape ==
    ASSUME TypeOK, Environment
    PROVE  /\ committed' = committed /\ pending' \subseteq pending
           /\ \A q \in Requests : pc'[q] \in InTransaction => pc'[q] = pc[q]
           /\ pending' = {} \/ pc' = pc
<1>1. CASE Crash
  BY <1>1 DEF Crash, TypeOK, InTransaction
<1>2. CASE ~Crash
  BY <1>2 DEF Environment, ChangeTier, NextMonth
<1> QED
  BY <1>1, <1>2

LEMMA RequestKeepsRows ==
    ASSUME RowsInv, TypeOK', NEW r \in Requests, RowsStep(r), ControlStep(r)
    PROVE  RowsInv'
<1>1. SerialPerKey'
  BY DEF RowsInv, SerialPerKey, ControlStep, KeyLocked, SameKey, ByKey
<1>2. PendingIsOpen'
  <2> SUFFICES ASSUME NEW id \in pending' PROVE pc'[id[1]] \in InTransaction
    BY DEF PendingIsOpen
  <2>1. id[1] \in Requests
    BY DEF TypeOK, RowIds
  <2>2. CASE id[1] # r
    BY <2>1, <2>2 DEF RowsInv, PendingIsOpen, RowsStep, ControlStep
  <2>3. CASE id[1] = r
    BY <2>3 DEF RowsInv, PendingIsOpen, RowsStep
  <2> QED
    BY <2>2, <2>3
<1>3. OnePeriodPerKey'
  <2>1. CASE committed' \cup pending' \subseteq committed \cup pending
    BY <2>1 DEF RowsInv, OnePeriodPerKey, SameKey, ByKey
  <2>2. CASE /\ committed' = committed
             /\ Visible(r) = {}
             /\ pending' = pending \cup {<<r, month>>}
             /\ pc'[r] \in InTransaction
    <3>1. ASSUME NEW id \in committed \cup pending, id[2] = month,
                 SameKey(id[1], r) \/ SameKey(r, id[1])
          PROVE  FALSE
      <4>1. id[1] \in Requests /\ id \in pending /\ id[1] # r
        BY <2>2, <3>1 DEF Visible, RowsInv, TypeOK, RowIds
      <4>2. pc'[id[1]] \in InTransaction
        BY <4>1 DEF RowsInv, PendingIsOpen, ControlStep
      <4> QED
        BY <1>1, <2>2, <3>1, <4>1, <4>2 DEF SerialPerKey, SameKey, ByKey
    <3> QED
      BY <2>2, <3>1 DEF RowsInv, OnePeriodPerKey
  <2> QED
    BY <2>1, <2>2 DEF RowsStep
<1> QED
  BY <1>1, <1>2, <1>3 DEF RowsInv

LEMMA NextRows == RowsInv /\ [Next]_vars => RowsInv'
<1> SUFFICES ASSUME RowsInv, [Next]_vars PROVE RowsInv'
  OBVIOUS
<1>0. TypeOK'
  BY NextType DEF RowsInv
<1>1. ASSUME NEW r \in Requests, Start(r) \/ Serve(r) PROVE RowsInv'
  BY <1>0, <1>1, StepShape, RequestKeepsRows DEF RowsInv
<1>2. CASE Environment
  <2>1. SerialPerKey'
    BY <1>2, EnvironmentShape DEF RowsInv, SerialPerKey, SameKey, ByKey
  <2>2. PendingIsOpen'
    BY <1>2, EnvironmentShape DEF RowsInv, PendingIsOpen
  <2>3. OnePeriodPerKey'
    BY <1>2, EnvironmentShape DEF RowsInv, OnePeriodPerKey, SameKey, ByKey
  <2> QED
    BY <1>0, <2>1, <2>2, <2>3 DEF RowsInv
<1>3. CASE UNCHANGED vars
  BY <1>0, <1>3 DEF vars, RowsInv, SerialPerKey, PendingIsOpen, OnePeriodPerKey,
                    SameKey, ByKey
<1> QED
  BY <1>1, <1>2, <1>3 DEF Next

LEMMA RowsInvariant == Spec => []RowsInv
<1>1. Init => RowsInv
  BY InitType DEF Init, RowsInv, SerialPerKey, PendingIsOpen, OnePeriodPerKey,
                  InTransaction
<1> QED
  BY <1>1, NextRows, PTL DEF Spec

(* Two usage_periods rows of one month were never inserted by requests with *)
(* the same API key: the lock closes the gap between the SELECT and the     *)
(* INSERT of get_or_create_usage_period.                                    *)
THEOREM OneRowPerKeyAndMonth == Spec => []OnePeriodPerKey
BY RowsInvariant, PTL DEF RowsInv

(* A customer with one API key and no web session has one row a month, so   *)
(* scalar_one_or_none never raises for it.                                  *)
THEOREM OneRowPerMonthWithOneKey ==
    (\A q, r \in Requests : SameKey(q, r)) => (Spec => []OnePeriodPerMonth)
<1> SUFFICES ASSUME \A q, r \in Requests : SameKey(q, r)
             PROVE  Spec => []OnePeriodPerMonth
  OBVIOUS
<1>1. RowsInv => OnePeriodPerMonth
  BY DEF RowsInv, TypeOK, RowIds, OnePeriodPerKey, OnePeriodPerMonth
<1> QED
  BY <1>1, RowsInvariant, PTL

-----------------------------------------------------------------------------
(* What a request's step does to the columns and to the ledger. *)

\* An allowance has been read and is about to be written.
Recording == {"recording", "overflow", "crediting", "flushed"}

RowStep(r) ==
    \/ /\ UNCHANGED row
       /\ committed' \cup pending' \subseteq committed \cup pending
    \/ /\ Visible(r) = {}
       /\ committed' = committed /\ pending' = pending \cup {<<r, month>>}
       /\ row' = [row EXCEPT ![<<r, month>>] = NewPeriod]
    \/ CommitUsage(r)
    \/ CommitAlerts(r)

\* What was read stays what it was until it is written.
TxnStep(r) ==
    pc'[r] \in Recording =>
        \/ ReadAllowance(r)
        \/ /\ pc[r] \in Recording
           /\ txn'[r].id = txn[r].id /\ txn'[r].new = txn[r].new /\ txn'[r].old = txn[r].old

OthersRest(r) ==
    /\ \A q \in Requests : q # r => pc'[q] = pc[q] /\ txn'[q] = txn[q]
    /\ UNCHANGED <<month, plan>>
    /\ UNCHANGED ledger \/ CommitUsage(r)
    /\ UNCHANGED metered \/ ReportMeter(r)
    /\ UNCHANGED emails \/ SendAlerts(r)

LEMMA RequestStep ==
    ASSUME TypeOK, NEW r \in Requests, Start(r) \/ Serve(r)
    PROVE  RowStep(r) /\ TxnStep(r) /\ OthersRest(r)
<1> USE DEF RowStep, TxnStep, OthersRest, Goto
<1>1. ASSUME NEW outcome \in Terminal, Abort(r, outcome)
      PROVE  RowStep(r) /\ TxnStep(r) /\ OthersRest(r)
  BY <1>1 DEF Abort, TypeOK, Terminal, Recording
<1>2. ASSUME NEW id \in RowIds, UsePeriod(r, id), UNCHANGED committed
      PROVE  RowStep(r)
  BY <1>2 DEF UsePeriod
<1>3. CASE \/ Start(r) \/ SkipUsageCheck(r) \/ TranslateSucceeds(r) \/ CloseUsageRead(r)
           \/ ReportMeter(r)
  BY <1>3 DEF Start, SkipUsageCheck, TranslateSucceeds, CloseUsageRead, CommitInserts,
     ReportMeter, TypeOK, Recording
<1>4. CASE InsertSubscription(r) \/ TranslateFails(r)
  BY <1>1, <1>4 DEF InsertSubscription, TranslateFails, TypeOK, Terminal, Recording
<1>5. CASE CheckUsage(r) \/ ReadUsage(r)
  <2>1. CASE \E outcome \in Terminal : Abort(r, outcome)
    BY <1>1, <2>1
  <2>2. CASE \E id \in RowIds :
               /\ UsePeriod(r, id)
               /\ \E label \in {"translating", "closing"} : Goto(r, label)
               /\ UNCHANGED <<month, sub, subInserted, plan, committed, txn,
                              ledger, metered, emails>>
    BY <1>2, <2>2 DEF TypeOK, Recording
  <2> QED
    BY <1>5, <2>1, <2>2 DEF CheckUsage, ReadUsage, Terminal
<1>6. CASE ReadAllowance(r)
  <2>1. CASE Abort(r, "error")
    BY <1>1, <2>1 DEF Terminal
  <2>2. CASE ~Abort(r, "error")
    <3>1. /\ \E id \in RowIds : UsePeriod(r, id)
          /\ \E label \in {"recording", "overflow"} : pc' = [pc EXCEPT ![r] = label]
          /\ \E t : txn' = [txn EXCEPT ![r] = t]
          /\ UNCHANGED <<month, plan, committed, ledger, metered, emails>>
      BY <1>6, <2>2 DEF ReadAllowance
    <3> QED
      BY <1>2, <1>6, <3>1 DEF TypeOK
  <2> QED
    BY <2>1, <2>2
<1>7. CASE ReadCredits(r)
  BY <1>7 DEF ReadCredits, TypeOK, Recording, Transaction
<1>8. CASE FlushUsage(r)
  <2>1. CASE Abort(r, "error")
    BY <1>1, <2>1 DEF Terminal
  <2>2. CASE /\ \E id \in RowIds : UsePeriod(r, id)
             /\ Goto(r, "flushed")
             /\ UNCHANGED <<month, sub, subInserted, plan, committed, txn, ledger,
                            metered, emails>>
    BY <1>2, <1>8, <2>2 DEF FlushUsage, TypeOK, Recording
  <2> QED
    BY <1>8, <2>1, <2>2 DEF FlushUsage
<1>9. CASE CommitUsage(r)
  BY <1>9 DEF CommitUsage, TypeOK, Recording
<1>10. CASE SendAlerts(r) \/ CommitAlerts(r)
  BY <1>10 DEF SendAlerts, CommitAlerts, TypeOK, Recording
<1>11. CASE ReadAlerts(r)
  <2>1. CASE \E outcome \in Terminal : Abort(r, outcome)
    BY <1>1, <2>1
  <2>2. CASE ~\E outcome \in Terminal : Abort(r, outcome)
    <3>1. /\ \E label \in {"ok", "alerting"} : pc' = [pc EXCEPT ![r] = label]
          /\ \E t : txn' = [txn EXCEPT ![r] = t]
          /\ UNCHANGED <<month, plan, committed, pending, row, ledger, metered, emails>>
      <4>1. txn = [txn EXCEPT ![r] = txn[r]]
        BY DEF TypeOK
      <4> QED
        BY <1>11, <2>2, <4>1 DEF ReadAlerts, Terminal
    <3> QED
      BY <3>1 DEF TypeOK, Recording
  <2> QED
    BY <2>1, <2>2
<1> QED
  BY <1>3, <1>4, <1>5, <1>6, <1>7, <1>8, <1>9, <1>10, <1>11 DEF Serve

\* Rows that are committed keep their columns when another one is inserted.
LEMMA InsertedRowIsNew ==
    ASSUME TypeOK, NEW r \in Requests, Visible(r) = {}
    PROVE  <<r, month>> \in RowIds /\ <<r, month>> \notin committed \cup pending
BY DEF Visible, TypeOK, RowIds

LEMMA CommitUsageRow ==
    ASSUME TypeOK, NEW r \in Requests, CommitUsage(r), NEW id \in RowIds
    PROVE  /\ row'[id].limit = row[id].limit /\ row'[id].alerts = row[id].alerts
           /\ \/ row'[id].used = row[id].used
              \/ id = txn[r].id /\ row'[id].used = txn[r].new
<1> DEFINE i == txn[r].id
<1>1. i \in RowIds /\ txn[r].new \in Nat
  BY DEF TypeOK, Transaction
<1>2. \/ row' = [row EXCEPT ![i] = [row[i] EXCEPT !.used = txn[r].new]]
      \/ row' = row
  BY DEF CommitUsage
<1>3. row[i] \in PeriodRow /\ row[id] \in PeriodRow
  BY <1>1 DEF TypeOK
<1>4. CASE row' = [row EXCEPT ![i] = [row[i] EXCEPT !.used = txn[r].new]]
  <2> DEFINE new == [row[i] EXCEPT !.used = txn[r].new]
  <2>1. new.limit = row[i].limit /\ new.alerts = row[i].alerts /\ new.used = txn[r].new
    BY <1>3 DEF PeriodRow
  <2> HIDE DEF new
  <2>2. row'[id] = IF id = i THEN new ELSE row[id]
    BY <1>4 DEF new, TypeOK
  <2> QED
    BY <2>1, <2>2
<1> QED
  BY <1>2, <1>4

LEMMA CommitAlertsRow ==
    ASSUME TypeOK, NEW r \in Requests, CommitAlerts(r), NEW id \in RowIds
    PROVE  /\ row'[id].limit = row[id].limit /\ row'[id].used = row[id].used
           /\ row'[id].alerts = IF id = txn[r].id THEN row[id].alerts \cup txn[r].alerts
                                ELSE row[id].alerts
<1> DEFINE i == txn[r].id
           new == [row[i] EXCEPT !.alerts = row[i].alerts \cup txn[r].alerts]
<1>1. i \in RowIds /\ row[i] \in PeriodRow
  BY DEF TypeOK, Transaction
<1>2. /\ new.limit = row[i].limit /\ new.used = row[i].used
      /\ new.alerts = row[i].alerts \cup txn[r].alerts
  BY <1>1 DEF PeriodRow
<1>3. row' = [row EXCEPT ![i] = new]
  BY DEF CommitAlerts
<1> HIDE DEF new
<1>4. row'[id] = IF id = i THEN new ELSE row[id]
  BY <1>3 DEF TypeOK
<1> QED
  BY <1>2, <1>4

\* A tier that changes sets the limit of the month's row, and nothing else.
EnvironmentRow ==
    \A id \in RowIds :
        /\ row'[id].used = row[id].used /\ row'[id].alerts = row[id].alerts
        /\ row'[id].limit = row[id].limit \/ row'[id].limit \in Limits

LEMMA EnvironmentStep ==
    ASSUME TypeOK, Environment
    PROVE  /\ EnvironmentRow
           /\ UNCHANGED <<committed, ledger, metered, emails>>
           /\ month' = month \/ (month' = month + 1 /\ UNCHANGED <<pc, txn, row, pending>>)
           /\ \/ UNCHANGED <<pc, txn, pending>>
              \/ /\ \A r \in Requests : pc'[r] \in Terminal \cup {"idle"}
                 /\ \A r \in Requests : pc'[r] = pc[r] \/ pc'[r] = "crashed"
                 /\ pending' = {}
<1>1. ASSUME NEW product \in {"consumer", "b2b"}, NEW limit \in Limits,
             ChangeTier(product, limit)
      PROVE  EnvironmentRow
  <2>1. CASE row' = row
    BY <2>1 DEF EnvironmentRow
  <2>2. ASSUME NEW i \in RowIds, row' = [row EXCEPT ![i].limit = limit]
        PROVE  EnvironmentRow
    <3> DEFINE new == [row[i] EXCEPT !.limit = limit]
    <3>1. new.limit = limit /\ new.alerts = row[i].alerts /\ new.used = row[i].used
      BY DEF TypeOK, PeriodRow
    <3>2. row' = [row EXCEPT ![i] = new]
      BY <2>2
    <3> HIDE DEF new
    <3>3. \A id \in RowIds : row'[id] = IF id = i THEN new ELSE row[id]
      BY <3>2 DEF TypeOK
    <3> QED
      BY <3>1, <3>3 DEF EnvironmentRow
  <2> QED
    BY <1>1, <2>1, <2>2 DEF ChangeTier, SyncPeriodLimit
<1>2. CASE \E product \in {"consumer", "b2b"}, limit \in Limits : ChangeTier(product, limit)
  <2>1. EnvironmentRow
    BY <1>1, <1>2
  <2> QED
    BY <1>2, <2>1 DEF ChangeTier
<1>3. CASE NextMonth
  BY <1>3 DEF NextMonth, EnvironmentRow
<1>4. CASE Crash
  BY <1>4 DEF Crash, EnvironmentRow, TypeOK, Terminal, InTransaction, AfterCommit
<1> QED
  BY <1>2, <1>3, <1>4 DEF Environment, Limits

-----------------------------------------------------------------------------
(* The flags of the quota alerts, whatever the user's requests are. *)

\* A request about to set flags has sent their e-mails.
Flagged ==
    \A r \in Requests : pc[r] = "flagging" =>
        \A t \in txn[r].alerts : emails[txn[r].id[2]][t] > 0

LEMMA TxnRow ==
    ASSUME TypeOK, NEW r \in Requests
    PROVE  /\ txn[r].id \in RowIds /\ txn[r].id[1] \in Requests /\ txn[r].id[2] \in Months
           /\ txn[r].alerts \subseteq Thresholds
           /\ txn[r].new \in Nat /\ txn[r].old \in Nat
BY DEF TypeOK, Transaction, RowIds

LEMMA SendAlertsCounts ==
    ASSUME TypeOK, NEW r \in Requests, SendAlerts(r)
    PROVE  /\ \A m \in Months, t \in Thresholds : emails'[m][t] >= emails[m][t]
           /\ txn'[r].id = txn[r].id /\ txn'[r].alerts \subseteq Thresholds
           /\ \A t \in txn'[r].alerts : emails'[txn[r].id[2]][t] > 0
<1>1. PICK sent \in SUBSET txn[r].alerts :
        /\ txn' = [txn EXCEPT ![r].alerts = sent]
        /\ emails' = [emails EXCEPT ![txn[r].id[2]] =
                        [t \in Thresholds |->
                            IF t \in sent THEN @[t] + 1 ELSE @[t]]]
  BY DEF SendAlerts
<1> DEFINE n == txn[r].id[2]
           counts == [t \in Thresholds |->
                        IF t \in sent THEN emails[n][t] + 1 ELSE emails[n][t]]
           new == [txn[r] EXCEPT !.alerts = sent]
<1>2. /\ n \in Months /\ sent \subseteq Thresholds
      /\ \A m \in Months, t \in Thresholds : emails[m][t] \in Nat
  BY TxnRow DEF TypeOK
<1>3. emails' = [emails EXCEPT ![n] = counts]
  BY <1>1
<1>4. \A t \in Thresholds : counts[t] >= emails[n][t] /\ (t \in sent => counts[t] > 0)
  BY <1>2
<1>5. new.id = txn[r].id /\ new.alerts = sent
  BY DEF TypeOK, Transaction
<1>6. txn' = [txn EXCEPT ![r] = new]
  BY <1>1
<1> HIDE DEF counts, new
<1>7. txn'[r] = new
  BY <1>6 DEF TypeOK
<1>8. \A m \in Months : emails'[m] = IF m = n THEN counts ELSE emails[m]
  BY <1>3 DEF TypeOK
<1> QED
  BY <1>2, <1>4, <1>5, <1>7, <1>8

LEMMA EmailsGrow ==
    ASSUME TypeOK, [Next]_vars
    PROVE  \A m \in Months, t \in Thresholds : emails'[m][t] >= emails[m][t]
<1>0. \A m \in Months, t \in Thresholds : emails[m][t] \in Nat
  BY DEF TypeOK
<1>1. ASSUME NEW r \in Requests, Start(r) \/ Serve(r)
      PROVE  \A m \in Months, t \in Thresholds : emails'[m][t] >= emails[m][t]
  BY <1>0, <1>1, RequestStep, SendAlertsCounts DEF OthersRest
<1>2. CASE Environment
  BY <1>0, <1>2, EnvironmentStep
<1>3. CASE UNCHANGED vars
  BY <1>0, <1>3 DEF vars
<1> QED
  BY <1>1, <1>2, <1>3 DEF Next

\* Only the answer of the mail server leads to the setting of flags.
LEMMA FlaggingStep ==
    ASSUME TypeOK, NEW r \in Requests, Start(r) \/ Serve(r), pc'[r] = "flagging"
    PROVE  SendAlerts(r)
<1> USE DEF TypeOK, Goto
<1>1. ASSUME NEW outcome \in Terminal PROVE ~Abort(r, outcome)
  BY DEF Abort, Terminal
<1>2. ~Abort(r, "error") /\ ~Abort(r, "ok") /\ ~Abort(r, "refused") /\ ~Abort(r, "failed")
  BY <1>1 DEF Terminal
<1>3. /\ ~Start(r) /\ ~InsertSubscription(r) /\ ~SkipUsageCheck(r)
      /\ ~CloseUsageRead(r) /\ ~TranslateSucceeds(r) /\ ~TranslateFails(r)
  BY <1>2 DEF Start, InsertSubscription, SkipUsageCheck, CloseUsageRead,
     TranslateSucceeds, TranslateFails
<1>4. ~CheckUsage(r) /\ ~ReadUsage(r) /\ ~ReadAllowance(r)
  BY <1>2 DEF CheckUsage, ReadUsage, ReadAllowance
<1>5. ~ReadCredits(r) /\ ~FlushUsage(r) /\ ~CommitUsage(r) /\ ~ReportMeter(r)
  BY <1>2 DEF ReadCredits, FlushUsage, CommitUsage, ReportMeter
<1>6. ~ReadAlerts(r) /\ ~CommitAlerts(r)
  BY <1>2 DEF ReadAlerts, CommitAlerts
<1> QED
  BY <1>3, <1>4, <1>5, <1>6 DEF Serve

LEMMA NextFlagged == TypeOK /\ Flagged /\ [Next]_vars => Flagged'
<1> SUFFICES ASSUME TypeOK, Flagged, [Next]_vars, NEW q \in Requests,
                    pc'[q] = "flagging", NEW t \in txn'[q].alerts
             PROVE  emails'[txn'[q].id[2]][t] > 0
  BY DEF Flagged
<1>0. \A m \in Months, u \in Thresholds :
         emails'[m][u] >= emails[m][u] /\ emails[m][u] \in Nat /\ emails'[m][u] \in Nat
  BY EmailsGrow, NextType DEF TypeOK
<1>1. CASE pc[q] = "flagging" /\ txn'[q] = txn[q]
  BY <1>0, <1>1, TxnRow DEF Flagged
<1>2. ASSUME NEW r \in Requests, Start(r) \/ Serve(r)
      PROVE  emails'[txn'[q].id[2]][t] > 0
  <2>1. CASE q # r
    BY <1>1, <1>2, <2>1, RequestStep DEF OthersRest
  <2>2. CASE q = r
    BY <1>2, <2>2, FlaggingStep, SendAlertsCounts
  <2> QED
    BY <2>1, <2>2
<1>3. CASE Environment
  BY <1>1, <1>3, EnvironmentStep DEF Terminal
<1>4. CASE UNCHANGED vars
  BY <1>1, <1>4 DEF vars
<1> QED
  BY <1>2, <1>3, <1>4 DEF Next

LEMMA StepAlerts ==
    ASSUME TypeOK, Flagged, [Next]_vars, NEW id \in committed
    PROVE  /\ row[id].alerts \subseteq row'[id].alerts
           /\ \A t \in row'[id].alerts \ row[id].alerts : emails[id[2]][t] > 0
<1>0. id \in RowIds
  BY DEF TypeOK
<1>1. CASE row'[id] = row[id]
  BY <1>1
<1>2. ASSUME NEW r \in Requests, Start(r) \/ Serve(r)
      PROVE  /\ row[id].alerts \subseteq row'[id].alerts
             /\ \A t \in row'[id].alerts \ row[id].alerts : emails[id[2]][t] > 0
  <2>1. CASE UNCHANGED row
    BY <1>1, <2>1
  <2>2. CASE Visible(r) = {} /\ row' = [row EXCEPT ![<<r, month>>] = NewPeriod]
    <3>1. id # <<r, month>>
      BY <2>2, InsertedRowIsNew
    <3> QED
      BY <1>0, <1>1, <2>2, <3>1 DEF TypeOK
  <2>3. CASE CommitUsage(r)
    BY <1>0, <2>3, CommitUsageRow
  <2>4. CASE CommitAlerts(r)
    BY <1>0, <2>4, CommitAlertsRow DEF Flagged, CommitAlerts
  <2> QED
    BY <1>2, <2>1, <2>2, <2>3, <2>4, RequestStep DEF RowStep
<1>3. CASE Environment
  BY <1>0, <1>3, EnvironmentStep DEF EnvironmentRow
<1>4. CASE UNCHANGED vars
  BY <1>1, <1>4 DEF vars
<1> QED
  BY <1>2, <1>3, <1>4 DEF Next

(* Whatever requests overlap, a flag that is set answers for an e-mail that *)
(* was sent and no stale period object takes it back                        *)
(* (usage_alerts.py:99-111).                                                *)
THEOREM FlagsOnRecord == Spec => AlertsOnRecord
<1>1. Init => Flagged
  BY DEF Init, Flagged
<1>2. TypeOK /\ Flagged /\ [Next]_vars =>
        [\A id \in committed :
           /\ row[id].alerts \subseteq row'[id].alerts
           /\ \A t \in row'[id].alerts \ row[id].alerts : emails[id[2]][t] > 0]_vars
  BY StepAlerts
<1> QED
  BY <1>1, <1>2, InitType, NextType, NextFlagged, PTL DEF Spec, AlertsOnRecord

-----------------------------------------------------------------------------
(* The characters a row shows, whatever the user's requests are. *)

Within(n) == \E limit \in Limits : n <= limit

AllowanceInv ==
    /\ \A id \in committed \cup pending : row[id].limit \in Limits /\ Within(row[id].used)
    /\ \A r \in Requests : pc[r] \in Recording => Within(txn[r].new)

LEMMA LimitsArePositive == \A n \in Limits : n \in Nat /\ n > 0
<1>1. \A n \in Nat \ {0} : n \in Nat /\ n > 0
  OBVIOUS
<1> QED
  BY <1>1, QuantityAssumption DEF Limits

LEMMA NewPeriodWithin ==
    TypeOK => /\ NewPeriod.limit \in Limits /\ NewPeriod.limit > 0
              /\ NewPeriod.used = 0 /\ Within(NewPeriod.used)
<1> SUFFICES ASSUME TypeOK
             PROVE  /\ NewPeriod.limit \in Limits /\ NewPeriod.limit > 0
                    /\ NewPeriod.used = 0 /\ Within(NewPeriod.used)
  OBVIOUS
<1>1. plan.consumer \in ConsumerLimits
  BY DEF TypeOK, Plans
<1>2. plan.consumer \in Limits /\ plan.consumer \in Nat /\ plan.consumer > 0
  BY <1>1, LimitsArePositive DEF Limits
<1>3. NewPeriod.limit = plan.consumer /\ NewPeriod.used = 0
  BY DEF NewPeriod
<1> QED
  BY <1>2, <1>3 DEF Within

\* What get_or_create_usage_period returns.
LEMMA PeriodRead ==
    ASSUME TypeOK, NEW r \in Requests, NEW id \in RowIds, UsePeriod(r, id)
    PROVE  \/ /\ Visible(r) = {id}
              /\ id \in committed \/ (id \in pending /\ id[1] = r)
              /\ id[2] = month
              /\ Period(r, id) = row[id] /\ UNCHANGED <<pending, row>>
           \/ /\ Visible(r) = {} /\ id = <<r, month>>
              /\ Period(r, id) = NewPeriod
              /\ row' = [row EXCEPT ![id] = NewPeriod]
              /\ pending' = pending \cup {id}
BY DEF UsePeriod, Period, Visible

\* What ReadAllowance takes over into the transaction.
LEMMA AllowanceRead ==
    ASSUME TypeOK, NEW r \in Requests, ReadAllowance(r), pc'[r] \in Recording
    PROVE  \E id \in RowIds :
             LET period == Period(r, id) IN
             /\ UsePeriod(r, id)
             /\ UNCHANGED <<month, committed, ledger>>
             /\ txn'[r].id = id /\ txn'[r].old = period.used
             /\ \/ /\ Chars[r] <= Left(period)
                   /\ txn'[r].new = period.used + Chars[r]
                \/ txn'[r].new = period.limit
<1>1. ~Abort(r, "error")
  BY DEF Abort, Goto, TypeOK, Recording
<1>2. PICK id \in RowIds :
        /\ UsePeriod(r, id)
        /\ txn' = [txn EXCEPT ![r] =
             [txn[r] EXCEPT !.id = id, !.old = Period(r, id).used,
                       !.new  = IF Chars[r] <= Left(Period(r, id))
                                THEN Period(r, id).used + Chars[r]
                                ELSE Period(r, id).limit,
                       !.over = IF Chars[r] <= Left(Period(r, id))
                                THEN 0
                                ELSE Chars[r] - Left(Period(r, id))]]
        /\ UNCHANGED <<month, committed, ledger>>
  BY <1>1 DEF ReadAllowance, TypeOK
<1> DEFINE period == Period(r, id)
           fits == Chars[r] <= Left(period)
           new == IF fits THEN period.used + Chars[r] ELSE period.limit
           over == IF fits THEN 0 ELSE Chars[r] - Left(period)
           record == [txn[r] EXCEPT !.id = id, !.old = period.used, !.new = new,
                                    !.over = over]
<1>3. txn'[r] = record
  BY <1>2 DEF TypeOK
<1>4. record.id = id /\ record.old = period.used /\ record.new = new
  <2> HIDE DEF new, over, period
  <2> QED
    BY DEF TypeOK, Transaction
<1>5. \/ fits /\ new = period.used + Chars[r]
      \/ new = period.limit
  OBVIOUS
<1> HIDE DEF record, new, over
<1> QED
  BY <1>2, <1>3, <1>4, <1>5

LEMMA NextAllowance == TypeOK /\ AllowanceInv /\ [Next]_vars => AllowanceInv'
<1> SUFFICES ASSUME TypeOK, AllowanceInv, [Next]_vars PROVE AllowanceInv'
  OBVIOUS
<1> DEFINE Sound(id) == row[id].limit \in Limits /\ Within(row[id].used)
<1>0. /\ committed \cup pending \subseteq RowIds
      /\ \A id \in committed \cup pending : Sound(id)
  BY DEF TypeOK, AllowanceInv
<1>1. ASSUME NEW r \in Requests, Start(r) \/ Serve(r)
      PROVE  AllowanceInv'
  <2>0. RowsStep(r)
    BY <1>1, StepShape
  <2>1. \A id \in committed' \cup pending' : Sound(id)'
    <3>1. CASE UNCHANGED row /\ committed' \cup pending' \subseteq committed \cup pending
      BY <1>0, <3>1 DEF Within
    <3>2. CASE /\ Visible(r) = {}
               /\ committed' = committed /\ pending' = pending \cup {<<r, month>>}
               /\ row' = [row EXCEPT ![<<r, month>>] = NewPeriod]
      <4>1. <<r, month>> \in RowIds /\ <<r, month>> \notin committed \cup pending
        BY <3>2, InsertedRowIsNew
      <4>2. row'[<<r, month>>] = NewPeriod
        BY <3>2, <4>1 DEF TypeOK
      <4>3. \A id \in committed \cup pending : row'[id] = row[id]
        BY <1>0, <3>2, <4>1 DEF TypeOK
      <4> QED
        BY <1>0, <3>2, <4>2, <4>3, NewPeriodWithin DEF Within
    <3>3. CASE CommitUsage(r)
      <4>1. committed' \cup pending' \subseteq committed \cup pending
        BY <3>3 DEF CommitUsage, CommitInserts
      <4>2. Within(txn[r].new)
        BY <3>3 DEF CommitUsage, AllowanceInv, Recording
      <4> QED
        BY <1>0, <3>3, <4>1, <4>2, CommitUsageRow DEF Within
    <3>4. CASE CommitAlerts(r)
      <4>1. UNCHANGED <<committed, pending>>
        BY <3>4 DEF CommitAlerts
      <4> QED
        BY <1>0, <3>4, <4>1, CommitAlertsRow DEF Within
    <3> QED
      BY <1>1, <3>1, <3>2, <3>3, <3>4, RequestStep DEF RowStep
  <2>2. ASSUME NEW q \in Requests, pc'[q] \in Recording PROVE Within(txn'[q].new)
    <3>1. CASE pc[q] \in Recording /\ txn'[q].new = txn[q].new
      BY <3>1 DEF AllowanceInv, Within
    <3>2. CASE q # r
      BY <1>1, <2>2, <3>1, <3>2, RequestStep DEF OthersRest
    <3>3. CASE q = r /\ ReadAllowance(r)
      <4>1. PICK id \in RowIds :
              LET period == Period(r, id) IN
              /\ UsePeriod(r, id)
              /\ \/ Chars[r] <= Left(period) /\ txn'[r].new = period.used + Chars[r]
                 \/ txn'[r].new = period.limit
        BY <2>2, <3>3, AllowanceRead
      <4>2. Period(r, id).limit \in Limits /\ Period(r, id).used \in Nat
        BY <1>0, <4>1, PeriodRead, NewPeriodWithin, UsePeriodType DEF PeriodRow
      <4>3. Period(r, id).limit \in Nat
        BY <4>2 DEF Limits
      <4> QED
        BY <3>3, <4>1, <4>2, <4>3 DEF Left, Within
    <3> QED
      BY <1>1, <2>2, <3>1, <3>2, <3>3, RequestStep DEF TxnStep
  <2> QED
    BY <2>1, <2>2 DEF AllowanceInv
<1>2. CASE Environment
  <2>1. /\ EnvironmentRow /\ committed' = committed /\ pending' \subseteq pending
        /\ \A q \in Requests : pc'[q] \in Recording => pc'[q] = pc[q] /\ txn'[q] = txn[q]
    BY <1>2, EnvironmentStep DEF Recording, Terminal
  <2> QED
    BY <1>0, <2>1 DEF EnvironmentRow, AllowanceInv, Within
<1>3. CASE UNCHANGED vars
  BY <1>3 DEF vars, AllowanceInv, Within
<1> QED
  BY <1>1, <1>2, <1>3 DEF Next
-----------------------------------------------------------------------------
(* What is billed: the record of a request and its meter event. *)

\* The customer has one API key and no web session.
OneKey == \A q, r \in Requests : SameKey(q, r)

BilledInv ==
    \A r \in Requests :
        /\ r \in metered => recorded[r] # 0
        /\ pc[r] \in AfterCommit => recorded[r] # 0
        /\ recorded[r] # 0 => \/ pc[r] \in AfterCommit \cup {"ok", "crashed"}
                              \/ pc[r] = "error" /\ ~OneKey

\* A request is recorded by its commit; what comes after it cannot fail while
\* the month has one row.
RecordStep(r) ==
    \/ /\ CommitUsage(r)
       /\ recorded' = [recorded EXCEPT ![r] = txn[r].id[2]]
       /\ pc'[r] \in {"committed", "ok"} /\ metered' = metered
    \/ /\ pc[r] = "committed" /\ pc'[r] = "metered"
       /\ recorded' = recorded /\ metered' \subseteq metered \cup {r}
    \/ /\ UNCHANGED <<recorded, metered>>
       /\ \/ /\ pc[r] \notin AfterCommit \cup Terminal
             /\ pc'[r] \notin AfterCommit
          \/ /\ pc[r] \in AfterCommit
             /\ pc'[r] \in AfterCommit \cup {"ok"} \/ (pc'[r] = "error" /\ Ambiguous(r))

LEMMA RecordShape ==
    ASSUME TypeOK, NEW r \in Requests, Start(r) \/ Serve(r)
    PROVE  RecordStep(r)
<1> USE DEF RecordStep, TypeOK, Goto, ledger
<1>0. UNCHANGED ledger => UNCHANGED recorded
  OBVIOUS
<1>1. ASSUME NEW outcome \in Terminal, Abort(r, outcome),
             pc[r] \notin AfterCommit \cup Terminal
      PROVE  RecordStep(r)
  BY <1>1 DEF Abort, AfterCommit, Terminal
<1>2. CASE Start(r) \/ SkipUsageCheck(r) \/ TranslateSucceeds(r) \/ CloseUsageRead(r)
           \/ ReadCredits(r)
  BY <1>2 DEF Start, SkipUsageCheck, TranslateSucceeds, CloseUsageRead, ReadCredits,
     AfterCommit, Terminal
<1>3. CASE InsertSubscription(r) \/ TranslateFails(r)
  BY <1>1, <1>3 DEF InsertSubscription, TranslateFails, AfterCommit, Terminal
<1>4. CASE CheckUsage(r) \/ ReadUsage(r) \/ ReadAllowance(r) \/ FlushUsage(r)
  <2>1. pc[r] \notin AfterCommit \cup Terminal
    BY <1>4 DEF CheckUsage, ReadUsage, ReadAllowance, FlushUsage, AfterCommit, Terminal
  <2>2. \/ Abort(r, "error") \/ Abort(r, "refused")
        \/ /\ UNCHANGED <<ledger, metered>>
           /\ \E label \in {"translating", "closing", "recording", "overflow", "flushed"} :
                 pc' = [pc EXCEPT ![r] = label]
    BY <1>4 DEF CheckUsage, ReadUsage, ReadAllowance, FlushUsage
  <2> QED
    BY <1>1, <2>1, <2>2 DEF AfterCommit, Terminal
<1>5. CASE CommitUsage(r)
  BY <1>5 DEF CommitUsage
<1>6. CASE ReportMeter(r)
  BY <1>6 DEF ReportMeter
<1>7. CASE ReadAlerts(r)
  BY <1>7 DEF ReadAlerts, Abort, AfterCommit
<1>8. CASE SendAlerts(r) \/ CommitAlerts(r)
  BY <1>8 DEF SendAlerts, CommitAlerts, AfterCommit
<1> QED
  BY <1>2, <1>3, <1>4, <1>5, <1>6, <1>7, <1>8 DEF Serve

\* With one key, a request sees at most one row of the month.
LEMMA NeverAmbiguous ==
    ASSUME RowsInv, OneKey, NEW r \in Requests
    PROVE  ~Ambiguous(r)
BY DEF RowsInv, TypeOK, RowIds, OnePeriodPerKey, OneKey, Ambiguous, Visible

LEMMA NextBilled == RowsInv /\ BilledInv /\ [Next]_vars => BilledInv'
<1> SUFFICES ASSUME RowsInv, BilledInv, [Next]_vars, NEW q \in Requests
             PROVE  (/\ q \in metered => recorded[q] # 0
                     /\ pc[q] \in AfterCommit => recorded[q] # 0
                     /\ recorded[q] # 0 => \/ pc[q] \in AfterCommit \cup {"ok", "crashed"}
                                           \/ pc[q] = "error" /\ ~OneKey)'
  BY DEF BilledInv
<1>0. TypeOK
  BY DEF RowsInv
<1>1. CASE pc'[q] = pc[q] /\ recorded'[q] = recorded[q] /\ (q \in metered' => q \in metered)
  BY <1>1 DEF BilledInv, OneKey, SameKey, ByKey
<1>2. ASSUME NEW r \in Requests, Start(r) \/ Serve(r), q # r
      PROVE  /\ pc'[q] = pc[q] /\ recorded'[q] = recorded[q]
             /\ q \in metered' => q \in metered
  <2>1. RecordStep(r) /\ pc'[q] = pc[q]
    BY <1>0, <1>2, RecordShape, StepShape DEF ControlStep
  <2>2. recorded \in [Requests -> Months \cup {0}]
    BY <1>0 DEF TypeOK
  <2> QED
    BY <1>2, <2>1, <2>2 DEF RecordStep
<1>3. CASE Start(q) \/ Serve(q)
  <2>1. CASE CommitUsage(q) /\ recorded' = [recorded EXCEPT ![q] = txn[q].id[2]]
             /\ pc'[q] \in {"committed", "ok"} /\ metered' = metered
    <3>1. recorded'[q] # 0
      <4>1. \A m \in Months : m # 0
        BY DEF Months
      <4>2. recorded'[q] = txn[q].id[2]
        BY <1>0, <2>1 DEF TypeOK
      <4> QED
        BY <1>0, <4>1, <4>2, TxnRow
    <3> QED
      BY <2>1, <3>1 DEF AfterCommit
  <2>2. CASE pc[q] = "committed" /\ pc'[q] = "metered" /\ recorded' = recorded
    BY <2>2 DEF BilledInv, AfterCommit
  <2>3. CASE /\ UNCHANGED <<recorded, metered>>
             /\ pc[q] \notin AfterCommit \cup Terminal /\ pc'[q] \notin AfterCommit
    BY <2>3 DEF BilledInv, Terminal
  <2>4. CASE /\ UNCHANGED <<recorded, metered>>
             /\ pc[q] \in AfterCommit
             /\ pc'[q] \in AfterCommit \cup {"ok"} \/ (pc'[q] = "error" /\ Ambiguous(q))
    BY <2>4, NeverAmbiguous DEF BilledInv
  <2> QED
    BY <1>0, <1>3, <2>1, <2>2, <2>3, <2>4, RecordShape DEF RecordStep
<1>4. CASE Environment
  <2>1. /\ pc'[q] = pc[q] \/ pc'[q] = "crashed"
        /\ UNCHANGED <<recorded, metered>>
    BY <1>0, <1>4, EnvironmentStep DEF ledger
  <2> QED
    BY <1>1, <2>1 DEF BilledInv, AfterCommit
<1>5. CASE UNCHANGED vars
  BY <1>1, <1>5 DEF vars, ledger
<1> QED
  BY <1>1, <1>2, <1>3, <1>4, <1>5 DEF Next

LEMMA BilledInvariant == Spec => []BilledInv
<1>1. Init => BilledInv
  BY DEF Init, BilledInv, AfterCommit
<1> QED
  BY <1>1, RowsInvariant, NextBilled, PTL DEF Spec

(* Whatever the user's requests are: the meter never runs ahead of the      *)
(* committed record, and a request that was refused (429) or whose          *)
(* translation failed is neither recorded nor metered (public.py:316-333).  *)
THEOREM MeterFollowsRecord ==
    Spec => [](\A r \in Requests :
                 /\ r \in metered => recorded[r] # 0
                 /\ pc[r] \in {"refused", "failed"} => recorded[r] = 0 /\ r \notin metered)
<1>1. BilledInv => \A r \in Requests :
                     /\ r \in metered => recorded[r] # 0
                     /\ pc[r] \in {"refused", "failed"} =>
                          recorded[r] = 0 /\ r \notin metered
  BY DEF BilledInv, AfterCommit
<1> QED
  BY <1>1, BilledInvariant, PTL

(* With one key nothing fails after the commit either, so that no error     *)
(* answers a request that was recorded or metered (usage_alerts.py:76-82    *)
(* runs outside a try after it).                                            *)
THEOREM NoErrorIsBilled == OneKey => (Spec => []NothingBilledForNothing)
<1> SUFFICES ASSUME OneKey PROVE Spec => []NothingBilledForNothing
  OBVIOUS
<1>1. BilledInv => NothingBilledForNothing
  BY DEF BilledInv, NothingBilledForNothing, AfterCommit
<1> QED
  BY <1>1, BilledInvariant, PTL

-----------------------------------------------------------------------------
(* One key: what a transaction has read is still so when it writes. *)

\* The row a transaction read is committed, or its own.
HoldsRow(r) == txn[r].id \in committed \/ (txn[r].id \in pending /\ txn[r].id[1] = r)

ReadIsCurrent(r) ==
    pc[r] \in Recording =>
        /\ HoldsRow(r)
        /\ txn[r].old = row[txn[r].id].used
        /\ txn[r].new >= txn[r].old \/ txn[r].new \in Limits

\* There are credits, or something is left of one of the allowances.
Spare(id) == credits = 0 => \E limit \in Limits : row[id].used < limit

\* A request past the check of the usage will use what was left then.
Checked(r) ==
    /\ pc[r] \in {"translating", "translated"} =>
          \A id \in committed \cup pending : id[2] = month => Spare(id)
    /\ pc[r] \in Recording => Spare(txn[r].id)

PastMonths == \A id \in committed \cup pending : id[2] <= month

OneKeyInv ==
    /\ RowsInv /\ AllowanceInv
    /\ PastMonths
    /\ \A r \in Requests : ReadIsCurrent(r) /\ Checked(r)

\* While a request is in its transaction the others only report and alert.
LEMMA Bystander ==
    ASSUME RowsInv, OneKey, NEW r \in Requests, NEW q \in Requests, q # r,
           Start(r) \/ Serve(r), pc[q] \in InTransaction
    PROVE  /\ UNCHANGED <<month, committed, pending, credits>>
           /\ \A id \in RowIds : row'[id].used = row[id].used
           /\ pc'[q] = pc[q] /\ txn'[q] = txn[q]
<1>0. TypeOK /\ TypeOK'
  <2>1. [Next]_vars
    BY DEF Next
  <2> QED
    BY <2>1, NextType DEF RowsInv
<1>1. pc[r] \notin InTransaction
  BY DEF RowsInv, SerialPerKey, OneKey
<1>2. KeyLocked(r)
  BY DEF KeyLocked, OneKey, SameKey
<1>3. ~Start(r)
  BY <1>2 DEF Start
<1>4. ReportMeter(r) \/ ReadAlerts(r) \/ SendAlerts(r) \/ CommitAlerts(r)
  <2>1. pc[r] \notin {"inserting", "resolved", "closing", "translating", "translated",
                      "overflow", "recording", "crediting", "flushed"}
    BY <1>1 DEF InTransaction
  <2>2. /\ ~InsertSubscription(r) /\ ~SkipUsageCheck(r) /\ ~CheckUsage(r)
        /\ ~ReadUsage(r) /\ ~CloseUsageRead(r) /\ ~TranslateSucceeds(r)
        /\ ~TranslateFails(r) /\ ~ReadAllowance(r)
    BY <2>1 DEF InsertSubscription, SkipUsageCheck, CheckUsage, ReadUsage,
       CloseUsageRead, TranslateSucceeds, TranslateFails, ReadAllowance
  <2>3. ~ReadCredits(r) /\ ~FlushUsage(r) /\ ~CommitUsage(r)
    BY <2>1 DEF ReadCredits, FlushUsage, CommitUsage
  <2> QED
    BY <1>3, <2>2, <2>3 DEF Serve
<1>5. \A outcome : Abort(r, outcome) =>
        UNCHANGED <<month, committed, pending, credits, row>>
  BY <1>1 DEF Abort, RowsInv, PendingIsOpen, ledger
<1>6. UNCHANGED <<month, committed, pending, credits>>
  BY <1>4, <1>5 DEF ReportMeter, ReadAlerts, SendAlerts, CommitAlerts, ledger
<1>7. UNCHANGED row \/ CommitAlerts(r)
  BY <1>4, <1>5 DEF ReportMeter, ReadAlerts, SendAlerts
<1> QED
  BY <1>0, <1>6, <1>7, CommitAlertsRow, RequestStep DEF OthersRest

\* A row a transaction holds keeps its columns when another row is inserted.
LEMMA HeldRowRests ==
    ASSUME TypeOK, NEW r \in Requests, NEW id \in committed \cup pending,
           UNCHANGED row \/ (Visible(r) = {} /\ row' = [row EXCEPT ![<<r, month>>] = NewPeriod])
    PROVE  row'[id] = row[id]
<1>1. id \in RowIds
  BY DEF TypeOK
<1>2. CASE Visible(r) = {} /\ row' = [row EXCEPT ![<<r, month>>] = NewPeriod]
  <2>1. id # <<r, month>>
    BY <1>2, InsertedRowIsNew
  <2> QED
    BY <1>1, <1>2, <2>1 DEF TypeOK
<1> QED
  BY <1>2

\* With one key, what a transaction sees is all there is.
LEMMA SeesAll ==
    ASSUME RowsInv, OneKey, NEW r \in Requests, pc[r] \in InTransaction
    PROVE  /\ Visible(r) = {id \in committed \cup pending : id[2] = month}
           /\ \A id \in pending : id[1] = r
BY DEF RowsInv, TypeOK, RowIds, PendingIsOpen, SerialPerKey, OneKey, Visible

\* How a request comes to translate, and to record: each step reads, or keeps.
LEMMA OwnStep ==
    ASSUME RowsInv, OneKey, NEW r \in Requests, Start(r) \/ Serve(r)
    PROVE  /\ pc'[r] \in {"translating", "translated"} =>
                \/ CheckUsage(r)
                \/ /\ pc[r] = "translating"
                   /\ UNCHANGED <<month, committed, pending, row, credits>>
           /\ pc'[r] \in Recording =>
                \/ ReadAllowance(r)
                \/ /\ pc[r] \in Recording
                   /\ UNCHANGED <<month, committed, credits>>
                   /\ pending \subseteq pending'
                   /\ \/ UNCHANGED row
                      \/ Visible(r) = {} /\ row' = [row EXCEPT ![<<r, month>>] = NewPeriod]
<1> USE DEF RowsInv, TypeOK, Goto, ledger
<1>1. ByKey(r)
  BY DEF OneKey, SameKey
<1>2. \A outcome \in Terminal : Abort(r, outcome) =>
        pc'[r] \notin Recording \cup {"translating", "translated"}
  BY DEF Abort, Recording, Terminal
<1> USE DEF Recording
<1>3. CASE \/ Start(r) \/ InsertSubscription(r) \/ SkipUsageCheck(r) \/ CloseUsageRead(r)
           \/ TranslateSucceeds(r) \/ TranslateFails(r)
  BY <1>1, <1>2, <1>3 DEF Start, InsertSubscription, SkipUsageCheck, CloseUsageRead,
     TranslateSucceeds, TranslateFails, Terminal
<1>4. CASE CheckUsage(r) \/ ReadUsage(r)
  BY <1>2, <1>4 DEF CheckUsage, ReadUsage, Terminal
<1>5. CASE ReadAllowance(r)
  BY <1>2, <1>5 DEF ReadAllowance, Terminal
<1>6. CASE ReadCredits(r) \/ CommitUsage(r)
  BY <1>6 DEF ReadCredits, CommitUsage
<1>7. CASE FlushUsage(r)
  <2>1. CASE Abort(r, "error")
    BY <1>2, <2>1 DEF Terminal
  <2>2. CASE ~Abort(r, "error")
    <3>1. /\ pc[r] \in Recording /\ pc' = [pc EXCEPT ![r] = "flushed"]
          /\ UNCHANGED <<month, committed, credits>>
          /\ \E id \in RowIds : UsePeriod(r, id)
      BY <1>7, <2>2 DEF FlushUsage
    <3>2. /\ pending \subseteq pending'
          /\ \/ UNCHANGED row
             \/ Visible(r) = {} /\ row' = [row EXCEPT ![<<r, month>>] = NewPeriod]
      BY <3>1 DEF UsePeriod
    <3> QED
      BY <3>1, <3>2
  <2> QED
    BY <2>1, <2>2
<1>8. CASE ReportMeter(r) \/ SendAlerts(r) \/ CommitAlerts(r)
  BY <1>8 DEF ReportMeter, SendAlerts, CommitAlerts
<1>9. CASE ReadAlerts(r)
  BY <1>2, <1>9 DEF ReadAlerts, Terminal
<1> QED
  BY <1>3, <1>4, <1>5, <1>6, <1>7, <1>8, <1>9 DEF Serve

\* What get_or_create_usage_period leaves in the table.
LEMMA PeriodLeft ==
    ASSUME TypeOK, AllowanceInv, NEW r \in Requests, NEW id \in RowIds, UsePeriod(r, id)
    PROVE  /\ row'[id] = Period(r, id)
           /\ Period(r, id).limit \in Limits /\ Period(r, id).limit \in Nat
           /\ Period(r, id).used \in Nat
           /\ \A i \in committed \cup pending : row'[i] = row[i]
           /\ id \in committed \/ (id \in pending' /\ id[1] = r)
           /\ id[2] = month
<1>1. Period(r, id).used \in Nat /\ Period(r, id).limit \in Nat
  BY UsePeriodType DEF PeriodRow
<1>2. CASE Visible(r) = {id} /\ Period(r, id) = row[id] /\ UNCHANGED <<pending, row>>
           /\ (id \in committed \/ (id \in pending /\ id[1] = r)) /\ id[2] = month
  BY <1>1, <1>2 DEF AllowanceInv
<1>3. CASE /\ Visible(r) = {} /\ id = <<r, month>>
           /\ Period(r, id) = NewPeriod
           /\ row' = [row EXCEPT ![id] = NewPeriod]
           /\ pending' = pending \cup {id}
  <2>1. row'[id] = NewPeriod
    BY <1>3 DEF TypeOK
  <2>2. \A i \in committed \cup pending : row'[i] = row[i]
    BY <1>3, HeldRowRests
  <2> QED
    BY <1>1, <1>3, <2>1, <2>2, NewPeriodWithin
<1> QED
  BY <1>2, <1>3, PeriodRead

\* A check that is passed finds credits or something left.
LEMMA CheckSpares ==
    ASSUME OneKeyInv, OneKey, NEW r \in Requests, CheckUsage(r),
           pc'[r] \in {"translating", "translated"},
           NEW id \in committed' \cup pending', id[2] = month'
    PROVE  Spare(id)'
<1>0. TypeOK /\ RowsInv /\ AllowanceInv
  BY DEF OneKeyInv, RowsInv
<1>1. ~Abort(r, "error") /\ ~Abort(r, "refused")
  BY <1>0 DEF Abort, Goto, TypeOK
<1>2. PICK i \in RowIds :
        /\ CanTranslate(Period(r, i)) /\ UsePeriod(r, i)
        /\ UNCHANGED <<month, committed, credits>>
  BY <1>1 DEF CheckUsage, ledger
<1>3. id = i
  <2>1. pc[r] \in InTransaction
    BY DEF CheckUsage, InTransaction
  <2>2. Visible(r) = {j \in committed \cup pending : j[2] = month}
    BY <1>0, <2>1, SeesAll
  <2>3. CASE Visible(r) = {i} /\ UNCHANGED pending
    BY <1>2, <2>2, <2>3
  <2>4. CASE Visible(r) = {} /\ pending' = pending \cup {i}
    BY <1>2, <2>2, <2>4
  <2> QED
    BY <1>0, <1>2, <2>3, <2>4, PeriodRead
<1>4. credits = 0 => Period(r, i).used < Period(r, i).limit
  BY <1>0, <1>2, PeriodLeft DEF CanTranslate, Left
<1> QED
  BY <1>0, <1>2, <1>3, <1>4, PeriodLeft DEF Spare

\* The allowance read is the row's, and something of it is left.
LEMMA ReadSpares ==
    ASSUME OneKeyInv, OneKey, NEW r \in Requests, ReadAllowance(r), pc'[r] \in Recording
    PROVE  ReadIsCurrent(r)' /\ Spare(txn[r].id)'
<1>0. TypeOK /\ RowsInv /\ AllowanceInv
  BY DEF OneKeyInv, RowsInv
<1>1. PICK id \in RowIds :
        LET period == Period(r, id) IN
        /\ UsePeriod(r, id)
        /\ UNCHANGED <<month, committed, ledger>>
        /\ txn'[r].id = id /\ txn'[r].old = period.used
        /\ \/ /\ Chars[r] <= Left(period)
              /\ txn'[r].new = period.used + Chars[r]
           \/ txn'[r].new = period.limit
  BY <1>0, AllowanceRead
<1> DEFINE period == Period(r, id)
<1>2. /\ row'[id] = period /\ period.limit \in Limits
      /\ period.used \in Nat /\ period.limit \in Nat
      /\ id \in committed' \/ (id \in pending' /\ id[1] = r)
  BY <1>0, <1>1, PeriodLeft
<1>3. Chars[r] \in Nat
  BY QuantityAssumption
<1>4. ReadIsCurrent(r)'
  <2>1. txn'[r].new >= period.used \/ txn'[r].new \in Limits
    BY <1>1, <1>2, <1>3
  <2> QED
    BY <1>1, <1>2, <2>1 DEF ReadIsCurrent, HoldsRow
<1>5. credits = 0 => \E limit \in Limits : period.used < limit
  <2>1. CASE Visible(r) = {id} /\ id \in committed \cup pending /\ period = row[id]
             /\ id[2] = month
    <3>1. pc[r] = "translated"
      BY DEF ReadAllowance
    <3>2. Spare(id)
      BY <2>1, <3>1 DEF OneKeyInv, Checked
    <3> QED
      BY <2>1, <3>2 DEF Spare
  <2>2. CASE period = NewPeriod
    BY <2>2, <1>0, NewPeriodWithin
  <2> QED
    BY <1>0, <1>1, <2>1, <2>2, PeriodRead
<1>6. credits' = credits
  BY <1>1 DEF ledger
<1> QED
  BY <1>1, <1>2, <1>4, <1>5, <1>6 DEF Spare

LEMMA RequestKeepsOneKey ==
    ASSUME OneKeyInv, RowsInv', AllowanceInv', OneKey, NEW r \in Requests, Start(r) \/ Serve(r)
    PROVE  OneKeyInv'
<1>0. TypeOK /\ RowsInv /\ AllowanceInv /\ TypeOK' /\ RowsInv'
  BY DEF OneKeyInv, RowsInv
<1>1. PastMonths'
  <2>1. month' = month
    BY <1>0, RequestStep DEF OthersRest
  <2>2. \A id \in committed' \cup pending' : id \in committed \cup pending \/ id = <<r, month>>
    BY <1>0, StepShape DEF RowsStep
  <2>3. \A id \in committed' \cup pending' : id[2] <= month
    BY <1>0, <2>2 DEF OneKeyInv, PastMonths, TypeOK, Months
  <2> QED
    BY <2>1, <2>3 DEF PastMonths
<1>2. ASSUME NEW q \in Requests, q # r PROVE ReadIsCurrent(q)' /\ Checked(q)'
  <2>1. pc'[q] = pc[q]
    BY <1>0, <1>2, StepShape DEF ControlStep
  <2>2. CASE pc[q] \notin InTransaction
    BY <2>1, <2>2 DEF ReadIsCurrent, Checked, Recording, InTransaction
  <2>3. CASE pc[q] \in InTransaction
    <3>1. /\ UNCHANGED <<month, committed, pending, credits>>
          /\ \A id \in RowIds : row'[id].used = row[id].used
          /\ txn'[q] = txn[q]
      BY <1>0, <1>2, <2>3, Bystander
    <3>2. txn[q].id \in RowIds /\ committed \cup pending \subseteq RowIds
      BY <1>0, TxnRow DEF TypeOK
    <3>3. \A id \in RowIds : Spare(id) => Spare(id)'
      BY <3>1 DEF Spare
    <3>4. ReadIsCurrent(q)'
      BY <2>1, <3>1, <3>2 DEF OneKeyInv, ReadIsCurrent, HoldsRow
    <3>5. Checked(q)'
      BY <2>1, <3>1, <3>2, <3>3 DEF OneKeyInv, Checked
    <3> QED
      BY <3>4, <3>5
  <2> QED
    BY <2>2, <2>3
<1>3. ReadIsCurrent(r)' /\ Checked(r)'
  <2>1. CASE pc'[r] \in {"translating", "translated"}
    <3>1. pc'[r] \notin Recording
      BY <2>1 DEF Recording
    <3>2. ASSUME NEW id \in committed' \cup pending', id[2] = month' PROVE Spare(id)'
      <4>1. CASE CheckUsage(r)
        BY <2>1, <3>2, <4>1, CheckSpares
      <4>2. CASE /\ pc[r] = "translating"
                 /\ UNCHANGED <<month, committed, pending, row, credits>>
        BY <3>2, <4>2 DEF OneKeyInv, Checked, Spare
      <4> QED
        BY <1>0, <2>1, <4>1, <4>2, OwnStep
    <3> QED
      BY <3>1, <3>2 DEF ReadIsCurrent, Checked
  <2>2. CASE pc'[r] \in Recording
    <3>1. pc'[r] \notin {"translating", "translated"}
      BY <2>2 DEF Recording
    <3>2. ReadIsCurrent(r)' /\ Spare(txn[r].id)'
      <4>1. CASE ReadAllowance(r)
        BY <2>2, <4>1, ReadSpares
      <4>2. CASE /\ ~ReadAllowance(r) /\ pc[r] \in Recording
                 /\ UNCHANGED <<month, committed, credits>>
                 /\ pending \subseteq pending'
                 /\ \/ UNCHANGED row
                    \/ /\ Visible(r) = {}
                       /\ row' = [row EXCEPT ![<<r, month>>] = NewPeriod]
        <5>1. ReadIsCurrent(r) /\ Spare(txn[r].id) /\ HoldsRow(r)
          BY <4>2 DEF OneKeyInv, Checked, ReadIsCurrent
        <5>2. /\ txn'[r].id = txn[r].id
              /\ txn'[r].new = txn[r].new /\ txn'[r].old = txn[r].old
          BY <1>0, <2>2, <4>2, RequestStep DEF TxnStep
        <5>3. row'[txn[r].id] = row[txn[r].id]
          BY <1>0, <4>2, <5>1, HeldRowRests DEF HoldsRow
        <5>4. Spare(txn[r].id)'
          BY <4>2, <5>1, <5>2, <5>3 DEF Spare
        <5>5. ReadIsCurrent(r)'
          BY <4>2, <5>1, <5>2, <5>3 DEF ReadIsCurrent, HoldsRow
        <5> QED
          BY <5>4, <5>5
      <4> QED
        BY <1>0, <2>2, <4>1, <4>2, OwnStep
    <3> QED
      BY <3>1, <3>2 DEF Checked
  <2>3. CASE pc'[r] \notin Recording \cup {"translating", "translated"}
    BY <2>3 DEF ReadIsCurrent, Checked
  <2> QED
    BY <2>1, <2>2, <2>3
<1> QED
  BY <1>1, <1>2, <1>3 DEF OneKeyInv

LEMMA EnvironmentKeepsOneKey ==
    ASSUME OneKeyInv, RowsInv', AllowanceInv', OneKey, Environment
    PROVE  OneKeyInv'
<1>0. TypeOK
  BY DEF OneKeyInv, RowsInv
<1>1. /\ EnvironmentRow
      /\ UNCHANGED <<committed, credits>>
      /\ month' = month \/ (month' = month + 1 /\ UNCHANGED <<pc, txn, row, pending>>)
      /\ \/ UNCHANGED <<pc, txn, pending>>
         \/ (\A r \in Requests : pc'[r] \in Terminal \cup {"idle"}) /\ pending' = {}
  BY <1>0, EnvironmentStep DEF ledger
<1>2. committed \cup pending \subseteq RowIds /\ \A r \in Requests : txn[r].id \in RowIds
  BY <1>0, TxnRow DEF TypeOK
<1>3. PastMonths'
  <2>1. \A id \in committed \cup pending : id[2] \in Nat /\ id[2] <= month /\ month \in Nat
    BY <1>0, <1>2 DEF OneKeyInv, PastMonths, RowIds, Months, TypeOK
  <2> QED
    BY <1>1, <2>1 DEF PastMonths
<1>4. ASSUME NEW r \in Requests PROVE ReadIsCurrent(r)' /\ Checked(r)'
  <2>1. CASE UNCHANGED <<pc, txn, pending>>
    <3>1. \A id \in RowIds : row'[id].used = row[id].used
      BY <1>1 DEF EnvironmentRow
    <3>2. \A id \in RowIds : Spare(id) => Spare(id)'
      BY <1>1, <3>1 DEF Spare
    <3>3. ReadIsCurrent(r)'
      BY <1>1, <1>2, <2>1, <3>1 DEF OneKeyInv, ReadIsCurrent, HoldsRow
    <3>4. pc[r] \in Recording => Spare(txn[r].id)'
      BY <1>2, <2>1, <3>2 DEF OneKeyInv, Checked
    <3>5. ASSUME pc[r] \in {"translating", "translated"},
                 NEW id \in committed \cup pending, id[2] = month'
          PROVE  Spare(id)'
      <4>1. id[2] <= month /\ month \in Nat
        BY <1>0, <3>5 DEF OneKeyInv, PastMonths, TypeOK, Months
      <4>2. month' = month
        BY <1>1, <3>5, <4>1
      <4> QED
        BY <1>2, <3>2, <3>5, <4>2 DEF OneKeyInv, Checked
    <3> QED
      BY <1>1, <2>1, <3>3, <3>4, <3>5 DEF Checked
  <2>2. CASE pc'[r] \in Terminal \cup {"idle"}
    BY <2>2 DEF ReadIsCurrent, Checked, Recording, Terminal
  <2> QED
    BY <1>1, <2>1, <2>2
<1> QED
  BY <1>3, <1>4 DEF OneKeyInv

LEMMA NextOneKey == OneKey /\ OneKeyInv /\ [Next]_vars => OneKeyInv'
<1> SUFFICES ASSUME OneKey, OneKeyInv, [Next]_vars PROVE OneKeyInv'
  OBVIOUS
<1>1. RowsInv' /\ AllowanceInv'
  BY NextRows, NextAllowance DEF OneKeyInv, RowsInv
<1>2. CASE \E r \in Requests : Start(r) \/ Serve(r)
  BY <1>1, <1>2, RequestKeepsOneKey
<1>3. CASE Environment
  BY <1>1, <1>3, EnvironmentKeepsOneKey
<1>4. CASE UNCHANGED vars
  BY <1>1, <1>4 DEF OneKeyInv, PastMonths, ReadIsCurrent, HoldsRow, Checked, Spare,
                    vars, ledger
<1> QED
  BY <1>2, <1>3, <1>4 DEF Next

LEMMA OneKeyInvariant == OneKey => (Spec => []OneKeyInv)
<1> SUFFICES ASSUME OneKey PROVE Spec => []OneKeyInv
  OBVIOUS
<1>1. Init => RowsInv
  BY InitType DEF Init, RowsInv, SerialPerKey, PendingIsOpen, OnePeriodPerKey,
                  InTransaction
<1>2. Init => OneKeyInv
  BY <1>1 DEF Init, OneKeyInv, AllowanceInv, PastMonths, ReadIsCurrent, Checked, Recording
<1>3. OneKeyInv /\ [Next]_vars => OneKeyInv'
  BY NextOneKey
<1> QED
  BY <1>2, <1>3, PTL DEF Spec

LEMMA StepUsed ==
    ASSUME OneKeyInv, [Next]_vars, NEW id \in committed,
           \A limit \in Limits : row[id].used <= limit
    PROVE  row[id].used <= row'[id].used
<1>0. TypeOK /\ id \in RowIds /\ row[id].used \in Nat
  BY DEF OneKeyInv, RowsInv, TypeOK, PeriodRow
<1>1. CASE row'[id].used = row[id].used
  BY <1>0, <1>1
<1>2. ASSUME NEW r \in Requests, Start(r) \/ Serve(r)
      PROVE  row[id].used <= row'[id].used
  <2>1. CASE UNCHANGED row \/ (Visible(r) = {} /\ row' = [row EXCEPT ![<<r, month>>] = NewPeriod])
    BY <1>0, <1>1, <2>1, HeldRowRests
  <2>2. CASE CommitUsage(r)
    <3>1. pc[r] \in Recording
      BY <2>2 DEF CommitUsage, Recording
    <3>2. /\ txn[r].old = row[txn[r].id].used
          /\ txn[r].new >= txn[r].old \/ txn[r].new \in Limits
      BY <3>1 DEF OneKeyInv, ReadIsCurrent
    <3>3. CASE id = txn[r].id /\ row'[id].used = txn[r].new
      BY <3>2, <3>3
    <3> QED
      BY <1>0, <1>1, <2>2, <3>3, CommitUsageRow
  <2>3. CASE CommitAlerts(r)
    BY <1>0, <1>1, <2>3, CommitAlertsRow
  <2> QED
    BY <1>0, <1>2, <2>1, <2>2, <2>3, RequestStep DEF RowStep
<1>3. CASE Environment
  BY <1>0, <1>1, <1>3, EnvironmentStep DEF EnvironmentRow
<1>4. CASE UNCHANGED vars
  BY <1>1, <1>4 DEF vars
<1> QED
  BY <1>2, <1>3, <1>4 DEF Next

LEMMA StepWaived ==
    ASSUME OneKey, OneKeyInv, [Next]_vars, NEW m \in Months,
           waived'[m] > waived[m], credits = 0, NEW id \in committed, id[2] = m
    PROVE  \E limit \in Limits : row[id].used < limit
<1>0. TypeOK /\ id \in RowIds
  BY DEF OneKeyInv, RowsInv, TypeOK
<1>1. waived' # waived
  BY <1>0 DEF TypeOK
<1>2. PICK r \in Requests : CommitUsage(r)
  <2>1. ~Environment
    BY <1>0, <1>1, EnvironmentStep DEF ledger
  <2>2. ~UNCHANGED vars
    BY <1>1 DEF vars, ledger
  <2> QED
    BY <1>0, <1>1, <2>1, <2>2, RequestStep DEF Next, OthersRest, ledger
<1>3. pc[r] \in Recording
  BY <1>2 DEF CommitUsage, Recording
<1>4. Spare(txn[r].id) /\ HoldsRow(r)
  BY <1>3 DEF OneKeyInv, Checked, ReadIsCurrent
<1>5. m = txn[r].id[2]
  BY <1>0, <1>2, TxnRow DEF CommitUsage, TypeOK
<1>6. id = txn[r].id
  BY <1>0, <1>4, <1>5, TxnRow DEF OneKeyInv, RowsInv, OnePeriodPerKey, OneKey, HoldsRow,
                                 RowIds
<1> QED
  BY <1>4, <1>6 DEF Spare

(* With one key, what a record writes was computed from what the row still  *)
(* shows: its characters only grow while every tier's allowance covers them *)
(* (subscription.py:153-170).                                               *)
THEOREM UsageGrows == OneKey => (Spec => UsageNeverShrinks)
<1> SUFFICES ASSUME OneKey PROVE Spec => UsageNeverShrinks
  OBVIOUS
<1>1. OneKeyInv /\ [Next]_vars =>
        [\A id \in committed :
           (\A limit \in Limits : row[id].used <= limit)
           => row[id].used <= row'[id].used]_vars
  BY StepUsed
<1> QED
  BY <1>1, OneKeyInvariant, PTL DEF Spec, UsageNeverShrinks

(* With one key, the check before the translation still holds at the        *)
(* commit, through tier changes and the turn of the month: without credits  *)
(* nothing is given away in a month that was used up (public.py:303-313).   *)
THEOREM OvershootIsOneText == OneKey => (Spec => OvershootBounded)
<1> SUFFICES ASSUME OneKey PROVE Spec => OvershootBounded
  OBVIOUS
<1>1. OneKeyInv /\ [Next]_vars =>
        [\A m \in Months : waived'[m] > waived[m] /\ credits = 0 =>
           \A id \in committed : id[2] = m =>
                \E limit \in Limits : row[id].used < limit]_vars
  BY StepWaived
<1> QED
  BY <1>1, OneKeyInvariant, PTL DEF Spec, OvershootBounded

-----------------------------------------------------------------------------
(* One key: the balance that was read is the balance that is drawn on. *)

\* Only an overflow leads to the balance, and only the balance to its use.
CreditRead(r) ==
    /\ pc[r] = "recording" => txn[r].over = 0
    /\ pc[r] \in {"crediting", "flushed"} /\ txn[r].over > 0 => txn[r].balance = credits

CreditInv == RowsInv /\ \A r \in Requests : CreditRead(r)

\* ReadAllowance leaves an overflow only to those that will read the balance.
LEMMA NoOverflow ==
    ASSUME TypeOK, NEW r \in Requests, ReadAllowance(r), pc'[r] = "recording"
    PROVE  txn'[r].over = 0
<1>1. ~Abort(r, "error")
  BY DEF Abort, Goto, TypeOK
<1>2. PICK id \in RowIds :
        /\ Goto(r, IF Chars[r] <= Left(Period(r, id)) THEN "recording" ELSE "overflow")
        /\ txn' = [txn EXCEPT ![r] =
             [txn[r] EXCEPT !.id = id, !.old = Period(r, id).used,
                       !.new  = IF Chars[r] <= Left(Period(r, id))
                                THEN Period(r, id).used + Chars[r]
                                ELSE Period(r, id).limit,
                       !.over = IF Chars[r] <= Left(Period(r, id))
                                THEN 0
                                ELSE Chars[r] - Left(Period(r, id))]]
  BY <1>1 DEF ReadAllowance, TypeOK
<1> DEFINE fits == Chars[r] <= Left(Period(r, id))
           old == Period(r, id).used
           new == IF fits THEN old + Chars[r] ELSE Period(r, id).limit
           over == IF fits THEN 0 ELSE Chars[r] - Left(Period(r, id))
           record == [txn[r] EXCEPT !.id = id, !.old = old, !.new = new, !.over = over]
<1>3. over = 0
  BY <1>2 DEF Goto, TypeOK
<1>4. txn'[r] = record
  BY <1>2 DEF TypeOK
<1>5. record.over = over
  <2> HIDE DEF old, new, over
  <2> QED
    BY DEF TypeOK, Transaction
<1> HIDE DEF record, over
<1> QED
  BY <1>3, <1>4, <1>5

\* How a request comes to draw on the balance.
LEMMA CreditStep ==
    ASSUME TypeOK, NEW r \in Requests, Start(r) \/ Serve(r),
           pc'[r] \in {"recording", "crediting", "flushed"}, ~ReadAllowance(r)
    PROVE  /\ credits' = credits
           /\ \/ pc'[r] = "crediting" /\ txn'[r].balance = credits
              \/ /\ pc[r] \in {"recording", "crediting"} /\ pc'[r] = "flushed"
                 /\ txn'[r] = txn[r]
<1> USE DEF TypeOK, Goto, ledger
<1>1. \A outcome \in Terminal : Abort(r, outcome) => pc'[r] \notin Recording
  BY DEF Abort, Recording, Terminal
<1> USE DEF Recording
<1>2. ~CommitUsage(r) /\ ~ReportMeter(r) /\ ~SendAlerts(r) /\ ~CommitAlerts(r)
  BY DEF CommitUsage, ReportMeter, SendAlerts, CommitAlerts
<1>3. /\ ~Start(r) /\ ~InsertSubscription(r) /\ ~SkipUsageCheck(r)
      /\ ~CloseUsageRead(r) /\ ~TranslateSucceeds(r) /\ ~TranslateFails(r)
  BY <1>1 DEF Start, InsertSubscription, SkipUsageCheck, CloseUsageRead,
     TranslateSucceeds, TranslateFails, Terminal
<1>4. ~CheckUsage(r) /\ ~ReadUsage(r) /\ ~ReadAlerts(r)
  BY <1>1 DEF CheckUsage, ReadUsage, ReadAlerts, Terminal
<1>5. CASE ReadCredits(r)
  <2> DEFINE new == [txn[r] EXCEPT !.balance = credits]
  <2>1. txn' = [txn EXCEPT ![r] = new]
    BY <1>5 DEF ReadCredits
  <2>2. new.balance = credits
    BY DEF Transaction
  <2>3. credits' = credits /\ pc'[r] = "crediting"
    BY <1>5 DEF ReadCredits
  <2> HIDE DEF new
  <2> QED
    BY <2>1, <2>2, <2>3
<1>6. CASE FlushUsage(r)
  BY <1>1, <1>6 DEF FlushUsage, Terminal
<1> QED
  BY <1>2, <1>3, <1>4, <1>5, <1>6 DEF Serve

LEMMA NextCredit == OneKey /\ CreditInv /\ [Next]_vars => CreditInv'
<1> SUFFICES ASSUME OneKey, CreditInv, [Next]_vars PROVE CreditInv'
  OBVIOUS
<1>1. RowsInv /\ TypeOK /\ RowsInv'
  BY NextRows DEF CreditInv, RowsInv
<1>2. ASSUME NEW r \in Requests, Start(r) \/ Serve(r), NEW q \in Requests
      PROVE  CreditRead(q)'
  <2>1. CASE q # r /\ pc[q] \in InTransaction
    <3>1. credits' = credits /\ pc'[q] = pc[q] /\ txn'[q] = txn[q]
      BY <1>1, <1>2, <2>1, Bystander
    <3> QED
      BY <3>1 DEF CreditInv, CreditRead
  <2>2. CASE q # r /\ pc[q] \notin InTransaction
    <3>1. pc'[q] = pc[q]
      BY <1>1, <1>2, <2>2, RequestStep DEF OthersRest
    <3> QED
      BY <2>2, <3>1 DEF CreditRead, InTransaction
  <2>3. CASE q = r /\ pc'[r] \in {"recording", "crediting", "flushed"} /\ ReadAllowance(r)
    <3>1. pc'[r] = "recording"
      BY <1>1, <2>3 DEF ReadAllowance, Abort, Goto, TypeOK
    <3> QED
      BY <1>1, <2>3, <3>1, NoOverflow DEF CreditRead
  <2>4. CASE q = r /\ pc'[r] \in {"recording", "crediting", "flushed"} /\ ~ReadAllowance(r)
    BY <1>1, <1>2, <2>4, CreditStep DEF CreditInv, CreditRead
  <2>5. CASE q = r /\ pc'[r] \notin {"recording", "crediting", "flushed"}
    BY <2>5 DEF CreditRead
  <2> QED
    BY <2>1, <2>2, <2>3, <2>4, <2>5
<1>3. ASSUME Environment, NEW q \in Requests PROVE CreditRead(q)'
  <2>1. /\ credits' = credits
        /\ UNCHANGED <<pc, txn>> \/ pc'[q] \in Terminal \cup {"idle"}
    BY <1>1, <1>3, EnvironmentStep DEF ledger
  <2> QED
    BY <2>1 DEF CreditInv, CreditRead, Terminal
<1>4. CASE UNCHANGED vars
  BY <1>1, <1>4 DEF CreditInv, CreditRead, vars, ledger
<1> QED
  BY <1>1, <1>2, <1>3, <1>4 DEF Next, CreditInv

\* Nothing but the commit of a record touches the credits and their log.
LEMMA StepCredits ==
    ASSUME OneKey, CreditInv, [Next]_vars
    PROVE  \/ UNCHANGED <<credits, spent>>
           \/ \E m \in Months, n \in 0..credits :
                 credits' = credits - n /\ spent' = [spent EXCEPT ![m] = @ + n]
<1>0. TypeOK
  BY DEF CreditInv, RowsInv
<1>1. ASSUME NEW r \in Requests, CommitUsage(r), Draws(r)
      PROVE  \E m \in Months, n \in 0..credits :
                credits' = credits - n /\ spent' = [spent EXCEPT ![m] = @ + n]
  <2>1. txn[r].over \in Nat /\ txn[r].balance \in Nat /\ credits \in Nat
    BY <1>0 DEF TypeOK, Transaction
  <2>2. txn[r].balance = credits /\ txn[r].over \in 0..credits
    BY <1>1, <2>1 DEF CommitUsage, Draws, CreditInv, CreditRead
  <2>3. txn[r].id[2] \in Months
    BY <1>0, TxnRow DEF RowIds
  <2>4. /\ credits' = credits - txn[r].over
        /\ spent' = [spent EXCEPT ![txn[r].id[2]] = @ + txn[r].over]
    BY <1>1, <2>2 DEF CommitUsage
  <2> QED
    BY <2>2, <2>3, <2>4
<1>2. ASSUME NEW r \in Requests, CommitUsage(r), ~Draws(r)
      PROVE  UNCHANGED <<credits, spent>>
  BY <1>2 DEF CommitUsage
<1>3. ASSUME NEW r \in Requests, Start(r) \/ Serve(r), ~CommitUsage(r)
      PROVE  UNCHANGED <<credits, spent>>
  BY <1>0, <1>3, RequestStep DEF OthersRest, ledger
<1>4. CASE Environment \/ UNCHANGED vars
  BY <1>0, <1>4, EnvironmentStep DEF vars, ledger
<1> QED
  BY <1>1, <1>2, <1>3, <1>4 DEF Next

(* With one key, the balance read before the flush is the balance at the    *)
(* commit, although it is not locked when it is read: what leaves is what   *)
(* the log says, for any number of requests and credits                     *)
(* (subscription.py:175-184).                                               *)
THEOREM CreditsLeaveALog == OneKey => (Spec => CreditsAreLogged)
<1> SUFFICES ASSUME OneKey PROVE Spec => CreditsAreLogged
  OBVIOUS
<1>1. Init => CreditInv
  BY InitType DEF Init, CreditInv, CreditRead, RowsInv, SerialPerKey, PendingIsOpen,
                  OnePeriodPerKey, InTransaction
<1>2. CreditInv /\ [Next]_vars => CreditInv'
  BY NextCredit
<1>3. CreditInv /\ [Next]_vars =>
        [\E m \in Months, n \in 0..credits :
           credits' = credits - n /\ spent' = [spent EXCEPT ![m] = @ + n]]_vars
  <2> SUFFICES ASSUME CreditInv, [Next]_vars, UNCHANGED <<credits, spent>>
               PROVE  \E m \in Months, n \in 0..credits :
                        credits' = credits - n /\ spent' = [spent EXCEPT ![m] = @ + n]
    BY StepCredits
  <2>1. 1 \in Months /\ credits \in Nat /\ spent \in [Months -> Nat]
    BY QuantityAssumption DEF CreditInv, RowsInv, TypeOK, Months
  <2>2. 0 \in 0..credits /\ credits - 0 = credits /\ spent[1] + 0 = spent[1]
    BY <2>1
  <2>3. spent = [spent EXCEPT ![1] = @ + 0]
    BY <2>1, <2>2
  <2> QED
    BY <2>1, <2>2, <2>3
<1> QED
  BY <1>1, <1>2, <1>3, PTL DEF Spec, CreditsAreLogged

-----------------------------------------------------------------------------
(* One key: the accounting implements the abstract ledger. *)

\* What a row is given and what is paid otherwise make up the text; a row that
\* is not committed shows nothing yet.
PendingIsBlank == \A id \in pending : row[id].used = 0

Balanced == \A r \in Requests : pc[r] \in Recording =>
               txn[r].new + txn[r].over = txn[r].old + Chars[r]

LedgerInv == OneKeyInv /\ BilledInv /\ PendingIsBlank /\ Balanced

\* What ReadAllowance makes of the overflow, whatever is left.
LEMMA OverflowRead ==
    ASSUME TypeOK, NEW r \in Requests, ReadAllowance(r), pc'[r] \in Recording
    PROVE  txn'[r].new + txn'[r].over = txn'[r].old + Chars[r]
<1>1. ~Abort(r, "error")
  BY DEF Abort, Goto, TypeOK, Recording
<1>2. PICK id \in RowIds :
        /\ UsePeriod(r, id)
        /\ txn' = [txn EXCEPT ![r] =
             [txn[r] EXCEPT !.id = id, !.old = Period(r, id).used,
                       !.new  = IF Chars[r] <= Left(Period(r, id))
                                THEN Period(r, id).used + Chars[r]
                                ELSE Period(r, id).limit,
                       !.over = IF Chars[r] <= Left(Period(r, id))
                                THEN 0
                                ELSE Chars[r] - Left(Period(r, id))]]
  BY <1>1 DEF ReadAllowance, TypeOK
<1> DEFINE period == Period(r, id)
           fits == Chars[r] <= Left(period)
           old == period.used
           new == IF fits THEN period.used + Chars[r] ELSE period.limit
           over == IF fits THEN 0 ELSE Chars[r] - Left(period)
           record == [txn[r] EXCEPT !.id = id, !.old = old, !.new = new, !.over = over]
<1>3. period.used \in Nat /\ period.limit \in Nat /\ Chars[r] \in Nat
  BY <1>2, UsePeriodType, QuantityAssumption DEF PeriodRow
<1>4. new + over = old + Chars[r]
  BY <1>3 DEF Left
<1>5. txn'[r] = record
  BY <1>2 DEF TypeOK
<1>6. record.old = old /\ record.new = new /\ record.over = over
  <2> HIDE DEF old, new, over
  <2> QED
    BY DEF TypeOK, Transaction
<1> HIDE DEF record, old, new, over
<1> QED
  BY <1>4, <1>5, <1>6

\* The overflow stays what it was until it is paid or waived.
LEMMA OverflowRests ==
    ASSUME TypeOK, NEW r \in Requests, Start(r) \/ Serve(r), pc'[r] \in Recording,
           ~ReadAllowance(r)
    PROVE  txn'[r].over = txn[r].over
<1> USE DEF TypeOK, Goto
<1>1. \A outcome \in Terminal : Abort(r, outcome) => pc'[r] \notin Recording
  BY DEF Abort, Recording, Terminal
<1> USE DEF Recording
<1>2. ~CommitUsage(r) /\ ~ReportMeter(r) /\ ~SendAlerts(r) /\ ~CommitAlerts(r)
  BY DEF CommitUsage, ReportMeter, SendAlerts, CommitAlerts
<1>3. /\ ~Start(r) /\ ~InsertSubscription(r) /\ ~SkipUsageCheck(r)
      /\ ~CloseUsageRead(r) /\ ~TranslateSucceeds(r) /\ ~TranslateFails(r)
  BY <1>1 DEF Start, InsertSubscription, SkipUsageCheck, CloseUsageRead,
     TranslateSucceeds, TranslateFails, Terminal
<1>4. ~CheckUsage(r) /\ ~ReadUsage(r) /\ ~ReadAlerts(r)
  BY <1>1 DEF CheckUsage, ReadUsage, ReadAlerts, Terminal
<1>5. CASE ReadCredits(r)
  <2> DEFINE new == [txn[r] EXCEPT !.balance = credits]
  <2>1. txn' = [txn EXCEPT ![r] = new]
    BY <1>5 DEF ReadCredits
  <2>2. new.over = txn[r].over
    BY DEF Transaction
  <2> HIDE DEF new
  <2> QED
    BY <2>1, <2>2
<1>6. CASE FlushUsage(r)
  BY <1>1, <1>6 DEF FlushUsage, Terminal
<1> QED
  BY <1>2, <1>3, <1>4, <1>5, <1>6 DEF Serve

\* Rows that stay as they are go on showing what they show.
LEMMA ShownIs ==
    LedgerInv /\ OneKey => \A id \in committed \cup pending : Shown(id[2]) = row[id].used
<1> SUFFICES ASSUME LedgerInv, OneKey
             PROVE  \A id \in committed \cup pending : Shown(id[2]) = row[id].used
  OBVIOUS
<1>1. ASSUME NEW id \in committed \cup pending, NEW i \in committed, i[2] = id[2]
      PROVE  i = id
  BY <1>1 DEF LedgerInv, OneKeyInv, RowsInv, TypeOK, RowIds, OnePeriodPerKey, OneKey
<1>2. ASSUME NEW id \in committed \cup pending PROVE Shown(id[2]) = row[id].used
  <2>1. CASE \E i \in committed : i[2] = id[2]
    <3> DEFINE i == CHOOSE i \in committed : i[2] = id[2]
    <3>1. i \in committed /\ i[2] = id[2]
      BY <2>1
    <3>2. i = id
      BY <1>1, <3>1
    <3> QED
      BY <2>1, <3>2 DEF Shown
  <2>2. CASE ~\E i \in committed : i[2] = id[2]
    BY <2>2 DEF Shown, LedgerInv, PendingIsBlank
  <2> QED
    BY <2>1, <2>2
<1> QED
  BY <1>2 DEF Shown

LEMMA ShownIsNext ==
    (LedgerInv /\ OneKey => \A id \in committed \cup pending : Shown(id[2]) = row[id].used)'
BY ShownIs, PTL

LEMMA ShownRests ==
    ASSUME LedgerInv, LedgerInv', OneKey, NEW m \in Months,
           committed \subseteq committed', committed' \subseteq committed \cup pending,
           \A id \in committed' : id[2] = m => row'[id].used = row[id].used
    PROVE  Shown(m)' = Shown(m)
<1>1. CASE \E id \in committed' : id[2] = m
  <2>1. PICK id \in committed' : id[2] = m
    BY <1>1
  <2>2. Shown(m) = row[id].used
    BY <2>1, ShownIs
  <2>3. OneKey'
    BY DEF OneKey, SameKey, ByKey
  <2>4. Shown(m)' = row'[id].used
    BY <2>1, <2>3, ShownIsNext
  <2> QED
    BY <2>1, <2>2, <2>4
<1>2. CASE ~\E id \in committed' : id[2] = m
  BY <1>2 DEF Shown
<1> QED
  BY <1>1, <1>2

LEMMA NextLedgerInv == OneKey /\ LedgerInv /\ [Next]_vars => LedgerInv'
<1> SUFFICES ASSUME OneKey, LedgerInv, [Next]_vars PROVE LedgerInv'
  OBVIOUS
<1>0. /\ TypeOK /\ RowsInv /\ committed \cup pending \subseteq RowIds
      /\ OneKeyInv' /\ BilledInv'
  BY NextOneKey, NextBilled DEF LedgerInv, OneKeyInv, RowsInv, TypeOK
<1>1. ASSUME NEW r \in Requests, Start(r) \/ Serve(r)
      PROVE  LedgerInv'
  <2>1. ASSUME NEW id \in pending' PROVE row'[id].used = 0
    <3>1. CASE UNCHANGED row /\ committed' \cup pending' \subseteq committed \cup pending
      <4>1. id \in pending
        BY <1>0, <1>1, <2>1, <3>1, StepShape, InsertedRowIsNew DEF RowsStep
      <4> QED
        BY <3>1, <4>1 DEF LedgerInv, PendingIsBlank, Balanced
    <3>2. CASE /\ Visible(r) = {}
               /\ committed' = committed /\ pending' = pending \cup {<<r, month>>}
               /\ row' = [row EXCEPT ![<<r, month>>] = NewPeriod]
      <4>1. row'[<<r, month>>] = NewPeriod
        BY <1>0, <3>2, InsertedRowIsNew DEF TypeOK
      <4>2. \A i \in pending : row'[i] = row[i]
        BY <1>0, <3>2, HeldRowRests
      <4> QED
        BY <1>0, <2>1, <3>2, <4>1, <4>2, NewPeriodWithin DEF LedgerInv, PendingIsBlank, Balanced
    <3>3. CASE CommitUsage(r)
      <4>1. pc[r] \in InTransaction
        BY <3>3 DEF CommitUsage, InTransaction
      <4> QED
        BY <1>0, <2>1, <3>3, <4>1, SeesAll DEF CommitUsage, CommitInserts
    <3>4. CASE CommitAlerts(r)
      <4>1. id \in pending /\ id \in RowIds
        BY <1>0, <2>1, <3>4 DEF CommitAlerts
      <4> QED
        BY <1>0, <3>4, <4>1, CommitAlertsRow DEF LedgerInv, PendingIsBlank, Balanced
    <3> QED
      BY <1>0, <1>1, <3>1, <3>2, <3>3, <3>4, RequestStep DEF RowStep
  <2>2. ASSUME NEW q \in Requests, pc'[q] \in Recording
        PROVE  txn'[q].new + txn'[q].over = txn'[q].old + Chars[q]
    <3>1. CASE q # r
      BY <1>0, <1>1, <2>2, <3>1, RequestStep DEF OthersRest, LedgerInv, Balanced
    <3>2. CASE q = r /\ ReadAllowance(r)
      BY <1>0, <2>2, <3>2, OverflowRead
    <3>3. CASE q = r /\ ~ReadAllowance(r)
      BY <1>0, <1>1, <2>2, <3>3, OverflowRests, RequestStep DEF TxnStep, LedgerInv, Balanced
    <3> QED
      BY <3>1, <3>2, <3>3
  <2> QED
    BY <1>0, <2>1, <2>2 DEF LedgerInv, PendingIsBlank, Balanced
<1>2. CASE Environment
  <2>1. /\ \A id \in pending' : id \in pending /\ row'[id].used = row[id].used
        /\ \A q \in Requests : pc'[q] \in Recording => pc'[q] = pc[q] /\ txn'[q] = txn[q]
    BY <1>0, <1>2, EnvironmentStep DEF EnvironmentRow, Recording, Terminal
  <2> QED
    BY <1>0, <2>1 DEF LedgerInv, PendingIsBlank, Balanced
<1>3. CASE UNCHANGED vars
  BY <1>0, <1>3 DEF LedgerInv, PendingIsBlank, Balanced, vars
<1> QED
  BY <1>1, <1>2, <1>3 DEF Next

LEMMA LedgerInvariant == OneKey => (Spec => []LedgerInv)
<1> SUFFICES ASSUME OneKey PROVE Spec => []LedgerInv
  OBVIOUS
<1>1. Init => PendingIsBlank /\ Balanced
  BY DEF Init, PendingIsBlank, Balanced, Recording
<1>2. OneKeyInv /\ BilledInv /\ PendingIsBlank /\ Balanced => LedgerInv
  BY DEF LedgerInv
<1>3. Spec => []OneKeyInv
  BY OneKeyInvariant
<1>4. LedgerInv /\ [Next]_vars => LedgerInv'
  BY NextLedgerInv
<1> QED
  BY <1>1, <1>2, <1>3, <1>4, BilledInvariant, PTL DEF Spec

Charged == [m \in Months |-> Shown(m) + spent[m] + waived[m]]
Billed == {r \in Requests : recorded[r] # 0}

\* The commit of a record is the charge, of the whole text to one month.
LEMMA CommitCharges ==
    ASSUME OneKey, LedgerInv, LedgerInv', NEW r \in Requests, CommitUsage(r)
    PROVE  \E m \in Months :
              /\ r \notin Billed /\ Billed' = Billed \cup {r}
              /\ Charged' = [Charged EXCEPT ![m] = @ + Chars[r]]
<1>0. /\ TypeOK /\ TypeOK' /\ RowsInv
      /\ pc[r] \in InTransaction /\ pc[r] \in Recording /\ pc[r] = "flushed"
  BY DEF LedgerInv, OneKeyInv, RowsInv, CommitUsage, Recording, InTransaction
<1> PICK id \in RowIds : id = txn[r].id
  BY <1>0, TxnRow
<1> PICK n \in Months : n = id[2]
  BY DEF RowIds
<1> PICK over \in Nat : over = txn[r].over
  BY <1>0 DEF TypeOK, Transaction
<1>1. /\ txn[r].old \in Nat /\ txn[r].new \in Nat /\ Chars[r] \in Nat
      /\ n # 0
  <2>1. \A m \in Months : m # 0
    BY DEF Months
  <2> QED
    BY <1>0, <2>1, TxnRow, QuantityAssumption
<1>2. /\ id \in committed \cup pending
      /\ txn[r].old = row[id].used
      /\ txn[r].new + over = txn[r].old + Chars[r]
  BY <1>0 DEF LedgerInv, OneKeyInv, ReadIsCurrent, HoldsRow, Balanced
<1>3. r \notin Billed /\ Billed' = Billed \cup {r}
  <2>1. recorded[r] = 0
    BY <1>0 DEF LedgerInv, BilledInv, AfterCommit
  <2>2. recorded' = [recorded EXCEPT ![r] = n]
    BY DEF CommitUsage
  <2> QED
    BY <1>0, <1>1, <2>1, <2>2 DEF Billed, TypeOK
<1>4. committed' = committed \cup pending
  BY <1>0, SeesAll DEF CommitUsage, CommitInserts
<1>5. row'[id].used = txn[r].new
  <2>1. CASE txn[r].new = txn[r].old
    BY <1>2, <2>1 DEF CommitUsage
  <2>2. CASE txn[r].new # txn[r].old
    <3> DEFINE new == [row[id] EXCEPT !.used = txn[r].new]
    <3>1. new.used = txn[r].new
      BY <1>0, <1>1 DEF TypeOK, PeriodRow
    <3>2. row' = [row EXCEPT ![id] = new]
      BY <2>2 DEF CommitUsage
    <3> HIDE DEF new
    <3> QED
      BY <1>0, <1>1, <3>1, <3>2 DEF TypeOK
  <2> QED
    BY <2>1, <2>2
<1>6. Shown(n) = txn[r].old /\ Shown(n)' = txn[r].new
  <2>1. OneKey'
    BY DEF OneKey, SameKey, ByKey
  <2> QED
    BY <1>2, <1>4, <1>5, <2>1, ShownIs, ShownIsNext
<1>7. \A m \in Months : m # n => Shown(m)' = Shown(m)
  <2> SUFFICES ASSUME NEW m \in Months, m # n PROVE Shown(m)' = Shown(m)
    OBVIOUS
  <2>1. \A i \in committed' : i[2] = m => row'[i].used = row[i].used
    BY <1>0, <1>4, CommitUsageRow DEF TypeOK
  <2> QED
    BY <1>4, <2>1, ShownRests
<1>8. \A m \in Months :
        spent'[m] + waived'[m] = spent[m] + waived[m] + (IF m = n THEN over ELSE 0)
  <2>1. \A m \in Months : spent[m] \in Nat /\ waived[m] \in Nat
    BY <1>0 DEF TypeOK
  <2>2. \/ spent' = [spent EXCEPT ![n] = @ + over] /\ waived' = waived
        \/ waived' = [waived EXCEPT ![n] = @ + over] /\ spent' = spent
    BY DEF CommitUsage
  <2>3. spent \in [Months -> Nat] /\ waived \in [Months -> Nat]
    BY <1>0 DEF TypeOK
  <2> QED
    BY <1>1, <2>1, <2>2, <2>3
<1>9. \A m \in Months : /\ Shown(m) \in Nat /\ spent[m] \in Nat /\ waived[m] \in Nat
                        /\ Shown(m)' \in Nat /\ spent'[m] \in Nat /\ waived'[m] \in Nat
  BY <1>0 DEF Shown, TypeOK, PeriodRow
<1>10. Charged' = [Charged EXCEPT ![n] = @ + Chars[r]]
  <2>1. \A m \in Months :
          Shown(m)' + spent'[m] + waived'[m] =
            Shown(m) + spent[m] + waived[m] + (IF m = n THEN Chars[r] ELSE 0)
    <3> SUFFICES ASSUME NEW m \in Months
                 PROVE  Shown(m)' + spent'[m] + waived'[m] =
                        Shown(m) + spent[m] + waived[m] + (IF m = n THEN Chars[r] ELSE 0)
      OBVIOUS
    <3>1. CASE m = n
      BY <1>1, <1>2, <1>6, <1>8, <1>9, <3>1
    <3>2. CASE m # n
      BY <1>7, <1>8, <1>9, <3>2
    <3> QED
      BY <3>1, <3>2
  <2>2. \A m \in Months : Charged'[m] = Charged[m] + (IF m = n THEN Chars[r] ELSE 0)
    BY <2>1 DEF Charged
  <2>3. \A m \in Months : Charged[m] \in Nat
    BY <1>9 DEF Charged
  <2> QED
    BY <1>1, <2>2, <2>3 DEF Charged
<1> QED
  BY <1>1, <1>3, <1>10

\* Nothing else moves the ledger.
LEMMA OthersCharge ==
    ASSUME OneKey, LedgerInv, LedgerInv', [Next]_vars,
           \A r \in Requests : ~CommitUsage(r)
    PROVE  Charged' = Charged /\ Billed' = Billed
<1>0. TypeOK /\ RowsInv /\ committed \cup pending \subseteq RowIds
  BY DEF LedgerInv, OneKeyInv, RowsInv, TypeOK
<1>1. UNCHANGED ledger
  <2>1. ASSUME NEW r \in Requests, Start(r) \/ Serve(r) PROVE UNCHANGED ledger
    BY <1>0, <2>1, RequestStep DEF OthersRest
  <2>2. CASE Environment
    BY <1>0, <2>2, EnvironmentStep
  <2> QED
    BY <2>1, <2>2 DEF Next, vars, ledger
<1>2. ASSUME NEW m \in Months PROVE Shown(m)' = Shown(m)
  <2>1. ASSUME NEW r \in Requests, Start(r) \/ Serve(r) PROVE Shown(m)' = Shown(m)
    <3>1. CASE UNCHANGED row /\ committed' \cup pending' \subseteq committed \cup pending
      BY <1>0, <2>1, <3>1, StepShape, ShownRests DEF RowsStep
    <3>2. CASE /\ Visible(r) = {} /\ committed' = committed
               /\ row' = [row EXCEPT ![<<r, month>>] = NewPeriod]
      <4>1. \A id \in committed : row'[id] = row[id]
        BY <1>0, <3>2, HeldRowRests
      <4> QED
        BY <3>2, <4>1, ShownRests
    <3>3. CASE CommitAlerts(r)
      <4>1. committed' = committed
        BY <3>3 DEF CommitAlerts
      <4>2. \A id \in committed : row'[id].used = row[id].used
        BY <1>0, <3>3, CommitAlertsRow
      <4> QED
        BY <4>1, <4>2, ShownRests
    <3> QED
      BY <1>0, <2>1, <3>1, <3>2, <3>3, RequestStep DEF RowStep
  <2>2. CASE Environment
    BY <1>0, <2>2, EnvironmentStep, ShownRests DEF EnvironmentRow
  <2>3. CASE UNCHANGED vars
    BY <2>3 DEF vars, Shown
  <2> QED
    BY <2>1, <2>2, <2>3 DEF Next
<1> QED
  BY <1>1, <1>2 DEF Charged, Billed, ledger

(* With one key, every behaviour of the handlers is one of the abstract     *)
(* ledger: each request is charged at most once, to one month, for exactly  *)
(* its text, in the step that commits it, and a charge is never taken back  *)
(* (subscription.py:153-187, public.py:330).                                *)
THEOREM LedgerImplemented == OneKey => (Spec => ImplementsLedger)
<1> SUFFICES ASSUME OneKey PROVE Spec => ImplementsLedger
  OBVIOUS
<1>1. Init => Ledger!LedgerInit
  <2> SUFFICES ASSUME Init PROVE Ledger!LedgerInit
    OBVIOUS
  <2>1. \A m \in Months : Shown(m) + spent[m] + waived[m] = 0
    BY DEF Init, Shown
  <2>2. {r \in Requests : recorded[r] # 0} = {}
    BY DEF Init
  <2> QED
    BY <2>1, <2>2 DEF Ledger!LedgerInit
<1>2. LedgerInv /\ LedgerInv' /\ [Next]_vars => [Ledger!LedgerNext]_(Ledger!ledgerVars)
  <2> SUFFICES ASSUME LedgerInv, LedgerInv', [Next]_vars
               PROVE  [Ledger!LedgerNext]_(Ledger!ledgerVars)
    OBVIOUS
  <2>1. ASSUME NEW r \in Requests, CommitUsage(r) PROVE Ledger!LedgerNext
    <3>1. PICK m \in Months :
            /\ r \notin Billed /\ Billed' = Billed \cup {r}
            /\ Charged' = [Charged EXCEPT ![m] = @ + Chars[r]]
      BY <2>1, CommitCharges
    <3>2. Ledger!Charge(r, m)
      BY <3>1 DEF Ledger!Charge, Charged, Billed
    <3> QED
      BY <3>2 DEF Ledger!LedgerNext
  <2>2. ASSUME \A r \in Requests : ~CommitUsage(r) PROVE UNCHANGED Ledger!ledgerVars
    BY <2>2, OthersCharge DEF Ledger!ledgerVars, Charged, Billed
  <2> QED
    BY <2>1, <2>2
<1>3. Spec => []LedgerInv
  BY LedgerInvariant
<1> QED
  BY <1>1, <1>2, <1>3, PTL DEF Spec, ImplementsLedger, Ledger!LedgerSpec
=============================================================================
