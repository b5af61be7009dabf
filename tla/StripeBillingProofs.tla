------------------------- MODULE StripeBillingProofs --------------------------
(***************************************************************************)
(* Proofs about StripeBilling, for any number of checkout sessions and of  *)
(* overlapping deliveries and any number of crashes: the webhook handler   *)
(* implements the event log; when deliveries do not overlap a row has the  *)
(* tier that was paid for; and when they come in order too, the row        *)
(* mirrors the Stripe subscription.                                        *)
(***************************************************************************)
EXTENDS StripeBilling, TLAPS

(* Only a handler that is about to write has found a row or failed, and it  *)
(* has failed after setting the columns only if it changes the tier.        *)
FailsHalfway(j) ==
    /\ j.pc # "writing" => j.product = "none" /\ j.error = "none"
    /\ j.product # "none" /\ j.error # "none" => j.event[1] \in {"checkout", "deleted"}

(* What a delivery in progress knows of the log: it has inserted the row of *)
(* its event, or the event was recorded unprocessed before.                 *)
KnowsLog(w) ==
    LET j == job[w] IN
    /\ j.pc # "idle" => j.event \in Events
    /\ j.inserted => j.pc \in {"handling", "writing"} /\ log[j.event] = "absent"
    /\ j.pc \in {"handling", "writing"} => j.inserted \/ j.event \in retried
    /\ FailsHalfway(j)

(* The unique index: one delivery has inserted the row of an event.         *)
OneInserts ==
    \A v, w \in Workers :
        v # w /\ job[v].inserted /\ job[w].inserted => job[v].event # job[w].event

(* The refused events are on record, only they are unprocessed, what is     *)
(* recorded as processed took effect, and what took effect is on record.    *)
RefusedOnRecord ==
    /\ \A e \in retried : log[e] # "absent"
    /\ \A e \in Events : log[e] = "unprocessed" => e \in retried
    /\ \A e \in Events : /\ log[e] = "processed" => applied[e] > 0
                         /\ log[e] = "absent" => applied[e] = 0

LogInv ==
    TypeOK /\ OneInserts /\ RefusedOnRecord /\ \A w \in Workers : KnowsLog(w)

LEMMA IdleType == Idle \in Jobs /\ Absent \in Rows /\ FreeRow \in Rows /\ EndedB2B \in Rows
BY DEF Idle, Jobs, Rows, Absent, FreeRow, EndedB2B, Products

LEMMA EventParts ==
    ASSUME NEW e \in Events
    PROVE  e[1] \in EventTypes /\ e[2] \in Subs
BY DEF Events

LEMMA MergeType ==
    ASSUME NEW current \in Rows, NEW old \in Rows, NEW new \in Rows
    PROVE  Merge(current, old, new) \in Rows
BY DEF Merge, Rows

LEMMA OutcomeType ==
    ASSUME TypeOK, NEW e \in Events, NEW old \in Rows
    PROVE  Outcome(e, old) \in Rows
<1>1. e[2] \in Subs
  BY EventParts
<1>2. CASE e[1] = "checkout"
  BY <1>1, <1>2, StripeAssumption DEF Outcome, Rows, TypeOK
<1>3. CASE e[1] = "deleted"
  BY <1>3 DEF Outcome, Ended, FreeRow, Rows
<1>4. CASE e[1] # "checkout" /\ e[1] # "deleted"
  BY <1>4 DEF Outcome, InvoiceStatus, Rows
<1> QED
  BY <1>2, <1>3, <1>4

LEMMA TypeInit == Init => TypeOK
BY IdleType, StripeAssumption DEF Init, TypeOK, Products

LEMMA TargetType ==
    ASSUME TypeOK, NEW e \in Events
    PROVE  Target(e) \subseteq Products
BY EventParts DEF Target, Product, Mirrors, Products

LEMMA EmitType ==
    ASSUME TypeOK, NEW events \in SUBSET Events, Emit(events)
    PROVE  emitted' \subseteq Events /\ outbox' \subseteq Events
BY DEF Emit, TypeOK

LEMMA MovesType ==
    ASSUME TypeOK, NEW s \in Subs, NEW from, NEW types \in SUBSET EventTypes,
           NEW to \in {"active", "past_due", "deleted"}, StripeMoves(s, from, to, types)
    PROVE  TypeOK'
<1>1. types \X {s} \in SUBSET Events
  BY DEF Events
<1>2. emitted' \subseteq Events /\ outbox' \subseteq Events
  BY <1>1, EmitType DEF StripeMoves
<1> QED
  BY <1>2 DEF StripeMoves, TypeOK, choices, history, Rows, Jobs

LEMMA CheckoutType ==
    ASSUME TypeOK, NEW s \in Subs, LoadUser(s) \/ OpenSession(s)
    PROVE  TypeOK'
BY DEF TypeOK, LoadUser, OpenSession, UseCustomer, choices, history, Rows, Jobs

LEMMA StripeType ==
    ASSUME TypeOK, NEW s \in Subs,
           Pay(s) \/ FailInvoice(s) \/ Recover(s) \/ EndSubscription(s)
    PROVE  TypeOK'
<1> {"checkout", "paid"} \subseteq EventTypes /\ {"failed"} \subseteq EventTypes
    /\ {"recovered"} \subseteq EventTypes /\ {"deleted"} \subseteq EventTypes
  BY DEF EventTypes, Rank
<1> QED
  BY MovesType DEF Pay, FailInvoice, Recover, EndSubscription

LEMMA RejectType ==
    ASSUME TypeOK, NEW w \in Workers, Reject(w)
    PROVE  TypeOK'
BY IdleType DEF Reject, TypeOK, stripe, choices, history, Rows

(* One delivery moves on, and what it writes has the right types. *)
LEMMA WorkerType ==
    ASSUME TypeOK, NEW w \in Workers, NEW j \in Jobs,
           job' = [job EXCEPT ![w] = j],
           row' \in [Products -> Rows], outbox' \subseteq Events,
           log' \in [Events -> {"absent", "unprocessed", "processed"}],
           applied' \in [Events -> Nat], retried' \subseteq Events,
           error' \in [Events -> {"none", "retrieve", "sync"}],
           UNCHANGED <<customer, account, stripe, seen, crashes>>
    PROVE  TypeOK'
<1>1. job' \in [Workers -> Jobs]
  BY DEF TypeOK
<1> QED
  BY <1>1 DEF TypeOK, stripe, choices, Rows, Jobs

LEMMA StepType ==
    ASSUME NEW j \in Jobs
    PROVE  /\ [j EXCEPT !.pc = "writing"] \in Jobs
           /\ [j EXCEPT !.pc = "handling", !.inserted = TRUE] \in Jobs
           /\ \A e \in Events :
                 /\ [Idle EXCEPT !.event = e, !.pc = "inserting"] \in Jobs
                 /\ [Idle EXCEPT !.event = e, !.pc = "handling"] \in Jobs
                 /\ [Idle EXCEPT !.pc = "responding", !.event = e] \in Jobs
<1>1. [j EXCEPT !.pc = "writing"] \in Jobs
  BY DEF Jobs
<1>2. [j EXCEPT !.pc = "handling", !.inserted = TRUE] \in Jobs
  BY DEF Jobs
<1>3. ASSUME NEW e \in Events
      PROVE  /\ [Idle EXCEPT !.event = e, !.pc = "inserting"] \in Jobs
             /\ [Idle EXCEPT !.event = e, !.pc = "handling"] \in Jobs
             /\ [Idle EXCEPT !.pc = "responding", !.event = e] \in Jobs
  BY IdleType DEF Jobs
<1> QED
  BY <1>1, <1>2, <1>3

LEMMA ReceiveType ==
    ASSUME TypeOK, NEW w \in Workers, NEW e \in outbox, Receive(w, e)
    PROVE  TypeOK'
<1>1. e \in Events
  BY DEF TypeOK
<1>2. CASE log[e] = "processed"
  BY <1>2 DEF Receive, Answer, TypeOK, stripe, choices, history, Rows, Jobs
<1>3. CASE log[e] # "processed"
  <2> DEFINE j == [Idle EXCEPT !.event = e,
                               !.pc = IF log[e] = "absent" THEN "inserting" ELSE "handling"]
  <2>1. j \in Jobs
    BY <1>1, IdleType, StepType
  <2>2. job' = [job EXCEPT ![w] = j] /\ UNCHANGED outbox
    BY <1>3 DEF Receive
  <2> HIDE DEF j
  <2> QED
    BY <2>1, <2>2, WorkerType DEF Receive, TypeOK, history
<1> QED
  BY <1>2, <1>3

LEMMA TierKept ==
    ASSUME NEW e, NEW old \in Rows, e[1] \notin {"checkout", "deleted"}
    PROVE  Outcome(e, old).tier = old.tier
BY DEF Outcome, Rows

(* What a handler that has looked for its row is about to write.            *)
Writes(w, p) ==
    LET e == job[w].event IN
    /\ job'[w].product = p /\ job'[w].old = row[p]
    /\ job'[w].new = Outcome(e, Found(p, row[p]))

LEMMA ReadRowParts ==
    ASSUME TypeOK, NEW w \in Workers, ReadRow(w), job[w].event \in Events
    PROVE  LET e == job[w].event IN
           /\ job' = [job EXCEPT ![w] = job'[w]] /\ job'[w] \in Jobs
           /\ job'[w].pc = "writing" /\ job'[w].event = e
           /\ job'[w].inserted = job[w].inserted
           /\ \/ Target(e) = {} /\ job'[w].product = job[w].product
              \/ job'[w].product = job[w].product /\ job'[w].error = "retrieve"
              \/ \E p \in Target(e) :
                    /\ Writes(w, p)
                    /\ job'[w].error = job[w].error \/ e[1] \in {"checkout", "deleted"}
<1> DEFINE e == job[w].event
           made(p) == Outcome(e, Found(p, row[p]))
           Written(p) == [job[w] EXCEPT !.pc = "writing", !.product = p, !.old = row[p],
                                        !.new = made(p)]
<1>1. job[w] \in Jobs /\ w \in DOMAIN job
  BY DEF TypeOK
<1>2. CASE Target(e) = {} /\ job' = [job EXCEPT ![w] = [@ EXCEPT !.pc = "writing"]]
  BY <1>1, <1>2 DEF Jobs
<1>3. CASE job' = [job EXCEPT ![w] = [@ EXCEPT !.pc = "writing", !.error = "retrieve"]]
  BY <1>1, <1>3 DEF Jobs
<1>4. ASSUME NEW p \in Target(e)
      PROVE  /\ p \in Products /\ row[p] \in Rows /\ made(p) \in Rows
             /\ made(p).tier # Found(p, row[p]).tier => e[1] \in {"checkout", "deleted"}
  <2>1. p \in Products /\ row[p] \in Rows
    BY TargetType DEF TypeOK
  <2>2. Found(p, row[p]) \in Rows
    BY <2>1, IdleType DEF Found, Default, FreeRow, Rows
  <2> QED
    BY <2>1, <2>2, OutcomeType, TierKept
<1> HIDE DEF made
<1>5. ASSUME NEW p \in Target(e), job' = [job EXCEPT ![w] = Written(p)]
      PROVE  /\ job' = [job EXCEPT ![w] = job'[w]] /\ job'[w] \in Jobs
             /\ job'[w].pc = "writing" /\ job'[w].event = e
             /\ job'[w].inserted = job[w].inserted /\ job'[w].product = p
             /\ job'[w].old = row[p] /\ job'[w].new = made(p)
             /\ job'[w].error = job[w].error
  BY <1>1, <1>4, <1>5 DEF Jobs
<1>6. ASSUME NEW p \in Target(e),
             job' = [job EXCEPT ![w] = [Written(p) EXCEPT !.error = "sync"]]
      PROVE  /\ job' = [job EXCEPT ![w] = job'[w]] /\ job'[w] \in Jobs
             /\ job'[w].pc = "writing" /\ job'[w].event = e
             /\ job'[w].inserted = job[w].inserted /\ job'[w].product = p
             /\ job'[w].old = row[p] /\ job'[w].new = made(p)
  BY <1>1, <1>4, <1>6 DEF Jobs
<1>7. \/ Target(e) = {} /\ job' = [job EXCEPT ![w] = [@ EXCEPT !.pc = "writing"]]
      \/ job' = [job EXCEPT ![w] = [@ EXCEPT !.pc = "writing", !.error = "retrieve"]]
      \/ \E p \in Target(e) :
            \/ job' = [job EXCEPT ![w] = Written(p)]
            \/ /\ made(p).tier # Found(p, row[p]).tier
               /\ job' = [job EXCEPT ![w] = [Written(p) EXCEPT !.error = "sync"]]
  <2>1. \A p : Written(p).new = made(p)
    BY <1>1 DEF Jobs
  <2> QED
    BY <2>1 DEF ReadRow, made
<1> DEFINE Kept == /\ job' = [job EXCEPT ![w] = job'[w]] /\ job'[w] \in Jobs
                   /\ job'[w].pc = "writing" /\ job'[w].event = e
                   /\ job'[w].inserted = job[w].inserted
<1>8. CASE Target(e) = {} /\ job' = [job EXCEPT ![w] = [@ EXCEPT !.pc = "writing"]]
  BY <1>2, <1>8
<1>9. CASE job' = [job EXCEPT ![w] = [@ EXCEPT !.pc = "writing", !.error = "retrieve"]]
  BY <1>3, <1>9
<1>10. ASSUME NEW p \in Target(e),
              \/ job' = [job EXCEPT ![w] = Written(p)]
              \/ /\ made(p).tier # Found(p, row[p]).tier
                 /\ job' = [job EXCEPT ![w] = [Written(p) EXCEPT !.error = "sync"]]
       PROVE  /\ Kept /\ Writes(w, p)
              /\ job'[w].error = job[w].error \/ e[1] \in {"checkout", "deleted"}
  <2> HIDE DEF Written
  <2>1. Kept /\ job'[w].product = p /\ job'[w].old = row[p] /\ job'[w].new = made(p)
    BY <1>5, <1>6, <1>10
  <2>2. job'[w].error = job[w].error \/ e[1] \in {"checkout", "deleted"}
    BY <1>4, <1>5, <1>10
  <2> QED
    BY <2>1, <2>2 DEF Writes, made
<1> HIDE DEF Written
<1> QED
  BY <1>7, <1>8, <1>9, <1>10

LEMMA ReadRowType ==
    ASSUME TypeOK, NEW w \in Workers, ReadRow(w), job[w].event \in Events
    PROVE  TypeOK'
<1>1. job' = [job EXCEPT ![w] = job'[w]] /\ job'[w] \in Jobs
  BY ReadRowParts
<1>2. UNCHANGED <<customer, account, stripe, seen, row, outbox, log, history, crashes>>
  BY DEF ReadRow
<1>3. /\ row \in [Products -> Rows] /\ outbox \subseteq Events
      /\ log \in [Events -> {"absent", "unprocessed", "processed"}]
      /\ applied \in [Events -> Nat] /\ retried \subseteq Events
      /\ error \in [Events -> {"none", "retrieve", "sync"}]
  BY DEF TypeOK
<1> DEFINE j == job'[w]
<1> HIDE DEF j
<1> QED
  BY <1>1, <1>2, <1>3, WorkerType DEF history, j

LEMMA CommitEventType ==
    ASSUME LogInv, NEW w \in Workers, CommitEvent(w)
    PROVE  TypeOK'
<1> DEFINE j == job[w]
<1>1. j \in Jobs /\ j.event \in Events /\ TypeOK
  BY DEF LogInv, KnowsLog, CommitEvent, TypeOK
<1>2. CASE Conflict(j)
  BY <1>1, <1>2, RejectType DEF CommitEvent
<1>3. CASE ~Conflict(j)
  <2>1. row' \in [Products -> Rows]
    <3>1. CASE j.product = "none"
      BY <1>1, <1>3, <3>1 DEF CommitEvent, TypeOK
    <3>2. CASE j.product # "none"
      <4>1. j.product \in Products /\ j.old \in Rows /\ j.new \in Rows
        BY <1>1, <3>2 DEF Jobs
      <4>2. Merge(row[j.product], j.old, j.new) \in Rows
        BY <1>1, <4>1, MergeType DEF TypeOK
      <4> QED
        BY <1>1, <1>3, <3>2, <4>1, <4>2 DEF CommitEvent, TypeOK
    <3> QED
      BY <3>1, <3>2
  <2>2. log' \in [Events -> {"absent", "unprocessed", "processed"}]
    BY <1>1, <1>3 DEF CommitEvent, Logged, TypeOK
  <2>3. /\ applied' \in [Events -> Nat] /\ retried' \subseteq Events
        /\ error' \in [Events -> {"none", "retrieve", "sync"}]
    BY <1>1, <1>3 DEF CommitEvent, TypeOK, Jobs
  <2>4. [Idle EXCEPT !.pc = "responding", !.event = j.event] \in Jobs
    BY <1>1, StepType
  <2> QED
    BY <1>1, <1>3, <2>1, <2>2, <2>3, <2>4, WorkerType DEF CommitEvent, TypeOK
<1> QED
  BY <1>2, <1>3

LEMMA DeleteType ==
    ASSUME TypeOK, CancelBeforeDelete \/ DeleteUser \/ Crash
    PROVE  TypeOK'
<1>1. CASE CancelBeforeDelete
  <2> DEFINE own == row["consumer"]
  <2>1. CASE UNCHANGED <<stage, emitted, outbox>>
    BY <1>1, <2>1 DEF CancelBeforeDelete, TypeOK, choices, history, Rows, Jobs
  <2>2. CASE own.ext # NoSub /\ stage' = [stage EXCEPT ![own.ext] = "deleted"]
             /\ Emit({<<"deleted", own.ext>>})
    <3>1. own.ext \in Subs
      BY <2>2 DEF TypeOK, Rows, Products
    <3>2. {<<"deleted", own.ext>>} \in SUBSET Events
      BY <3>1 DEF Events, EventTypes, Rank
    <3>3. emitted' \subseteq Events /\ outbox' \subseteq Events
      BY <2>2, <3>2, EmitType
    <3> QED
      BY <1>1, <2>2, <3>1, <3>3 DEF CancelBeforeDelete, TypeOK, choices, history, Rows, Jobs
  <2> QED
    BY <1>1, <2>1, <2>2 DEF CancelBeforeDelete
<1>2. CASE DeleteUser
  BY <1>2, IdleType DEF DeleteUser, TypeOK, stripe, choices, history, Jobs
<1>3. CASE Crash
  BY <1>3, IdleType, StripeAssumption DEF Crash, TypeOK, stripe, choices, history, Rows
<1> QED
  BY <1>1, <1>2, <1>3
-----------------------------------------------------------------------------
LEMMA LogInit == Init => LogInv
BY TypeInit DEF Init, LogInv, OneInserts, RefusedOnRecord, KnowsLog, FailsHalfway, Idle

LEMMA RejectKeeps ==
    ASSUME LogInv, NEW w \in Workers, Reject(w)
    PROVE  LogInv'
<1>1. TypeOK'
  BY RejectType DEF LogInv
<1>2. job' = [job EXCEPT ![w] = Idle] /\ UNCHANGED <<log, retried, applied>>
  BY DEF Reject, history
<1> QED
  BY <1>1, <1>2 DEF LogInv, TypeOK, OneInserts, RefusedOnRecord, KnowsLog, FailsHalfway, Idle

(* The steps that leave deliveries and log alone. *)
LEMMA OthersKeep ==
    ASSUME LogInv, TypeOK', UNCHANGED <<log, job, retried, applied>>
    PROVE  LogInv'
BY DEF LogInv, OneInserts, RefusedOnRecord, KnowsLog, FailsHalfway

(* A step of one delivery that writes nothing to the log. *)
LEMMA WorkerKeeps ==
    ASSUME LogInv, TypeOK', NEW w \in Workers, NEW j \in Jobs,
           job' = [job EXCEPT ![w] = j], UNCHANGED <<log, retried, applied>>,
           j.pc # "idle" => j.event \in Events,
           j.inserted => /\ j.pc \in {"handling", "writing"} /\ log[j.event] = "absent"
                         /\ \A v \in Workers \ {w} :
                              job[v].inserted => job[v].event # j.event,
           j.pc \in {"handling", "writing"} => j.inserted \/ j.event \in retried,
           FailsHalfway(j)
    PROVE  LogInv'
<1>1. \A v \in Workers : job'[v] = IF v = w THEN j ELSE job[v]
  BY DEF LogInv, TypeOK
<1> QED
  BY <1>1 DEF LogInv, OneInserts, RefusedOnRecord, KnowsLog, FailsHalfway

LEMMA ReceiveKeeps ==
    ASSUME LogInv, NEW w \in Workers, NEW e \in outbox, Receive(w, e)
    PROVE  LogInv'
<1>1. e \in Events /\ TypeOK' /\ UNCHANGED <<log, retried, applied>>
  BY ReceiveType DEF LogInv, TypeOK, Receive, history
<1>2. CASE log[e] = "processed"
  BY <1>1, <1>2, OthersKeep DEF Receive
<1>3. CASE log[e] # "processed"
  <2>1. log[e] # "absent" => e \in retried
    BY <1>1, <1>3 DEF LogInv, TypeOK, RefusedOnRecord
  <2> DEFINE j == [Idle EXCEPT !.event = e,
                               !.pc = IF log[e] = "absent" THEN "inserting" ELSE "handling"]
  <2>2. j \in Jobs /\ j.event = e /\ ~j.inserted /\ FailsHalfway(j)
        /\ j.pc = IF log[e] = "absent" THEN "inserting" ELSE "handling"
    BY <1>1, IdleType, StepType DEF Idle, FailsHalfway
  <2>3. job' = [job EXCEPT ![w] = j]
    BY <1>3 DEF Receive
  <2> HIDE DEF j
  <2> QED
    BY <1>1, <2>1, <2>2, <2>3, WorkerKeeps
<1> QED
  BY <1>2, <1>3

LEMMA RecordKeeps ==
    ASSUME LogInv, NEW w \in Workers, RecordEvent(w)
    PROVE  LogInv'
<1>1. CASE Reject(w)
  BY <1>1, RejectKeeps
<1>2. CASE ~Reject(w)
  <2> DEFINE j == [job[w] EXCEPT !.pc = "handling", !.inserted = TRUE]
  <2>1. job[w] \in Jobs /\ job[w].event \in Events
    BY DEF LogInv, TypeOK, KnowsLog, RecordEvent
  <2>2. j \in Jobs
    BY <2>1, StepType
  <2>5. /\ j.event = job[w].event /\ j.pc = "handling" /\ (j.inserted <=> TRUE)
        /\ FailsHalfway(j)
    BY <2>1 DEF Jobs, LogInv, KnowsLog, FailsHalfway, RecordEvent
  <2>3. /\ job' = [job EXCEPT ![w] = j] /\ UNCHANGED <<log, retried, applied>>
        /\ UNCHANGED <<customer, account, stripe, seen, row, outbox, error, crashes>>
        /\ log[job[w].event] = "absent"
        /\ \A v \in Workers \ {w} : job[v].inserted => job[v].event # job[w].event
    BY <1>2 DEF RecordEvent, EventLocked, history
  <2> HIDE DEF j
  <2>4. TypeOK'
    BY <2>2, <2>3, WorkerType DEF LogInv, TypeOK
  <2> QED
    BY <2>1, <2>2, <2>3, <2>4, <2>5, WorkerKeeps
<1> QED
  BY <1>1, <1>2

LEMMA ReadRowKeeps ==
    ASSUME LogInv, NEW w \in Workers, ReadRow(w)
    PROVE  LogInv'
<1>1. /\ job[w] \in Jobs /\ job[w].pc = "handling" /\ job[w].event \in Events
      /\ UNCHANGED <<log, retried, applied>> /\ TypeOK
  BY DEF LogInv, TypeOK, KnowsLog, ReadRow, history
<1>2. TypeOK'
  BY <1>1, ReadRowType
<1>3. /\ job' = [job EXCEPT ![w] = job'[w]] /\ job'[w] \in Jobs
      /\ job'[w].pc = "writing" /\ job'[w].event = job[w].event
      /\ job'[w].inserted = job[w].inserted
      /\ \/ job'[w].product = job[w].product
         \/ job'[w].error = job[w].error \/ job[w].event[1] \in {"checkout", "deleted"}
  BY <1>1, ReadRowParts
<1>4. FailsHalfway(job'[w])
  BY <1>1, <1>3 DEF LogInv, KnowsLog, FailsHalfway
<1> QED
  BY <1>1, <1>2, <1>3, <1>4, WorkerKeeps DEF LogInv, KnowsLog, OneInserts

(* The commit is the only step that writes to the log. *)
LEMMA CommitWrites ==
    ASSUME LogInv, NEW w \in Workers, CommitEvent(w), ~Conflict(job[w])
    PROVE  /\ job[w].event \in Events
           /\ job[w].inserted => log[job[w].event] = "absent"
           /\ ~job[w].inserted => job[w].event \in retried
           /\ log' = [log EXCEPT ![job[w].event] = Logged(job[w])]
           /\ retried' = IF Succeeds(job[w]) THEN retried
                         ELSE retried \cup {job[w].event}
           /\ applied' = IF job[w].product # "none"
                         THEN [applied EXCEPT ![job[w].event] = @ + 1] ELSE applied
BY DEF LogInv, TypeOK, KnowsLog, CommitEvent

LEMMA CommitFrees ==
    ASSUME LogInv, NEW w \in Workers, CommitEvent(w), ~Conflict(job[w])
    PROVE  \A v \in Workers : job'[v] =
                IF v = w THEN [Idle EXCEPT !.pc = "responding", !.event = job[w].event]
                ELSE job[v]
BY DEF LogInv, TypeOK, CommitEvent

LEMMA CommitKeeps ==
    ASSUME LogInv, NEW w \in Workers, CommitEvent(w)
    PROVE  LogInv'
<1>1. CASE Conflict(job[w])
  BY <1>1, RejectKeeps DEF CommitEvent
<1>2. CASE ~Conflict(job[w])
  <2> DEFINE e == job[w].event
             j == [Idle EXCEPT !.pc = "responding", !.event = e]
  <2>1. TypeOK' /\ TypeOK
    BY CommitEventType DEF LogInv
  <2>2. e \in Events /\ (job[w].inserted => log[e] = "absent")
        /\ (~job[w].inserted => e \in retried)
    BY <1>2, CommitWrites
  <2>3. /\ log' = [log EXCEPT ![e] = Logged(job[w])]
        /\ retried' = IF Succeeds(job[w]) THEN retried ELSE retried \cup {e}
        /\ applied' = IF job[w].product # "none" THEN [applied EXCEPT ![e] = @ + 1]
                      ELSE applied
    BY <1>2, CommitWrites
  <2>4. \A x \in Events : log'[x] = IF x = e THEN Logged(job[w]) ELSE log[x]
    BY <2>1, <2>2, <2>3 DEF TypeOK
  <2>11. \A x \in Events : applied[x] \in Nat /\ applied'[x] >= applied[x]
                           /\ (x = e /\ job[w].product # "none" => applied'[x] > 0)
    BY <2>1, <2>2, <2>3 DEF TypeOK
  <2>5. /\ Logged(job[w]) # "absent"
        /\ Logged(job[w]) = "unprocessed" => e \in retried'
        /\ Logged(job[w]) = "processed" => applied'[e] > 0
    BY <2>1, <2>2, <2>3, <2>11 DEF Logged, Succeeds, LogInv, RefusedOnRecord, TypeOK
  <2>6. j.pc = "responding" /\ j.event = e /\ ~j.inserted /\ FailsHalfway(j)
    BY IdleType DEF Idle, FailsHalfway
  <2>7. \A v \in Workers : job'[v] = IF v = w THEN j ELSE job[v]
    BY <1>2, CommitFrees
  <2> HIDE DEF e, j
  <2>8. RefusedOnRecord'
    <3>1. \A x \in retried' : log'[x] # "absent"
      BY <2>1, <2>2, <2>3, <2>4, <2>5 DEF LogInv, RefusedOnRecord, TypeOK
    <3>2. \A x \in Events : /\ log'[x] = "unprocessed" => x \in retried'
                            /\ log'[x] = "processed" => applied'[x] > 0
                            /\ log'[x] = "absent" => applied'[x] = 0
      <4> TAKE x \in Events
      <4>1. CASE x = e
        BY <2>4, <2>5, <4>1
      <4>2. CASE x # e
        <5>1. applied'[x] = applied[x] /\ (x \in retried' <=> x \in retried)
          BY <2>1, <2>2, <2>3, <4>2 DEF TypeOK
        <5> QED
          BY <2>4, <4>2, <5>1 DEF LogInv, RefusedOnRecord
      <4> QED
        BY <4>1, <4>2
    <3> QED
      BY <3>1, <3>2 DEF RefusedOnRecord
  <2>9. OneInserts'
    BY <2>6, <2>7 DEF LogInv, OneInserts
  <2>10. ASSUME NEW v \in Workers PROVE KnowsLog(v)'
    <3>1. CASE v = w
      BY <2>2, <2>6, <2>7, <3>1 DEF KnowsLog
    <3>2. CASE v # w
      <4>1. KnowsLog(v) /\ job'[v] = job[v]
        BY <2>7, <3>2 DEF LogInv
      <4>2. job[v].inserted => job[v].event # e
        <5>1. CASE job[w].inserted
          BY <3>2, <5>1 DEF e, LogInv, OneInserts
        <5>2. CASE ~job[w].inserted
          BY <2>2, <4>1, <5>2 DEF KnowsLog, LogInv, RefusedOnRecord
        <5> QED
          BY <5>1, <5>2
      <4> QED
        BY <2>3, <2>4, <4>1, <4>2 DEF KnowsLog, FailsHalfway
    <3> QED
      BY <3>1, <3>2
  <2> QED
    BY <2>1, <2>8, <2>9, <2>10 DEF LogInv
<1> QED
  BY <1>1, <1>2

LEMMA RespondKeeps ==
    ASSUME LogInv, NEW w \in Workers, Respond(w)
    PROVE  LogInv'
<1>1. TypeOK' /\ UNCHANGED <<log, retried, applied>> /\ job' = [job EXCEPT ![w] = Idle]
  BY IdleType DEF LogInv, Respond, Answer, TypeOK, stripe, choices, history, Rows
<1> QED
  BY <1>1, IdleType, WorkerKeeps DEF Idle, FailsHalfway

LEMMA CrashKeeps == LogInv /\ Crash => LogInv'
<1> SUFFICES ASSUME LogInv, Crash PROVE LogInv'
  OBVIOUS
<1>1. TypeOK'
  BY DeleteType DEF LogInv
<1>2. UNCHANGED <<log, retried, applied>> /\ \A w \in Workers : job'[w] = Idle
  BY DEF Crash, history
<1> QED
  BY <1>1, <1>2 DEF LogInv, OneInserts, RefusedOnRecord, KnowsLog, FailsHalfway, Idle

LEMMA LogNext == LogInv /\ [Next]_vars => LogInv'
<1> SUFFICES ASSUME LogInv, [Next]_vars PROVE LogInv'
  OBVIOUS
<1>1. ASSUME NEW s \in Subs,
             \/ LoadUser(s) \/ OpenSession(s) \/ Pay(s)
             \/ FailInvoice(s) \/ Recover(s) \/ EndSubscription(s)
      PROVE  LogInv'
  <2>1. TypeOK'
    BY <1>1, CheckoutType, StripeType DEF LogInv
  <2>2. UNCHANGED <<log, job, retried, applied>>
    BY <1>1 DEF LoadUser, OpenSession, Pay, FailInvoice, Recover, EndSubscription,
                StripeMoves, history
  <2> QED
    BY <2>1, <2>2, OthersKeep
<1>2. ASSUME NEW w \in Workers, Deliver(w) PROVE LogInv'
  BY <1>2, ReceiveKeeps, RecordKeeps, ReadRowKeeps, CommitKeeps, RespondKeeps DEF Deliver
<1>3. CASE CancelBeforeDelete \/ DeleteUser
  <2>1. TypeOK' /\ UNCHANGED <<log, job, retried, applied>>
    BY <1>3, DeleteType DEF LogInv, CancelBeforeDelete, DeleteUser, history
  <2> QED
    BY <2>1, OthersKeep
<1>4. CASE Crash
  BY <1>4, CrashKeeps
<1>5. CASE UNCHANGED vars
  <2>1. TypeOK' /\ UNCHANGED <<log, job, retried, applied>>
    BY <1>5 DEF LogInv, TypeOK, vars, stripe, choices, history, Rows, Jobs
  <2> QED
    BY <2>1, OthersKeep
<1> QED
  BY <1>1, <1>2, <1>3, <1>4, <1>5 DEF Next
-----------------------------------------------------------------------------
(* Rows, events and deliveries are always well formed: whatever columns a   *)
(* stale delivery overwrites, the rows are rows (stripe_service.py:95-417). *)
THEOREM TypeCorrect == Spec => []TypeOK
<1>1. LogInv => TypeOK
  BY DEF LogInv
<1> QED
  BY <1>1, LogInit, LogNext, PTL DEF Spec

-----------------------------------------------------------------------------
(* With one delivery at a time a stale read can only be of a row that is    *)
(* gone by the commit, and a row that names a subscription was bought.      *)
IdleElsewhere == \A w \in Workers \ setting.pool : job[w] = Idle

Bought(r, p) ==
    r.ext # NoSub => r.tier = tierOf[r.ext] /\ Product(r.ext) = p /\ r.stripe

WritesBought(j) ==
    /\ j.pc # "writing" => j.product = "none"
    /\ j.product # "none" =>
         /\ Bought(j.new, j.product)
         /\ row[j.product] = j.old \/ (row[j.product] = Absent /\ j.old # Absent)

RowInv ==
    /\ \A p \in Products : Bought(row[p], p)
    /\ \A w \in Workers : WritesBought(job[w])

TierInv == LogInv /\ IdleElsewhere /\ (OneAtATime => RowInv)

LEMMA MergeSame ==
    ASSUME NEW old \in Rows, NEW new \in Rows
    PROVE  Merge(old, old, new) = new
<1>1. Merge(old, old, new) \in Rows
  BY MergeType
<1>2. /\ Merge(old, old, new).tier = new.tier
      /\ Merge(old, old, new).status = new.status
      /\ Merge(old, old, new).stripe = new.stripe
      /\ Merge(old, old, new).ext = new.ext
  BY DEF Merge, Rows
<1> QED
  BY <1>1, <1>2 DEF Rows

(* What a handler makes of the row it finds is a row that was bought.       *)
LEMMA OutcomeBought ==
    ASSUME TypeOK, RowInv, NEW e \in Events, NEW p \in Target(e),
           NEW old \in Rows, old = row[p] \/ old = Default(p)
    PROVE  Bought(Outcome(e, old), p)
<1>1. e[2] \in Subs /\ p \in Products
  BY EventParts, TargetType
<1>2. Bought(old, p)
  BY <1>1 DEF RowInv, Default, FreeRow, Bought
<1>3. CASE e[1] = "checkout"
  <2>1. p = Product(e[2])
    BY <1>3 DEF Target
  <2> QED
    BY <1>3, <2>1 DEF Outcome, Bought
<1>4. CASE e[1] = "deleted"
  <2>1. row[p].ext = e[2]
    BY <1>4 DEF Target, Mirrors
  <2>2. Outcome(e, old) = Ended(old)
    BY <1>4 DEF Outcome
  <2>3. Ended(old).ext = NoSub
    BY DEF Ended, FreeRow, Rows
  <2> QED
    BY <2>2, <2>3 DEF Bought
<1>5. CASE e[1] # "checkout" /\ e[1] # "deleted"
  <2>1. Outcome(e, old) = [old EXCEPT !.status = InvoiceStatus(e[1])]
    BY <1>5 DEF Outcome
  <2> DEFINE new == [old EXCEPT !.status = InvoiceStatus(e[1])]
  <2>2. new.ext = old.ext /\ new.tier = old.tier /\ (new.stripe <=> old.stripe)
    BY DEF Rows
  <2> QED
    BY <1>2, <2>1, <2>2 DEF Bought
<1> QED
  BY <1>3, <1>4, <1>5

LEMMA RowInit == Init => RowInv
BY DEF Init, RowInv, Bought, WritesBought, Products, FreeRow, EndedB2B, Absent, Idle

LEMMA RowsKept ==
    ASSUME LogInv, RowInv, UNCHANGED <<row, tierOf>>,
           \A w \in Workers : job'[w] = job[w] \/ WritesBought(job'[w])
    PROVE  RowInv'
BY DEF RowInv, WritesBought, Bought, Product

LEMMA ReadRowBought ==
    ASSUME LogInv, RowInv, NEW w \in Workers, ReadRow(w)
    PROVE  RowInv'
<1> DEFINE e == job[w].event
<1>1. /\ TypeOK /\ job[w] \in Jobs /\ e \in Events /\ w \in DOMAIN job
      /\ UNCHANGED <<row, tierOf>> /\ \A v \in Workers \ {w} : job'[v] = job[v]
      /\ job[w].product = "none"
  BY DEF LogInv, TypeOK, KnowsLog, RowInv, WritesBought, ReadRow, stripe, choices
<1>2. \/ job'[w].product = "none"
      \/ \E p \in Target(e) : Writes(w, p)
  BY <1>1, ReadRowParts
<1>3. job'[w].pc = "writing"
  BY <1>1, ReadRowParts
<1>4. ASSUME NEW p \in Target(e), Writes(w, p)
      PROVE  WritesBought(job'[w])
  <2>1. p \in Products /\ row[p] \in Rows /\ Found(p, row[p]) \in Rows
        /\ Found(p, row[p]) \in {row[p], Default(p)}
    BY <1>1, TargetType, IdleType DEF TypeOK, Found, Default, FreeRow, Rows
  <2>2. Bought(Outcome(e, Found(p, row[p])), p)
    BY <1>1, <2>1, OutcomeBought
  <2> QED
    BY <1>3, <1>4, <2>2 DEF Writes, WritesBought
<1>5. WritesBought(job'[w])
  BY <1>2, <1>3, <1>4 DEF WritesBought
<1> QED
  BY <1>1, <1>5, RowsKept

LEMMA CommitBought ==
    ASSUME OneAtATime, IdleElsewhere, LogInv, RowInv, NEW w \in Workers, CommitEvent(w)
    PROVE  RowInv'
<1> DEFINE j == job[w]
<1>1. /\ j \in Jobs /\ TypeOK /\ tierOf' = tierOf /\ w \in DOMAIN job
  BY DEF LogInv, TypeOK, CommitEvent, Reject, stripe, choices
<1>2. \A v \in Workers : v = w \/ job[v] = Idle
  <2>1. job[w] # Idle
    BY DEF CommitEvent, Idle
  <2> QED
    BY <2>1 DEF OneAtATime, IdleElsewhere
<1>3. \A v \in Workers \ {w} : job'[v] = job[v]
  BY <1>1 DEF CommitEvent, Reject, TypeOK
<1>4. CASE Conflict(j)
  <2>1. job'[w] = Idle /\ row' = row
    BY <1>1, <1>4 DEF CommitEvent, Reject
  <2> QED
    BY <1>1, <1>3, <2>1, RowsKept DEF WritesBought, Idle
<1>5. CASE ~Conflict(j)
  <2>1. /\ job'[w] = [Idle EXCEPT !.pc = "responding", !.event = j.event]
        /\ row' = IF j.product # "none"
                  THEN [row EXCEPT ![j.product] = Merge(@, j.old, j.new)] ELSE row
    BY <1>1, <1>5 DEF CommitEvent
  <2>2. job'[w].pc = "responding" /\ job'[w].product = "none"
    BY <2>1 DEF Idle
  <2>3. CASE j.product = "none"
    BY <1>1, <1>3, <2>1, <2>2, <2>3, RowsKept DEF WritesBought
  <2>4. CASE j.product # "none"
    <3>1. j.product \in Products /\ j.old \in Rows /\ j.new \in Rows
      BY <1>1, <2>4 DEF Jobs
    <3>2. row[j.product] = j.old /\ Bought(j.new, j.product)
      BY <1>5, <2>4 DEF RowInv, WritesBought, Conflict
    <3>3. Merge(row[j.product], j.old, j.new) = j.new
      BY <3>1, <3>2, MergeSame
    <3>4. \A p \in Products : row'[p] = IF p = j.product THEN j.new ELSE row[p]
      BY <1>1, <2>1, <2>4, <3>1, <3>3 DEF TypeOK
    <3>5. \A p \in Products : Bought(row'[p], p)
      BY <3>2, <3>4 DEF RowInv
    <3>6. \A p \in Products : Bought(row[p], p)'
      BY <1>1, <3>5 DEF Bought, Product
    <3>7. \A v \in Workers : v = w \/ job'[v] = Idle
      BY <1>2, <1>3
    <3>8. \A v \in Workers : WritesBought(job[v])'
      BY <2>2, <3>7 DEF WritesBought, Idle
    <3> QED
      BY <3>6, <3>8 DEF RowInv
  <2> QED
    BY <2>3, <2>4
<1> QED
  BY <1>4, <1>5

LEMMA DeleteBought ==
    ASSUME LogInv, RowInv, DeleteUser
    PROVE  RowInv'
<1>1. \A p \in Products : row'[p] = Absent
  BY DEF DeleteUser
<1>2. \A p \in Products : Bought(row[p], p)'
  BY <1>1 DEF Bought, Absent
<1>3. ASSUME NEW w \in Workers PROVE WritesBought(job[w])'
  <2>1. /\ job[w] \in Jobs /\ job' = job /\ tierOf' = tierOf
        /\ WritesBought(job[w]) /\ ~Inserts(job[w])
    BY DEF LogInv, TypeOK, RowInv, DeleteUser, stripe, choices
  <2>2. CASE job[w].product = "none"
    BY <2>1, <2>2 DEF WritesBought
  <2>3. CASE job[w].product # "none"
    <3>1. job[w].product \in Products /\ job[w].pc = "writing" /\ job[w].old # Absent
      BY <2>1, <2>3 DEF WritesBought, Inserts, Jobs
    <3>2. Bought(job[w].new, job[w].product)'
      BY <2>1, <2>3 DEF WritesBought, Bought, Product
    <3> QED
      BY <1>1, <2>1, <3>1, <3>2 DEF WritesBought
  <2> QED
    BY <2>2, <2>3
<1> QED
  BY <1>2, <1>3 DEF RowInv

LEMMA RowNext ==
    ASSUME OneAtATime, IdleElsewhere, LogInv, RowInv, [Next]_vars
    PROVE  RowInv'
<1>1. CASE UNCHANGED <<row, tierOf, job>>
  BY <1>1, RowsKept
<1>2. ASSUME NEW w \in Workers, Deliver(w) PROVE RowInv'
  <2>1. ASSUME NEW e \in outbox, Receive(w, e) PROVE RowInv'
    <3>1. /\ UNCHANGED <<row, tierOf>> /\ \A v \in Workers \ {w} : job'[v] = job[v]
          /\ job' = job \/ (job'[w].pc # "writing" /\ job'[w].product = "none")
      BY <2>1 DEF Receive, LogInv, TypeOK, stripe, choices, Idle
    <3> QED
      BY <3>1, RowsKept DEF WritesBought
  <2>2. CASE RecordEvent(w)
    <3>1. /\ job[w] \in Jobs /\ job[w].product = "none" /\ w \in DOMAIN job
          /\ UNCHANGED <<row, tierOf>> /\ \A v \in Workers \ {w} : job'[v] = job[v]
      BY <2>2 DEF RecordEvent, Reject, LogInv, TypeOK, RowInv, WritesBought, stripe, choices
    <3>2. job'[w].pc # "writing" /\ job'[w].product = "none"
      <4>1. CASE job' = [job EXCEPT ![w] = Idle]
        BY <3>1, <4>1 DEF Idle
      <4>2. CASE job' = [job EXCEPT ![w] = [@ EXCEPT !.pc = "handling", !.inserted = TRUE]]
        BY <3>1, <4>2 DEF Jobs
      <4> QED
        BY <2>2, <4>1, <4>2 DEF RecordEvent, Reject
    <3> QED
      BY <3>1, <3>2, RowsKept DEF WritesBought
  <2>3. CASE Respond(w)
    <3>1. /\ UNCHANGED <<row, tierOf>> /\ \A v \in Workers : job'[v] = job[v] \/ job'[v] = Idle
      BY <2>3 DEF Respond, LogInv, TypeOK, stripe, choices
    <3> QED
      BY <3>1, RowsKept DEF WritesBought, Idle
  <2> QED
    BY <1>2, <2>1, <2>2, <2>3, ReadRowBought, CommitBought DEF Deliver
<1>3. CASE DeleteUser
  BY <1>3, DeleteBought
<1>4. CASE Crash
  <2>1. UNCHANGED <<row, tierOf>> /\ \A w \in Workers : job'[w] = Idle
    BY <1>4 DEF Crash, stripe, choices
  <2> QED
    BY <2>1, RowsKept DEF WritesBought, Idle
<1>5. ASSUME NEW s \in Subs,
             \/ LoadUser(s) \/ OpenSession(s) \/ Pay(s)
             \/ FailInvoice(s) \/ Recover(s) \/ EndSubscription(s)
      PROVE  UNCHANGED <<row, tierOf, job>>
  BY <1>5 DEF LoadUser, OpenSession, Pay, FailInvoice, Recover, EndSubscription,
              StripeMoves, choices
<1>6. CASE CancelBeforeDelete
  BY <1>1, <1>6 DEF CancelBeforeDelete, choices
<1>7. CASE UNCHANGED vars
  BY <1>1, <1>7 DEF vars, stripe, choices
<1> QED
  BY <1>1, <1>2, <1>3, <1>4, <1>5, <1>6, <1>7 DEF Next

(* A worker that is not of the pool never gets a delivery. *)
LEMMA ElsewhereNext ==
    ASSUME TypeOK, IdleElsewhere, [Next]_vars
    PROVE  IdleElsewhere' /\ setting' = setting
<1>1. setting' = setting
  <2>1. CASE \E w \in Workers : Deliver(w)
    BY <2>1 DEF Deliver, Receive, RecordEvent, ReadRow, CommitEvent, Reject, Respond,
                stripe, choices
  <2>2. CASE \E s \in Subs : \/ LoadUser(s) \/ OpenSession(s) \/ Pay(s)
                            \/ FailInvoice(s) \/ Recover(s) \/ EndSubscription(s)
    BY <2>2 DEF LoadUser, OpenSession, Pay, FailInvoice, Recover, EndSubscription,
                StripeMoves, choices
  <2>3. CASE CancelBeforeDelete \/ DeleteUser \/ Crash \/ UNCHANGED vars
    BY <2>3 DEF CancelBeforeDelete, DeleteUser, Crash, vars, stripe, choices
  <2> QED
    BY <2>1, <2>2, <2>3 DEF Next
<1>2. ASSUME NEW w \in Workers \ setting.pool PROVE job'[w] = Idle
  <2>1. job[w] = Idle /\ w \in DOMAIN job
    BY DEF IdleElsewhere, TypeOK
  <2>2. ASSUME NEW v \in Workers, Deliver(v)
        PROVE  v # w \/ UNCHANGED job
    <3>1. job[v].pc # "idle" => v # w
      BY <2>1 DEF Idle
    <3>2. ASSUME NEW e \in outbox, Receive(v, e) PROVE v # w
      BY <3>2 DEF Receive
    <3> QED
      BY <2>2, <3>1, <3>2 DEF Deliver, RecordEvent, ReadRow, CommitEvent, Respond
  <2>3. ASSUME NEW v \in Workers, Deliver(v), v # w
        PROVE  job'[w] = job[w]
    BY <2>3 DEF Deliver, Receive, RecordEvent, ReadRow, CommitEvent, Reject, Respond, TypeOK
  <2>4. CASE \E s \in Subs : \/ LoadUser(s) \/ OpenSession(s) \/ Pay(s)
                            \/ FailInvoice(s) \/ Recover(s) \/ EndSubscription(s)
    BY <2>1, <2>4 DEF LoadUser, OpenSession, Pay, FailInvoice, Recover, EndSubscription,
                      StripeMoves
  <2>5. CASE CancelBeforeDelete \/ DeleteUser \/ Crash \/ UNCHANGED vars
    BY <2>1, <2>5 DEF CancelBeforeDelete, DeleteUser, Crash, vars
  <2> QED
    BY <2>1, <2>2, <2>3, <2>4, <2>5 DEF Next
<1> QED
  BY <1>1, <1>2 DEF IdleElsewhere

LEMMA TierInit == Init => TierInv
BY LogInit, RowInit DEF TierInv, Init, IdleElsewhere

LEMMA TierNext == TierInv /\ [Next]_vars => TierInv'
<1> SUFFICES ASSUME TierInv, [Next]_vars PROVE TierInv'
  OBVIOUS
<1>1. LogInv /\ TypeOK /\ IdleElsewhere /\ (OneAtATime => RowInv)
  BY DEF TierInv, LogInv
<1>2. LogInv'
  BY <1>1, LogNext
<1>3. IdleElsewhere' /\ setting' = setting
  BY <1>1, ElsewhereNext
<1>4. OneAtATime' => OneAtATime
  BY <1>3 DEF OneAtATime
<1>5. OneAtATime => RowInv'
  BY <1>1, RowNext
<1> QED
  BY <1>2, <1>3, <1>4, <1>5 DEF TierInv

(* When deliveries do not overlap, whatever else does - checkouts, crashes, *)
(* the deletion of the account - and in whatever order events arrive, the   *)
(* row that names a Stripe subscription has the tier that was paid for with *)
(* it (stripe_b2b.py:104-105, stripe_service.py:164-378).                   *)
THEOREM TierIsPaidFor == Spec => []TierMatchesSubscription
<1>1. TierInv => TierMatchesSubscription
  BY DEF TierInv, RowInv, Bought, TierMatchesSubscription
<1> QED
  BY <1>1, TierInit, TierNext, PTL DEF Spec
-----------------------------------------------------------------------------
(* MirrorsStripe.  First what holds of Stripe's side and of the customers,  *)
(* however deliveries overlap.                                              *)

\* The types of the events that Stripe has sent of s.
Sent(s) == {t \in EventTypes : <<t, s>> \in emitted}

SentByStage(s) ==
    /\ stage[s] \in {"idle", "loaded", "open"} => Sent(s) = {}
    /\ stage[s] = "active" =>
          Sent(s) \in {{"checkout", "paid"}, {"checkout", "paid", "failed", "recovered"}}
    /\ stage[s] = "past_due" => Sent(s) = {"checkout", "paid", "failed"}
    /\ stage[s] = "deleted" => {"checkout", "paid", "deleted"} \subseteq Sent(s)

(* What is delivered or on record was sent, and a delivery that is about to *)
(* be answered is on record.                                                *)
OnlySent ==
    /\ outbox \subseteq emitted
    /\ \A e \in Events : log[e] # "absent" => e \in emitted
    /\ \A w \in Workers :
          /\ job[w].pc # "idle" => job[w].event \in emitted
          /\ job[w].pc = "responding" => log[job[w].event] # "absent"

(* A customer is named after a session that was opened: no request makes    *)
(* the customer that another one has seen.                                  *)
CustomersMade ==
    /\ customer \in Subs => stage[customer] \notin {"idle", "loaded"}
    /\ \A s \in Subs : seen[s] \in Subs => stage[seen[s]] \notin {"idle", "loaded"}

SentInv == OnlySent /\ CustomersMade /\ \A s \in Subs : SentByStage(s)

\* Stripe's side moves: s is now at the stage to, and the types are sent.
Moves(s, to, types) ==
    /\ stage' = [stage EXCEPT ![s] = to]
    /\ emitted' = emitted \cup (types \X {s})
    /\ outbox' = outbox \cup (types \X {s})
    /\ UNCHANGED <<customer, tierOf, setting, seen, row, log, job, history>>

\* The moves there are.
Transition(from, to, types) ==
    \/ from = "open" /\ to = "active" /\ types = {"checkout", "paid"}
    \/ from = "active" /\ to = "past_due" /\ types = {"failed"}
    \/ from = "past_due" /\ to = "active" /\ types = {"recovered"}
    \/ from \in {"active", "past_due"} /\ to = "deleted" /\ types = {"deleted"}

LEMMA SentGrows ==
    ASSUME NEW s \in Subs, NEW types \in SUBSET EventTypes,
           emitted' = emitted \cup (types \X {s})
    PROVE  Sent(s)' = Sent(s) \cup types /\ \A x \in Subs \ {s} : Sent(x)' = Sent(x)
<1>1. ASSUME NEW t \in EventTypes, NEW x \in Subs
      PROVE  <<t, x>> \in emitted' <=> <<t, x>> \in emitted \/ (x = s /\ t \in types)
  OBVIOUS
<1> QED
  BY <1>1 DEF Sent

LEMMA TransitionTypes ==
    ASSUME NEW from, NEW to, NEW types, Transition(from, to, types)
    PROVE  types \in SUBSET EventTypes
BY DEF Transition, EventTypes, Rank

(* What is sent ranks after what was sent, and fits the new stage.          *)
LEMMA MoveFits ==
    ASSUME TypeOK, NEW s \in Subs, NEW to, NEW types, SentByStage(s), Moves(s, to, types),
           Transition(stage[s], to, types), types = {"failed"} => "failed" \notin Sent(s)
    PROVE  /\ SentByStage(s)'
           /\ \A t \in types, x \in Sent(s) : Rank[x] < Rank[t]
<1>1. stage'[s] = to /\ Sent(s)' = Sent(s) \cup types
  BY SentGrows, TransitionTypes DEF TypeOK, Moves
<1>2. CASE stage[s] = "open" /\ to = "active" /\ types = {"checkout", "paid"}
  BY <1>1, <1>2 DEF SentByStage
<1>3. CASE stage[s] = "active" /\ to = "past_due" /\ types = {"failed"}
  <2>1. Sent(s) = {"checkout", "paid"}
    BY <1>3 DEF SentByStage
  <2> QED
    BY <1>1, <1>3, <2>1 DEF SentByStage, Rank
<1>4. CASE stage[s] = "past_due" /\ to = "active" /\ types = {"recovered"}
  <2>1. Sent(s) = {"checkout", "paid", "failed"}
    BY <1>4 DEF SentByStage
  <2>2. Sent(s)' = {"checkout", "paid", "failed", "recovered"}
    BY <1>1, <1>4, <2>1
  <2> QED
    BY <1>1, <1>4, <2>1, <2>2 DEF SentByStage, Rank
<1>5. CASE stage[s] \in {"active", "past_due"} /\ to = "deleted" /\ types = {"deleted"}
  <2>1. Sent(s) \in {{"checkout", "paid"}, {"checkout", "paid", "failed", "recovered"},
                     {"checkout", "paid", "failed"}}
    BY <1>5 DEF SentByStage
  <2> QED
    BY <1>1, <1>5, <2>1 DEF SentByStage, Rank
<1> QED
  BY <1>2, <1>3, <1>4, <1>5 DEF Transition

LEMMA MovesKeepSent ==
    ASSUME LogInv, SentInv, NEW s \in Subs, NEW to, NEW types, Moves(s, to, types),
           Transition(stage[s], to, types), types = {"failed"} => "failed" \notin Sent(s)
    PROVE  SentInv'
<1>1. TypeOK /\ SentByStage(s)
  BY DEF LogInv, SentInv
<1>2. SentByStage(s)'
  BY <1>1, MoveFits
<1>3. ASSUME NEW x \in Subs \ {s} PROVE SentByStage(x)'
  <2>1. stage'[x] = stage[x] /\ Sent(x)' = Sent(x) /\ SentByStage(x)
    BY <1>1, SentGrows, TransitionTypes DEF TypeOK, Moves, SentInv
  <2> QED
    BY <2>1 DEF SentByStage
<1>4. OnlySent'
  <2>1. outbox' \subseteq emitted' /\ emitted \subseteq emitted' /\ UNCHANGED <<log, job>>
    BY DEF Moves, SentInv, OnlySent
  <2> QED
    BY <2>1 DEF SentInv, OnlySent
<1>5. CustomersMade'
  <2>1. \A x \in Subs : stage[x] \notin {"idle", "loaded"} => stage'[x] \notin {"idle", "loaded"}
    BY <1>1 DEF TypeOK, Moves, Transition
  <2>2. UNCHANGED <<customer, seen>>
    BY DEF Moves
  <2> QED
    BY <2>1, <2>2 DEF SentInv, CustomersMade
<1> QED
  BY <1>2, <1>3, <1>4, <1>5 DEF SentInv

(* Every step of Stripe and the cancellation is a move.                     *)
LEMMA StripeStep ==
    ASSUME NEW s \in Subs, Pay(s) \/ FailInvoice(s) \/ Recover(s) \/ EndSubscription(s)
    PROVE  \E to, types : /\ Moves(s, to, types) /\ Transition(stage[s], to, types)
                          /\ types = {"failed"} => "failed" \notin Sent(s)
<1>1. ASSUME NEW from, NEW to, NEW types, StripeMoves(s, from, to, types)
      PROVE  Moves(s, to, types) /\ stage[s] = from
  BY <1>1 DEF StripeMoves, Moves, Emit, choices
<1>2. CASE Pay(s)
  BY <1>1, <1>2 DEF Pay, Transition
<1>3. CASE FailInvoice(s)
  BY <1>1, <1>3 DEF FailInvoice, Transition, Sent
<1>4. CASE Recover(s)
  BY <1>1, <1>4 DEF Recover, Transition
<1>5. CASE EndSubscription(s)
  BY <1>1, <1>5 DEF EndSubscription, Transition
<1> QED
  BY <1>2, <1>3, <1>4, <1>5

LEMMA CancelStep ==
    ASSUME TypeOK, CancelBeforeDelete
    PROVE  \/ UNCHANGED <<stage, emitted, outbox, customer, seen, row, log, job, history, tierOf>>
           \/ \E s \in Subs : Moves(s, "deleted", {"deleted"})
                              /\ Transition(stage[s], "deleted", {"deleted"})
<1> DEFINE own == row["consumer"]
<1>1. CASE UNCHANGED <<stage, emitted, outbox>>
  BY <1>1 DEF CancelBeforeDelete, choices
<1>2. CASE /\ own.ext # NoSub /\ stage[own.ext] \in {"active", "past_due"}
           /\ stage' = [stage EXCEPT ![own.ext] = "deleted"]
           /\ Emit({<<"deleted", own.ext>>})
  <2>1. own.ext \in Subs
    BY <1>2 DEF TypeOK, Rows, Products
  <2>2. {<<"deleted", own.ext>>} = {"deleted"} \X {own.ext}
    OBVIOUS
  <2> HIDE DEF own
  <2>3. Moves(own.ext, "deleted", {"deleted"})
    BY <1>2, <2>2 DEF CancelBeforeDelete, Moves, Emit, choices
  <2> QED
    BY <1>2, <2>1, <2>3 DEF Transition
<1> QED
  BY <1>1, <1>2 DEF CancelBeforeDelete

(* Steps that leave Stripe, its events and the customers alone keep SentInv *)
(* if a delivery works on what is in the outbox and answers what is on      *)
(* record.                                                                  *)
LEMMA DeliveryKeepsSent ==
    ASSUME SentInv, UNCHANGED <<stage, emitted, customer, seen>>, outbox' \subseteq outbox,
           \A e \in Events : log'[e] = log[e] \/ e \in emitted,
           \A w \in Workers : \/ job'[w] = job[w] /\ log'[job[w].event] = log[job[w].event]
                              \/ job'[w].pc = "idle"
                              \/ /\ job'[w].event \in emitted
                                 /\ job'[w].pc = "responding" =>
                                      log'[job'[w].event] # "absent"
    PROVE  SentInv'
<1>1. OnlySent'
  <2>1. outbox' \subseteq emitted' /\ emitted' = emitted
    BY DEF SentInv, OnlySent
  <2>2. \A e \in Events : log'[e] # "absent" => e \in emitted'
    BY DEF SentInv, OnlySent
  <2>3. ASSUME NEW w \in Workers
        PROVE  /\ job'[w].pc # "idle" => job'[w].event \in emitted'
               /\ job'[w].pc = "responding" => log'[job'[w].event] # "absent"
    BY <2>1 DEF SentInv, OnlySent
  <2> QED
    BY <2>1, <2>2, <2>3 DEF OnlySent
<1>2. CustomersMade'
  BY DEF SentInv, CustomersMade
<1>3. \A s \in Subs : SentByStage(s)'
  BY DEF SentInv, SentByStage, Sent
<1> QED
  BY <1>1, <1>2, <1>3 DEF SentInv

LEMMA DeliverKeepsSent ==
    ASSUME LogInv, SentInv, NEW w \in Workers, Deliver(w)
    PROVE  SentInv'
<1>1. /\ UNCHANGED <<stage, emitted, customer, seen>> /\ TypeOK
      /\ \A v \in Workers \ {w} : job'[v] = job[v]
      /\ outbox' \subseteq outbox
      /\ OnlySent
  BY DEF Deliver, Receive, RecordEvent, ReadRow, CommitEvent, Reject, Respond, Answer,
         LogInv, TypeOK, stripe, choices, SentInv
<1>2. \A v \in Workers : job[v] \in Jobs /\ (job[v].pc # "idle" => job[v].event \in Events)
  BY <1>1 DEF TypeOK, LogInv, KnowsLog
<1>3. CASE log' = log /\ (\/ job'[w] = job[w] \/ job'[w].pc = "idle"
                          \/ job'[w].event \in emitted /\ job'[w].pc # "responding")
  BY <1>1, <1>3, DeliveryKeepsSent
<1>4. ASSUME NEW e \in outbox, Receive(w, e) PROVE SentInv'
  <2>1. log' = log
    BY <1>4 DEF Receive
  <2>2. job'[w] = job[w] \/ (job'[w].event = e /\ job'[w].pc # "responding")
    BY <1>4 DEF Receive, LogInv, TypeOK, Idle
  <2> QED
    BY <1>1, <1>3, <2>1, <2>2 DEF OnlySent
<1>5. CASE Reject(w) \/ Respond(w)
  <2>1. log' = log /\ job'[w].pc = "idle"
    BY <1>5 DEF Reject, Respond, LogInv, TypeOK, Idle, history
  <2> QED
    BY <1>3, <2>1
<1>6. CASE (RecordEvent(w) \/ ReadRow(w)) /\ ~Reject(w)
  <2>1. log' = log /\ job[w].event \in emitted
    BY <1>1, <1>6 DEF RecordEvent, ReadRow, OnlySent, history
  <2>2. w \in DOMAIN job /\ job[w] \in Jobs
    BY <1>1 DEF TypeOK
  <2>3. job'[w].event = job[w].event /\ job'[w].pc # "responding"
    <3>1. CASE RecordEvent(w)
      <4>1. job' = [job EXCEPT ![w] = [@ EXCEPT !.pc = "handling", !.inserted = TRUE]]
        BY <1>6, <3>1 DEF RecordEvent
      <4> QED
        BY <2>2, <4>1 DEF Jobs
    <3>2. CASE ReadRow(w)
      BY <1>1, <1>2, <3>2, ReadRowParts DEF ReadRow
    <3> QED
      BY <1>6, <3>1, <3>2
  <2> QED
    BY <1>3, <2>1, <2>3
<1>7. CASE CommitEvent(w) /\ ~Reject(w)
  <2> DEFINE e == job[w].event
  <2>1. ~Conflict(job[w]) /\ e \in emitted
    BY <1>1, <1>7 DEF CommitEvent, OnlySent
  <2>2. /\ e \in Events /\ log' = [log EXCEPT ![e] = Logged(job[w])]
        /\ (~job[w].inserted => log[e] # "absent")
    BY <1>7, <2>1, CommitWrites DEF LogInv, RefusedOnRecord
  <2>3. job'[w].pc = "responding" /\ job'[w].event = e
    BY <1>7, <2>1, CommitFrees DEF Idle
  <2>4. Logged(job[w]) # "absent"
    BY <2>2 DEF Logged
  <2> HIDE DEF e
  <2>5. \A x \in Events : log'[x] = IF x = e THEN Logged(job[w]) ELSE log[x]
    BY <1>1, <2>2 DEF TypeOK
  <2>6. OnlySent'
    <3>1. outbox' \subseteq emitted' /\ emitted' = emitted
      BY <1>1 DEF OnlySent
    <3>2. \A x \in Events : log'[x] # "absent" => x \in emitted'
      BY <1>1, <2>1, <2>5 DEF OnlySent
    <3>3. ASSUME NEW v \in Workers
          PROVE  /\ job'[v].pc # "idle" => job'[v].event \in emitted'
                 /\ job'[v].pc = "responding" => log'[job'[v].event] # "absent"
      <4>1. CASE v = w
        BY <1>1, <2>1, <2>2, <2>3, <2>4, <2>5, <4>1
      <4>2. CASE v # w
        <5>1. job'[v] = job[v] /\ (job[v].pc # "idle" => job[v].event \in Events)
          BY <1>1, <1>2, <4>2
        <5>2. /\ job[v].pc # "idle" => job[v].event \in emitted
              /\ job[v].pc = "responding" => log[job[v].event] # "absent"
          BY <1>1 DEF OnlySent
        <5> QED
          BY <1>1, <2>4, <2>5, <5>1, <5>2
      <4> QED
        BY <4>1, <4>2
    <3> QED
      BY <3>1, <3>2, <3>3 DEF OnlySent
  <2>7. CustomersMade'
    BY <1>1 DEF SentInv, CustomersMade
  <2>8. \A s \in Subs : SentByStage(s)'
    BY <1>1 DEF SentInv, SentByStage, Sent
  <2> QED
    BY <2>6, <2>7, <2>8 DEF SentInv
<1> QED
  BY <1>4, <1>5, <1>6, <1>7, Zenon DEF Deliver

LEMMA CheckoutKeepsSent ==
    ASSUME LogInv, SentInv, NEW s \in Subs, LoadUser(s) \/ OpenSession(s)
    PROVE  SentInv'
<1>1. UNCHANGED <<emitted, outbox, log, job>> /\ TypeOK
  BY DEF LoadUser, OpenSession, choices, LogInv
<1>2. OnlySent'
  BY <1>1 DEF SentInv, OnlySent
<1>3. \A x \in Subs : SentByStage(x)'
  <2>1. \A x \in Subs : stage'[x] = IF x = s THEN (IF LoadUser(s) THEN "loaded" ELSE "open")
                                    ELSE stage[x]
    BY <1>1 DEF LoadUser, OpenSession, TypeOK
  <2>2. Sent(s) = {}
    BY DEF SentInv, SentByStage, LoadUser, OpenSession
  <2>3. \A x \in Subs : Sent(x)' = Sent(x)
    BY <1>1 DEF Sent
  <2> QED
    BY <2>1, <2>2, <2>3 DEF SentInv, SentByStage
<1>4. CustomersMade'
  <2>1. CASE LoadUser(s)
    <3>1. /\ stage' = [stage EXCEPT ![s] = "loaded"] /\ stage[s] = "idle"
          /\ seen' = [seen EXCEPT ![s] = customer] /\ UNCHANGED customer
      BY <2>1 DEF LoadUser
    <3>2. \A x \in Subs : stage[x] \notin {"idle", "loaded"} => stage'[x] \notin {"idle", "loaded"}
      BY <1>1, <3>1 DEF TypeOK
    <3>3. \A x \in Subs : seen'[x] = IF x = s THEN customer ELSE seen[x]
      BY <1>1, <3>1 DEF TypeOK
    <3> QED
      BY <3>1, <3>2, <3>3 DEF SentInv, CustomersMade
  <2>2. CASE OpenSession(s)
    <3>1. stage' = [stage EXCEPT ![s] = "open"] /\ stage[s] = "loaded" /\ UseCustomer(s)
      BY <2>2 DEF OpenSession
    <3>2. /\ \A x \in Subs : stage[x] \notin {"idle", "loaded"} => stage'[x] \notin {"idle", "loaded"}
          /\ stage'[s] = "open"
      BY <1>1, <3>1 DEF TypeOK
    <3>3. /\ customer' = customer \/ customer' = s
          /\ \A x \in Subs : seen'[x] = seen[x] \/ seen'[x] = s
      BY <1>1, <3>1 DEF UseCustomer, TypeOK
    <3> QED
      BY <3>2, <3>3 DEF SentInv, CustomersMade
  <2> QED
    BY <2>1, <2>2
<1> QED
  BY <1>2, <1>3, <1>4 DEF SentInv

LEMMA SentInit == Init => SentInv
<1> SUFFICES ASSUME Init PROVE SentInv
  OBVIOUS
<1>1. OnlySent
  BY DEF Init, OnlySent, Idle
<1>2. CustomersMade
  BY StripeAssumption DEF Init, CustomersMade
<1>3. \A s \in Subs : SentByStage(s)
  BY DEF Init, SentByStage, Sent
<1> QED
  BY <1>1, <1>2, <1>3 DEF SentInv

LEMMA SentNext ==
    ASSUME LogInv, SentInv, [Next]_vars
    PROVE  SentInv'
<1>1. TypeOK
  BY DEF LogInv
<1>2. ASSUME NEW s \in Subs, LoadUser(s) \/ OpenSession(s) PROVE SentInv'
  BY <1>2, CheckoutKeepsSent
<1>3. ASSUME NEW s \in Subs,
             Pay(s) \/ FailInvoice(s) \/ Recover(s) \/ EndSubscription(s)
      PROVE  SentInv'
  BY <1>3, StripeStep, MovesKeepSent
<1>4. ASSUME NEW w \in Workers, Deliver(w) PROVE SentInv'
  BY <1>4, DeliverKeepsSent
<1>5. CASE UNCHANGED <<stage, emitted, outbox, customer, seen, log, job>>
  BY <1>5, DeliveryKeepsSent
<1>6. CASE CancelBeforeDelete
  BY <1>1, <1>5, <1>6, CancelStep, MovesKeepSent
<1>7. CASE DeleteUser
  <2>1. UNCHANGED <<stage, emitted, outbox, seen, log, job>> /\ customer' = NoSub
    BY <1>7 DEF DeleteUser, stripe
  <2>2. CustomersMade'
    BY <2>1, StripeAssumption DEF SentInv, CustomersMade
  <2> QED
    BY <2>1, <2>2 DEF SentInv, OnlySent, SentByStage, Sent
<1>8. CASE Crash
  <2>1. /\ UNCHANGED <<stage, emitted, outbox, customer, seen, log>>
        /\ \A w \in Workers : job'[w].pc = "idle"
    BY <1>8 DEF Crash, stripe, Idle
  <2> QED
    BY <2>1, DeliveryKeepsSent
<1>9. CASE UNCHANGED vars
  BY <1>5, <1>9 DEF vars, stripe
<1> QED
  BY <1>2, <1>3, <1>4, <1>6, <1>7, <1>8, <1>9 DEF Next

(* What Stripe sends is new: an event that was answered is not sent again.  *)
LEMMA MoveAnswersNone ==
    ASSUME TypeOK, NEW s \in Subs, NEW to, NEW types, SentByStage(s), Moves(s, to, types),
           Transition(stage[s], to, types), types = {"failed"} => "failed" \notin Sent(s)
    PROVE  UNCHANGED <<log, applied, retried, emitted \ outbox>>
<1>1. types \in SUBSET EventTypes /\ \A t \in types, x \in Sent(s) : Rank[x] < Rank[t]
  BY TransitionTypes, MoveFits
<1>2. \A t \in types : t \notin Sent(s)
  BY <1>1 DEF EventTypes, Rank
<1>3. (types \X {s}) \cap emitted = {}
  BY <1>1, <1>2 DEF Sent
<1>4. /\ emitted' = emitted \cup (types \X {s}) /\ outbox' = outbox \cup (types \X {s})
      /\ UNCHANGED <<log, applied, retried>>
  BY DEF Moves, history
<1>5. emitted' \ outbox' = emitted \ outbox
  BY <1>3, <1>4, Zenon
<1> QED
  BY <1>4, <1>5

(* An answer, to a duplicate or after the commit, is to what is on record.  *)
LEMMA AnswerIsLogged ==
    ASSUME NEW e \in emitted, e \in Events, log[e] # "absent", Answer(e),
           UNCHANGED <<log, applied, retried, emitted>>
    PROVE  Log!Answer(e)
<1>1. (emitted \ outbox)' = (emitted \ outbox) \cup {e}
  BY DEF Answer
<1> QED
  BY <1>1 DEF Log!Answer

(* Every step of the webhook handler, of the checkout, of Stripe and of the *)
(* deletion of the account is a step of the event log or leaves it alone:   *)
(* with any number of overlapping, repeated and broken-off deliveries and   *)
(* of failed handlers an event takes effect once, in the commit that logs   *)
(* it, unless its record was left unprocessed - and that happens to an      *)
(* event with an effect only where the sync of the month's limit raised     *)
(* after the row was changed; and Stripe has the 2xx that ends its          *)
(* redeliveries only for what is on record (webhook_events.py:11,           *)
(* stripe_service.py:218, 375, 392-426, webhooks.py:49-56).                 *)
THEOREM LogImplemented == Spec => ImplementsEventLog
<1>1. Init => Log!Init
  BY DEF Init, Log!Init
<1>2. LogInv /\ SentInv /\ [Next]_vars => [Log!Next]_(Log!vars)
  <2> SUFFICES ASSUME LogInv, SentInv, [Next]_vars PROVE [Log!Next]_(Log!vars)
    OBVIOUS
  <2>1. TypeOK /\ OnlySent /\ \A s \in Subs : SentByStage(s)
    BY DEF LogInv, SentInv
  <2>2. CASE \E w \in Workers : CommitEvent(w) /\ ~Conflict(job[w])
    <3> PICK w \in Workers : CommitEvent(w) /\ ~Conflict(job[w])
      BY <2>2
    <3> DEFINE e == job[w].event
    <3>1. /\ e \in Events /\ (job[w].inserted => log[e] = "absent")
          /\ (~job[w].inserted => e \in retried)
          /\ log' = [log EXCEPT ![e] = Logged(job[w])]
          /\ retried' = IF Succeeds(job[w]) THEN retried ELSE retried \cup {e}
          /\ applied' = IF job[w].product # "none" THEN [applied EXCEPT ![e] = @ + 1]
                        ELSE applied
      BY CommitWrites
    <3>2. UNCHANGED (emitted \ outbox)
      BY DEF CommitEvent, stripe
    <3>3. CASE Succeeds(job[w])
      BY <3>1, <3>2, <3>3 DEF Logged, Succeeds, Log!Next, Log!Apply
    <3>4. CASE job[w].product # "none" /\ job[w].error # "none"
      <4>1. e \in {"checkout", "deleted"} \X Subs
        BY <3>1, <3>4 DEF LogInv, KnowsLog, FailsHalfway, Events
      <4>2. ~Succeeds(job[w])
        BY <3>4 DEF Succeeds
      <4>3. Logged(job[w]) = IF log[e] = "absent" THEN "unprocessed" ELSE log[e]
        BY <3>1, <4>2 DEF Logged, LogInv, RefusedOnRecord
      <4> HIDE DEF e
      <4>4. Log!ApplyHalfway(e)
        BY <3>1, <3>2, <3>4, <4>1, <4>2, <4>3 DEF Log!ApplyHalfway
      <4> QED
        BY <3>1, <4>4 DEF Log!Next
    <3>5. CASE job[w].product = "none" /\ job[w].inserted
      BY <3>1, <3>2, <3>5 DEF Logged, Succeeds, Log!Next, Log!Refuse
    <3>6. CASE job[w].product = "none" /\ ~job[w].inserted
      <4>1. log' = log /\ retried' = retried
        BY <3>1, <3>6 DEF Logged, Succeeds, LogInv, TypeOK
      <4> QED
        BY <3>1, <3>2, <3>6, <4>1 DEF Log!vars
    <3> QED
      BY <3>3, <3>4, <3>5, <3>6 DEF Succeeds
  <2>3. ASSUME NEW e \in Events, Log!Answer(e) PROVE [Log!Next]_(Log!vars)
    BY <2>3 DEF Log!Next
  <2>4. ASSUME NEW w \in Workers, NEW e \in outbox, Receive(w, e) PROVE [Log!Next]_(Log!vars)
    <3>1. e \in emitted /\ e \in Events /\ UNCHANGED <<log, applied, retried, emitted>>
      BY <2>1, <2>4 DEF TypeOK, OnlySent, Receive, stripe, history
    <3>2. CASE log[e] = "processed" /\ Answer(e)
      BY <2>3, <3>1, <3>2, AnswerIsLogged
    <3>3. CASE UNCHANGED outbox
      BY <3>1, <3>3 DEF Log!vars
    <3> QED
      BY <2>4, <3>2, <3>3 DEF Receive
  <2>5. ASSUME NEW w \in Workers, Respond(w) PROVE [Log!Next]_(Log!vars)
    <3> DEFINE e == job[w].event
    <3>1. /\ e \in emitted /\ e \in Events /\ log[e] # "absent" /\ Answer(e)
          /\ UNCHANGED <<log, applied, retried, emitted>>
      BY <2>1, <2>5 DEF LogInv, KnowsLog, OnlySent, Respond, stripe, history
    <3> QED
      BY <2>3, <3>1, AnswerIsLogged
  <2>6. ASSUME NEW s \in Subs,
               Pay(s) \/ FailInvoice(s) \/ Recover(s) \/ EndSubscription(s)
        PROVE  UNCHANGED <<log, applied, retried, emitted \ outbox>>
    BY <2>1, <2>6, StripeStep, MoveAnswersNone
  <2>7. CASE CancelBeforeDelete
    <3>1. UNCHANGED <<log, applied, retried, emitted \ outbox>>
      BY <2>1, <2>7, CancelStep, MoveAnswersNone DEF history
    <3> QED
      BY <3>1 DEF Log!vars
  <2>8. CASE UNCHANGED <<log, applied, retried, emitted, outbox>>
    BY <2>8 DEF Log!vars
  <2>9. ASSUME NEW w \in Workers, RecordEvent(w) \/ ReadRow(w) \/ Reject(w)
        PROVE  UNCHANGED <<log, applied, retried, emitted, outbox>>
    BY <2>9 DEF RecordEvent, ReadRow, Reject, stripe, history
  <2>10. ASSUME NEW s \in Subs, LoadUser(s) \/ OpenSession(s)
         PROVE  UNCHANGED <<log, applied, retried, emitted, outbox>>
    BY <2>10 DEF LoadUser, OpenSession, history
  <2>11. (DeleteUser \/ Crash \/ UNCHANGED vars) =>
            UNCHANGED <<log, applied, retried, emitted, outbox>>
    BY DEF DeleteUser, Crash, vars, stripe, history
  <2>12. ASSUME NEW w \in Workers, CommitEvent(w), Conflict(job[w]) PROVE Reject(w)
    BY <2>12 DEF CommitEvent
  <2>13. ASSUME UNCHANGED <<log, applied, retried, emitted \ outbox>>
         PROVE  [Log!Next]_(Log!vars)
    BY <2>13 DEF Log!vars
  <2>14. ASSUME NEW w \in Workers, Deliver(w) PROVE [Log!Next]_(Log!vars)
    BY <2>2, <2>4, <2>5, <2>8, <2>9, <2>12, <2>14 DEF Deliver
  <2>15. ASSUME NEW s \in Subs, LoadUser(s) \/ OpenSession(s) \/ Pay(s) \/ FailInvoice(s)
                                \/ Recover(s) \/ EndSubscription(s)
         PROVE  [Log!Next]_(Log!vars)
    BY <2>6, <2>8, <2>10, <2>13, <2>15
  <2> QED
    BY <2>7, <2>8, <2>11, <2>14, <2>15 DEF Next
<1> QED
  BY <1>1, <1>2, LogInit, LogNext, SentInit, SentNext, PTL
  DEF Spec, ImplementsEventLog, Log!Spec

-----------------------------------------------------------------------------
(* Then what holds when deliveries come in order and one at a time.         *)

IsDone(t, s) == applied[<<t, s>>] > 0

PaidRow(s) == [tier |-> tierOf[s], status |-> "active", stripe |-> TRUE, ext |-> s]

(* What was answered took effect, and an event takes effect only when those *)
(* before it are answered.                                                  *)
DoneInOrder(s) ==
    /\ \A t \in Sent(s) : <<t, s>> \notin outbox => IsDone(t, s)
    /\ \A t, x \in Sent(s) :
          Rank[x] < Rank[t] /\ IsDone(t, s) => <<x, s>> \notin outbox

(* The row shows the events that took effect.                               *)
RowShows(s) ==
    IsDone("checkout", s) =>
        row[Product(s)] =
            IF IsDone("deleted", s) THEN Ended(PaidRow(s))
            ELSE [PaidRow(s) EXCEPT !.status =
                     IF IsDone("failed", s) /\ ~IsDone("recovered", s)
                     THEN "past_due" ELSE "active"]

(* A delivery's event follows what was answered.  What it is about to write *)
(* it has made of the row of its product; it writes no row if Stripe could  *)
(* not be asked, or if the event took effect before.                        *)
JobFits(w, s) ==
    LET j == job[w]
        t == j.event[1]
    IN  j.pc # "idle" /\ j.event[2] = s =>
        /\ \A x \in Sent(s) : Rank[x] < Rank[t] => <<x, s>> \notin outbox
        /\ j.pc = "writing" =>
              \/ /\ j.product = Product(s) /\ ~IsDone("deleted", s)
                 /\ j.new = Outcome(j.event, Found(Product(s), j.old))
              \/ j.product = "none" /\ (j.error = "retrieve" \/ IsDone(t, s))
        /\ j.pc = "responding" => IsDone(t, s) \/ Lost(<<t, s>>)

(* An event of s that is lost for good: it was answered.                    *)
IsGone(t, s) == t \in Sent(s) /\ Lost(<<t, s>>) /\ <<t, s>> \notin outbox

Followed(s) == Sole(s) /\ \A t \in EventTypes : ~IsGone(t, s)

Mirrored(s) ==
    Followed(s) => DoneInOrder(s) /\ RowShows(s) /\ \A w \in Workers : JobFits(w, s)

\* A delivery writes to the row of its subscription's product.
OwnProduct ==
    \A w \in Workers : job[w].product # "none" => Product(job[w].event[2]) = job[w].product

\* What is being delivered has not been answered.
OnTheWay == \A w \in Workers : job[w].pc # "idle" => job[w].event \in outbox

MirrorInv == OwnProduct /\ OnTheWay /\ \A s \in Subs : Mirrored(s)

\* A subscription that Stripe has sent nothing of.
LEMMA NothingSent == LogInv /\ OnlySent => \A s \in Subs : Sent(s) = {} => Mirrored(s)
<1> SUFFICES ASSUME LogInv, OnlySent, NEW s \in Subs, Sent(s) = {} PROVE Mirrored(s)
  OBVIOUS
<1>1. \A t \in EventTypes : ~IsDone(t, s)
  <2> TAKE t \in EventTypes
  <2>1. <<t, s>> \in Events /\ <<t, s>> \notin emitted
    BY DEF Sent, Events
  <2>2. applied[<<t, s>>] = 0
    BY <2>1 DEF OnlySent, LogInv, RefusedOnRecord
  <2> QED
    BY <2>2 DEF IsDone
<1>2. ~IsDone("checkout", s)
  BY <1>1 DEF EventTypes, Rank
<1>3. ASSUME NEW w \in Workers, job[w].pc # "idle" PROVE job[w].event[2] # s
  <2>1. job[w].event \in Events /\ job[w].event \in emitted
    BY <1>3 DEF LogInv, KnowsLog, OnlySent
  <2>2. job[w].event[1] \in EventTypes /\ job[w].event = <<job[w].event[1], job[w].event[2]>>
    BY <2>1 DEF Events
  <2> QED
    BY <2>1, <2>2 DEF Sent
<1> QED
  BY <1>2, <1>3 DEF Mirrored, DoneInOrder, RowShows, JobFits

(* What is lost for good stays lost.                                        *)
LEMMA FollowedBefore ==
    ASSUME NEW s \in Subs, Sole(s)' => Sole(s), Sent(s) \subseteq Sent(s)',
           \A t \in Sent(s) : <<t, s>> \in outbox' => <<t, s>> \in outbox,
           \A t \in Sent(s) : <<t, s>> \notin outbox =>
                applied'[<<t, s>>] = applied[<<t, s>>] /\ error'[<<t, s>>] = error[<<t, s>>]
    PROVE  Followed(s)' => Followed(s)
<1>1. ASSUME NEW t \in EventTypes, IsGone(t, s) PROVE IsGone(t, s)'
  BY <1>1 DEF IsGone, Lost
<1> QED
  BY <1>1 DEF Followed

(* A step that leaves the events of s, their effects and its row alone.     *)
LEMMA MirrorKeep ==
    ASSUME NEW s \in Subs, Mirrored(s), Followed(s)' => Followed(s),
           tierOf' = tierOf, Sent(s)' = Sent(s),
           Followed(s)' =>
              /\ \A t \in EventTypes :
                    /\ applied'[<<t, s>>] = applied[<<t, s>>]
                    /\ error'[<<t, s>>] = error[<<t, s>>]
              /\ \A t \in Sent(s) : <<t, s>> \in outbox' => <<t, s>> \in outbox
              /\ \A t \in Sent(s) :
                    <<t, s>> \in outbox => <<t, s>> \in outbox' \/ IsDone(t, s)
              /\ row'[Product(s)] = row[Product(s)]
              /\ \A w \in Workers :
                    \/ /\ job'[w] = job[w]
                       /\ job[w].pc # "idle" => job[w].event \in Events
                    \/ JobFits(w, s)'
    PROVE  Mirrored(s)'
<1> SUFFICES ASSUME Followed(s)'
             PROVE  DoneInOrder(s)' /\ RowShows(s)' /\ \A w \in Workers : JobFits(w, s)'
  BY DEF Mirrored
<1>1. DoneInOrder(s) /\ RowShows(s) /\ \A w \in Workers : JobFits(w, s)
  BY DEF Mirrored
<1>2. \A t \in EventTypes :
         /\ IsDone(t, s)' <=> IsDone(t, s)
         /\ Lost(<<t, s>>)' <=> Lost(<<t, s>>)
  BY DEF IsDone, Lost
<1>3. Sent(s) \subseteq EventTypes /\ Product(s)' = Product(s) /\ PaidRow(s)' = PaidRow(s)
  BY DEF Sent, Product, PaidRow
<1>4. DoneInOrder(s)'
  BY <1>1, <1>2, <1>3 DEF DoneInOrder
<1>5. "checkout" \in EventTypes /\ "deleted" \in EventTypes /\ "failed" \in EventTypes
      /\ "recovered" \in EventTypes
  BY DEF EventTypes, Rank
<1>6. RowShows(s)'
  BY <1>1, <1>2, <1>3, <1>5 DEF RowShows
<1>7. ASSUME NEW w \in Workers, job'[w] = job[w],
             job[w].pc # "idle" => job[w].event \in Events
      PROVE  JobFits(w, s)'
  <2> SUFFICES ASSUME job[w].pc # "idle", job[w].event[2] = s PROVE JobFits(w, s)'
    BY <1>7 DEF JobFits
  <2> DEFINE t == job[w].event[1]
             made(old) == Outcome(job[w].event, Found(Product(s), old))
  <2>1. \A old : made(old)' = made(old)
    BY <1>7 DEF Outcome, Found, Product
  <2>2. t \in EventTypes
    BY <1>7, EventParts
  <2>3. /\ \A x \in Sent(s) : Rank[x] < Rank[t] => <<x, s>> \notin outbox
        /\ job[w].pc = "writing" =>
              \/ /\ job[w].product = Product(s) /\ ~IsDone("deleted", s)
                 /\ job[w].new = made(job[w].old)
              \/ job[w].product = "none" /\ (job[w].error = "retrieve" \/ IsDone(t, s))
        /\ job[w].pc = "responding" => IsDone(t, s) \/ Lost(<<t, s>>)
    BY <1>1 DEF JobFits
  <2> HIDE DEF made
  <2>4. \A x \in Sent(s) : Rank[x] < Rank[t] => <<x, s>> \notin outbox'
    BY <2>3
  <2>5. job[w].pc = "writing" =>
              \/ /\ job[w].product = Product(s) /\ ~IsDone("deleted", s)'
                 /\ job[w].new = made(job[w].old)'
              \/ job[w].product = "none" /\ (job[w].error = "retrieve" \/ IsDone(t, s)')
    BY <1>2, <1>5, <1>7, <2>1, <2>2, <2>3
  <2>6. job[w].pc = "responding" => IsDone(t, s)' \/ Lost(<<t, s>>)'
    BY <1>2, <1>7, <2>2, <2>3
  <2> QED
    BY <1>3, <1>7, <2>4, <2>5, <2>6 DEF JobFits, made
<1> QED
  BY <1>4, <1>6, <1>7 DEF JobFits

(* The events after the one that is being delivered have not taken effect.  *)
LEMMA NotYetDone ==
    ASSUME LogInv, OnlySent, OnTheWay, NEW s \in Subs, DoneInOrder(s), NEW w \in Workers,
           job[w].pc # "idle", job[w].event[2] = s
    PROVE  LET t == job[w].event[1] IN
           /\ t \in Sent(s) /\ job[w].event = <<t, s>> /\ <<t, s>> \in outbox
           /\ \A x \in EventTypes : Rank[t] < Rank[x] => ~IsDone(x, s)
<1> DEFINE t == job[w].event[1]
<1>1. job[w].event \in Events /\ job[w].event \in emitted /\ job[w].event \in outbox
  BY DEF LogInv, KnowsLog, OnlySent, OnTheWay
<1>2. t \in EventTypes /\ job[w].event = <<t, s>>
  BY <1>1 DEF Events
<1>3. t \in Sent(s)
  BY <1>1, <1>2 DEF Sent
<1>4. ASSUME NEW x \in EventTypes, Rank[t] < Rank[x], IsDone(x, s) PROVE FALSE
  <2>1. <<x, s>> \in Events /\ applied[<<x, s>>] # 0
    BY <1>4 DEF Events, IsDone
  <2>2. x \in Sent(s)
    BY <2>1 DEF LogInv, RefusedOnRecord, OnlySent, Sent
  <2> QED
    BY <1>1, <1>2, <1>3, <1>4, <2>2 DEF DoneInOrder
<1> QED
  BY <1>1, <1>2, <1>3, <1>4

-----------------------------------------------------------------------------
(* What the handlers make of the row that was paid for.                     *)
LEMMA OutcomeOfPaid ==
    ASSUME TypeOK, NEW s \in Subs, NEW t \in EventTypes, NEW old \in Rows,
           t # "checkout" => \E x \in {"active", "past_due"} :
                                old = [PaidRow(s) EXCEPT !.status = x]
    PROVE  Outcome(<<t, s>>, old) =
             CASE t = "checkout" -> PaidRow(s)
               [] t = "deleted" -> Ended(PaidRow(s))
               [] OTHER -> [PaidRow(s) EXCEPT !.status =
                               IF t = "failed" THEN "past_due" ELSE "active"]
<1>1. CASE t = "checkout"
  BY <1>1 DEF Outcome, PaidRow
<1>2. CASE t # "checkout"
  <2> PICK x \in {"active", "past_due"} : old = [PaidRow(s) EXCEPT !.status = x]
    BY <1>2
  <2>1. CASE t = "deleted"
    <3>1. Outcome(<<t, s>>, old) = Ended(old)
      BY <2>1 DEF Outcome
    <3>2. old.tier = PaidRow(s).tier
      BY DEF PaidRow
    <3>3. [old EXCEPT !.status = "cancelled", !.ext = NoSub]
            = [PaidRow(s) EXCEPT !.status = "cancelled", !.ext = NoSub]
      BY DEF PaidRow
    <3> QED
      BY <2>1, <3>1, <3>2, <3>3 DEF Ended
  <2>2. CASE t # "deleted"
    <3>1. Outcome(<<t, s>>, old) = [old EXCEPT !.status = InvoiceStatus(t)]
      BY <1>2, <2>2 DEF Outcome
    <3>2. \A y : [old EXCEPT !.status = y] = [PaidRow(s) EXCEPT !.status = y]
      BY DEF PaidRow
    <3> QED
      BY <1>2, <2>2, <3>1, <3>2 DEF InvoiceStatus
  <2> QED
    BY <2>1, <2>2
<1> QED
  BY <1>1, <1>2

(* A delivery of s that has not committed: its checkout took effect, or is  *)
(* what it delivers, and the row is still the subscription's unless the     *)
(* cancellation is delivered again.                                         *)
LEMMA RowBefore ==
    ASSUME LogInv, SentInv, OnTheWay, NEW s \in Subs, DoneInOrder(s), RowShows(s),
           NEW w \in Workers, job[w].pc # "idle",
           job[w].event[2] = s, JobFits(w, s), job[w].event[1] # "checkout"
    PROVE  /\ IsDone("checkout", s)
           /\ job[w].event[1] # "deleted" => ~IsDone("deleted", s)
           /\ ~IsDone("deleted", s) => \E x \in {"active", "past_due"} :
                 row[Product(s)] = [PaidRow(s) EXCEPT !.status = x]
<1> DEFINE t == job[w].event[1]
<1>1. OnlySent /\ SentByStage(s)
  BY DEF SentInv
<1>2. /\ t \in Sent(s) /\ t \in EventTypes
      /\ \A x \in EventTypes : Rank[t] < Rank[x] => ~IsDone(x, s)
  BY <1>1, NotYetDone DEF Sent
<1>3. "checkout" \in Sent(s)
  <2>1. stage[s] \in {"idle", "loaded", "open", "active", "past_due", "deleted"}
    BY DEF LogInv, TypeOK
  <2>2. Sent(s) # {}
    BY <1>2
  <2> QED
    BY <1>1, <2>1, <2>2 DEF SentByStage
<1>4. Rank["checkout"] < Rank[t] /\ (t = "deleted" \/ Rank[t] < Rank["deleted"])
      /\ "deleted" \in EventTypes
  BY <1>2 DEF EventTypes, Rank
<1>5. IsDone("checkout", s)
  BY <1>3, <1>4 DEF JobFits, DoneInOrder
<1>6. t # "deleted" => ~IsDone("deleted", s)
  BY <1>2, <1>4
<1> QED
  BY <1>5, <1>6 DEF RowShows

(* What a handler of s finds is the row of the subscription's product.      *)
LEMMA FindsRow ==
    ASSUME LogInv, SentInv, RowInv, OnTheWay, NEW s \in Subs, Sole(s), DoneInOrder(s),
           RowShows(s), NEW w \in Workers, job[w].pc = "handling",
           job[w].event[2] = s, JobFits(w, s)
    PROVE  \/ Target(job[w].event) = {Product(s)} /\ ~IsDone("deleted", s)
           \/ Target(job[w].event) = {} /\ IsDone(job[w].event[1], s)
<1>1. Product(s) \in Products
  BY DEF Product, Products
<1>2. \A p \in Products : row[p].ext = s => p = Product(s)
  BY StripeAssumption DEF RowInv, Bought
<1>3. CASE job[w].event[1] = "checkout"
  <2>1. Target(job[w].event) = {Product(s)}
    BY <1>3 DEF Target, Sole
  <2>2. Rank["checkout"] < Rank["deleted"] /\ "deleted" \in EventTypes
    BY DEF EventTypes, Rank
  <2> QED
    BY <1>3, <2>1, <2>2, NotYetDone DEF SentInv
<1>4. CASE job[w].event[1] # "checkout" /\ ~IsDone("deleted", s)
  <2>1. PICK x \in {"active", "past_due"} :
               row[Product(s)] = [PaidRow(s) EXCEPT !.status = x]
    BY <1>4, RowBefore
  <2>2. row[Product(s)].ext = s /\ row[Product(s)].stripe
    BY <2>1 DEF PaidRow
  <2> QED
    BY <1>1, <1>2, <1>4, <2>2 DEF Target, Mirrors
<1>5. CASE job[w].event[1] # "checkout" /\ IsDone("deleted", s)
  <2>1. job[w].event[1] = "deleted" /\ row[Product(s)] = Ended(PaidRow(s))
    BY <1>5, RowBefore DEF RowShows
  <2>2. Ended(PaidRow(s)).ext = NoSub
    BY DEF Ended, PaidRow, FreeRow
  <2> QED
    BY <1>2, <1>5, <2>1, <2>2, StripeAssumption DEF Target, Mirrors
<1> QED
  BY <1>3, <1>4, <1>5

LEMMA ReadRowMirrors ==
    ASSUME LogInv, SentInv, RowInv, MirrorInv, NEW w \in Workers, ReadRow(w)
    PROVE  MirrorInv'
<1> DEFINE e == job[w].event
<1>1. /\ TypeOK /\ job[w] \in Jobs /\ w \in DOMAIN job /\ job[w].pc = "handling"
      /\ e \in Events
      /\ UNCHANGED <<customer, account, tierOf, stage, emitted, seen, row, outbox, log,
                     applied, error>>
      /\ \A v \in Workers \ {w} : job'[v] = job[v]
  BY DEF LogInv, TypeOK, KnowsLog, ReadRow, stripe, choices, history
<1>2. job[w].product = "none"
  BY <1>1 DEF RowInv, WritesBought
<1>3. /\ job'[w].pc = "writing" /\ job'[w].event = e
      /\ \/ Target(e) = {} /\ job'[w].product = "none"
         \/ job'[w].product = "none" /\ job'[w].error = "retrieve"
         \/ \E p \in Target(e) : Writes(w, p)
  BY <1>1, <1>2, ReadRowParts
<1> HIDE DEF e
<1>4. OwnProduct'
  <2>1. \A p \in Target(e) : Product(e[2]) = p
    BY <1>1, EventParts, StripeAssumption, TargetType DEF Target, Mirrors, RowInv, Bought
  <2>2. ASSUME NEW v \in Workers, job'[v].product # "none"
        PROVE  Product(job'[v].event[2]) = job'[v].product
    BY <1>1, <1>3, <2>1, <2>2 DEF MirrorInv, OwnProduct, Writes
  <2> QED
    BY <1>1, <2>2 DEF OwnProduct, Product
<1>5. OnTheWay'
  BY <1>1, <1>3 DEF MirrorInv, OnTheWay, e
<1>6. ASSUME NEW s \in Subs PROVE Mirrored(s)'
  <2>1. Mirrored(s) /\ Sent(s)' = Sent(s) /\ (Sole(s)' <=> Sole(s))
    BY <1>1 DEF MirrorInv, Sent, Sole, Product
  <2>2. Followed(s)' => Followed(s)
    BY <1>1, <2>1, FollowedBefore
  <2>3. ASSUME Followed(s) PROVE JobFits(w, s)'
    <3>1. CASE e[2] # s
      BY <1>3, <3>1 DEF JobFits
    <3>2. CASE e[2] = s
      <4>1. DoneInOrder(s) /\ RowShows(s) /\ JobFits(w, s) /\ Sole(s) /\ OnTheWay
        BY <2>1, <2>3 DEF Mirrored, Followed, MirrorInv
      <4>2. \/ Target(e) = {Product(s)} /\ ~IsDone("deleted", s)
            \/ Target(e) = {} /\ IsDone(e[1], s)
        BY <1>1, <3>2, <4>1, FindsRow DEF e
      <4>3. \/ /\ job'[w].product = Product(s) /\ ~IsDone("deleted", s)
               /\ job'[w].old = row[Product(s)]
               /\ job'[w].new = Outcome(e, Found(Product(s), row[Product(s)]))
            \/ job'[w].product = "none" /\ (job'[w].error = "retrieve" \/ IsDone(e[1], s))
        BY <1>3, <4>2 DEF Writes, e
      <4>4. \A x \in Sent(s) : Rank[x] < Rank[e[1]] => <<x, s>> \notin outbox
        BY <1>1, <3>2, <4>1 DEF JobFits, e
      <4>5. /\ Product(s)' = Product(s) /\ \A x : IsDone(x, s)' <=> IsDone(x, s)
            /\ \A y, old : Outcome(y, Found(Product(s), old))'
                             = Outcome(y, Found(Product(s), old))
        BY <1>1 DEF Product, IsDone, Outcome, Found
      <4> QED
        BY <1>1, <1>3, <2>1, <4>3, <4>4, <4>5 DEF JobFits
    <3> QED
      BY <3>1, <3>2
  <2>4. \A v \in Workers \ {w} : job[v].pc # "idle" => job[v].event \in Events
    BY DEF LogInv, KnowsLog
  <2> QED
    BY <1>1, <2>1, <2>2, <2>3, <2>4, MirrorKeep
<1> QED
  BY <1>4, <1>5, <1>6 DEF MirrorInv

LEMMA PaidIsActive ==
    ASSUME TypeOK, NEW s \in Subs
    PROVE  [PaidRow(s) EXCEPT !.status = "active"] = PaidRow(s)
<1>1. ASSUME NEW r \in Rows PROVE [r EXCEPT !.status = r.status] = r
  BY DEF Rows
<1>2. PaidRow(s) \in Rows /\ PaidRow(s).status = "active"
  BY StripeAssumption DEF PaidRow, Rows, TypeOK
<1> QED
  BY <1>1, <1>2

(* The commit of an event of s that changes a row: the row follows, in the  *)
(* event's turn.                                                            *)
LEMMA CommitShows ==
    ASSUME LogInv, SentInv, RowInv, OnTheWay, NEW s \in Subs, DoneInOrder(s), RowShows(s),
           NEW w \in Workers, CommitEvent(w), ~Conflict(job[w]),
           job[w].event[2] = s, JobFits(w, s), job[w].product # "none"
    PROVE  /\ row' = [row EXCEPT ![Product(s)] = job[w].new]
           /\ job[w].new \in Rows /\ Product(s) \in Products
           /\ applied' = [applied EXCEPT ![job[w].event] = @ + 1]
           /\ job[w].new = LET t == job[w].event[1] IN
                CASE t = "checkout" -> PaidRow(s)
                  [] t = "deleted" -> Ended(PaidRow(s))
                  [] OTHER -> [PaidRow(s) EXCEPT !.status =
                                  IF t = "failed" THEN "past_due" ELSE "active"]
<1> DEFINE j == job[w]
           t == j.event[1]
           p == Product(s)
<1>1. /\ TypeOK /\ j \in Jobs /\ j.pc = "writing" /\ j.event \in Events
      /\ p \in Products /\ p # "none"
  BY DEF LogInv, TypeOK, KnowsLog, CommitEvent, Product, Products
<1>2. /\ j.product = p /\ j.new = Outcome(j.event, Found(p, j.old))
      /\ ~IsDone("deleted", s)
  BY <1>1 DEF JobFits
<1>3. row[p] = j.old /\ j.old \in Rows /\ j.new \in Rows
  BY <1>1, <1>2 DEF RowInv, WritesBought, Conflict, Jobs
<1>4. Merge(row[p], j.old, j.new) = j.new
  BY <1>3, MergeSame
<1>5. row' = [row EXCEPT ![p] = j.new]
  <2>1. row' = [row EXCEPT ![p] = Merge(row[p], j.old, j.new)]
    BY <1>1, <1>2 DEF CommitEvent
  <2> QED
    BY <1>4, <2>1
<1>6. applied' = [applied EXCEPT ![j.event] = @ + 1]
  BY <1>1, <1>2, CommitWrites
<1>7. j.event = <<t, s>> /\ t \in EventTypes
  BY <1>1 DEF Events
<1> DEFINE old == Found(p, j.old)
<1>8. old \in Rows
  BY <1>3, IdleType DEF Found, Default, FreeRow, Rows
<1>9. t # "checkout" => \E x \in {"active", "past_due"} :
                           old = [PaidRow(s) EXCEPT !.status = x]
  <2> SUFFICES ASSUME t # "checkout"
               PROVE  \E x \in {"active", "past_due"} :
                         old = [PaidRow(s) EXCEPT !.status = x]
    OBVIOUS
  <2>1. PICK x \in {"active", "past_due"} : row[p] = [PaidRow(s) EXCEPT !.status = x]
    BY <1>1, <1>2, RowBefore
  <2>2. row[p].ext = s
    BY <2>1 DEF PaidRow
  <2>3. row[p] # Absent
    BY <2>2, StripeAssumption DEF Absent
  <2> QED
    BY <1>3, <2>1, <2>3 DEF Found
<1> HIDE DEF t, old
<1>10. Outcome(<<t, s>>, old) =
             CASE t = "checkout" -> PaidRow(s)
               [] t = "deleted" -> Ended(PaidRow(s))
               [] OTHER -> [PaidRow(s) EXCEPT !.status =
                               IF t = "failed" THEN "past_due" ELSE "active"]
  BY <1>1, <1>7, <1>8, <1>9, OutcomeOfPaid
<1>11. j.new = Outcome(<<t, s>>, old)
  BY <1>2, <1>7 DEF old
<1> QED
  BY <1>1, <1>3, <1>5, <1>6, <1>10, <1>11 DEF t

(* When the event of a delivery takes effect in its turn, the row shows it. *)
LEMMA ShownInTurn ==
    ASSUME LogInv, SentInv, OnTheWay, NEW s \in Subs, DoneInOrder(s), RowShows(s),
           NEW w \in Workers, job[w].pc = "writing", job[w].event[2] = s, JobFits(w, s),
           TypeOK', tierOf' = tierOf, Sent(s)' = Sent(s),
           outbox' = outbox, applied' = [applied EXCEPT ![job[w].event] = @ + 1],
           row'[Product(s)] = LET t == job[w].event[1] IN
                CASE t = "checkout" -> PaidRow(s)
                  [] t = "deleted" -> Ended(PaidRow(s))
                  [] OTHER -> [PaidRow(s) EXCEPT !.status =
                                  IF t = "failed" THEN "past_due" ELSE "active"]
    PROVE  DoneInOrder(s)' /\ RowShows(s)'
<1> DEFINE t == job[w].event[1]
<1>1. /\ OnlySent /\ t \in Sent(s) /\ job[w].event = <<t, s>> /\ t \in EventTypes
      /\ \A x \in EventTypes : Rank[t] < Rank[x] => ~IsDone(x, s)
      /\ TypeOK
  BY NotYetDone DEF SentInv, Sent, LogInv
<1>2. \A x \in Sent(s) : Rank[x] < Rank[t] => <<x, s>> \notin outbox
  BY DEF JobFits
<1>3. row'[Product(s)] = CASE t = "checkout" -> PaidRow(s)
                           [] t = "deleted" -> Ended(PaidRow(s))
                           [] OTHER -> [PaidRow(s) EXCEPT !.status =
                                           IF t = "failed" THEN "past_due" ELSE "active"]
  OBVIOUS
<1>4. applied' = [applied EXCEPT ![<<t, s>>] = @ + 1]
  BY <1>1
<1> HIDE DEF t
<1>5. \A x \in EventTypes : IsDone(x, s)' <=> x = t \/ IsDone(x, s)
  <2> TAKE x \in EventTypes
  <2>1. <<x, s>> \in Events /\ <<t, s>> \in Events /\ applied \in [Events -> Nat]
    BY <1>1 DEF TypeOK, Events
  <2> QED
    BY <1>4, <2>1 DEF IsDone
<1>6. Product(s)' = Product(s) /\ PaidRow(s)' = PaidRow(s) /\ Sent(s) \subseteq EventTypes
  BY DEF Product, PaidRow, Sent
<1>7. DoneInOrder(s)'
  <2>1. \A x \in Sent(s)' : <<x, s>> \notin outbox' => IsDone(x, s)'
    BY <1>5, <1>6 DEF DoneInOrder
  <2>2. ASSUME NEW x \in Sent(s), NEW y \in Sent(s), Rank[y] < Rank[x], IsDone(x, s)'
        PROVE  <<y, s>> \notin outbox'
    <3>1. CASE x = t
      BY <1>2, <2>2, <3>1
    <3>2. CASE x # t
      BY <1>5, <1>6, <2>2, <3>2 DEF DoneInOrder
    <3> QED
      BY <3>1, <3>2
  <2> QED
    BY <2>1, <2>2 DEF DoneInOrder
<1>8. RowShows(s)'
  <2>1. \A x \in {"checkout", "deleted", "failed", "recovered"} : x \in EventTypes
    BY DEF EventTypes, Rank
  <2>2. CASE t = "checkout"
    <3>1. Rank[t] < Rank["deleted"] /\ Rank[t] < Rank["failed"]
      BY <2>2 DEF Rank
    <3>2. ~IsDone("deleted", s)' /\ ~IsDone("failed", s)'
      BY <1>1, <1>5, <2>1, <2>2, <3>1
    <3>3. [PaidRow(s) EXCEPT !.status = "active"] = PaidRow(s)
      BY <1>1, PaidIsActive
    <3> QED
      BY <1>3, <1>6, <2>2, <3>2, <3>3 DEF RowShows
  <2>3. CASE t = "deleted"
    BY <1>3, <1>5, <1>6, <2>1, <2>3 DEF RowShows
  <2>4. CASE t \in {"paid", "failed", "recovered"}
    <3>1. Rank[t] < Rank["deleted"] /\ (t = "recovered" \/ Rank[t] < Rank["recovered"])
          /\ (t = "paid" => Rank[t] < Rank["failed"])
      BY <2>4 DEF Rank
    <3>2. ~IsDone("deleted", s)' /\ (t # "recovered" => ~IsDone("recovered", s)')
          /\ (t = "paid" => ~IsDone("failed", s)')
      BY <1>1, <1>5, <2>1, <2>4, <3>1
    <3>3. t = "failed" => IsDone("failed", s)'
      BY <1>5, <2>1
    <3>4. t = "recovered" => IsDone("recovered", s)'
      BY <1>5, <2>1
    <3> QED
      BY <1>3, <1>6, <2>4, <3>2, <3>3, <3>4 DEF RowShows
  <2> QED
    BY <1>1, <2>2, <2>3, <2>4 DEF EventTypes, Rank
<1> QED
  BY <1>7, <1>8

(* Only one delivery is in progress.                                        *)
LEMMA OneBusy ==
    ASSUME OneAtATime, IdleElsewhere, NEW w \in Workers, job[w].pc # "idle"
    PROVE  \A v \in Workers : v = w \/ job[v] = Idle
<1>1. job[w] # Idle
  BY DEF Idle
<1> QED
  BY <1>1 DEF OneAtATime, IdleElsewhere

(* A delivery that gives up, answers or is broken off.                      *)
LEMMA IdleMirrors ==
    ASSUME LogInv, MirrorInv,
           UNCHANGED <<customer, account, tierOf, stage, emitted, seen, row, applied, error>>,
           outbox' \subseteq outbox, OnTheWay',
           \A w \in Workers : job'[w] = job[w] \/ job'[w] = Idle,
           \A s \in Subs : Followed(s) /\ Followed(s)' => \A t \in Sent(s) :
                <<t, s>> \in outbox => <<t, s>> \in outbox' \/ IsDone(t, s)
    PROVE  MirrorInv'
<1>1. OwnProduct'
  BY DEF MirrorInv, OwnProduct, Idle, Product
<1>2. ASSUME NEW s \in Subs PROVE Mirrored(s)'
  <2>1. /\ Mirrored(s) /\ Sent(s)' = Sent(s) /\ (Sole(s)' <=> Sole(s))
        /\ \A w \in Workers : job'[w] = job[w] \/ JobFits(w, s)'
    BY DEF MirrorInv, Sent, Sole, Product, JobFits, Idle
  <2>2. Followed(s)' => Followed(s)
    BY <2>1, FollowedBefore
  <2>3. \A w \in Workers : job[w].pc # "idle" => job[w].event \in Events
    BY DEF LogInv, KnowsLog
  <2> QED
    BY <2>1, <2>2, <2>3, MirrorKeep
<1> QED
  BY <1>1, <1>2 DEF MirrorInv

LEMMA ReceiveMirrors ==
    ASSUME setting.inOrder, OneAtATime, IdleElsewhere, LogInv, SentInv, MirrorInv,
           NEW w \in Workers, NEW e \in outbox, Receive(w, e)
    PROVE  MirrorInv'
<1>1. /\ TypeOK /\ e \in Events /\ e[1] \in EventTypes /\ e[2] \in Subs
      /\ UNCHANGED <<customer, account, tierOf, stage, emitted, seen, row, applied, error>>
  BY EventParts DEF LogInv, TypeOK, Receive, stripe, choices, history
<1>2. CASE log[e] = "processed"
  <2>1. job' = job /\ outbox' = outbox \ {e}
    BY <1>2 DEF Receive, Answer
  <2>2. \A s \in Subs, t \in EventTypes :
           <<t, s>> \in outbox => <<t, s>> \in outbox' \/ IsDone(t, s)
    BY <1>1, <1>2, <2>1 DEF IsDone, LogInv, RefusedOnRecord
  <2>3. \A s \in Subs : \A t \in Sent(s) :
           <<t, s>> \in outbox => <<t, s>> \in outbox' \/ IsDone(t, s)
    BY <2>2 DEF Sent
  <2>4. \A v \in Workers : job[v].pc = "idle"
    <3>1. \A v \in Workers : v = w \/ job[v] = Idle
      BY DEF Receive, OneAtATime, IdleElsewhere
    <3> QED
      BY <3>1 DEF Receive, Idle
  <2>5. OnTheWay'
    BY <2>1, <2>4 DEF OnTheWay
  <2> QED
    BY <1>1, <2>1, <2>3, <2>5, IdleMirrors
<1>3. CASE log[e] # "processed"
  <2>1. /\ UNCHANGED outbox /\ \A v \in Workers \ {w} : job'[v] = job[v]
        /\ job'[w].pc \in {"inserting", "handling"} /\ job'[w].product = "none"
        /\ job'[w].event = e
    <3>1. DOMAIN job = Workers
      BY <1>1 DEF TypeOK
    <3>2. PICK pc \in {"inserting", "handling"} :
             job' = [job EXCEPT ![w] = [Idle EXCEPT !.event = e, !.pc = pc]]
      BY <1>3 DEF Receive
    <3>3. job'[w] = [Idle EXCEPT !.event = e, !.pc = pc]
          /\ \A v \in Workers \ {w} : job'[v] = job[v]
      BY <3>1, <3>2
    <3> QED
      BY <1>3, <3>3 DEF Idle, Receive
  <2>2. OwnProduct' /\ OnTheWay'
    BY <1>1, <2>1 DEF MirrorInv, OwnProduct, OnTheWay, Product
  <2>3. ASSUME NEW s \in Subs PROVE Mirrored(s)'
    <3>1. /\ Mirrored(s) /\ Sent(s)' = Sent(s) /\ (Sole(s)' <=> Sole(s))
          /\ \A v \in Workers : job[v].pc # "idle" => job[v].event \in Events
      BY <1>1 DEF MirrorInv, Sent, Sole, Product, LogInv, KnowsLog
    <3>2. Followed(s)' => Followed(s)
      BY <1>1, <2>1, <3>1, FollowedBefore
    <3>3. JobFits(w, s)'
      <4>1. CASE e[2] # s
        BY <2>1, <4>1 DEF JobFits
      <4>2. CASE e[2] = s
        <5>1. ASSUME NEW x \in Sent(s), Rank[x] < Rank[e[1]] PROVE <<x, s>> \notin outbox
          <6>1. x \in EventTypes /\ ~(Rank[e[1]] <= Rank[x])
            BY <1>1, <5>1 DEF Sent, EventTypes, Rank
          <6> QED
            BY <4>2, <6>1 DEF Receive
        <5> QED
          BY <2>1, <3>1, <5>1 DEF JobFits
      <4> QED
        BY <4>1, <4>2
    <3> QED
      BY <1>1, <2>1, <3>1, <3>2, <3>3, MirrorKeep
  <2> QED
    BY <2>2, <2>3 DEF MirrorInv
<1> QED
  BY <1>2, <1>3

LEMMA RejectMirrors ==
    ASSUME LogInv, MirrorInv, NEW w \in Workers, Reject(w)
    PROVE  MirrorInv'
<1>1. /\ UNCHANGED <<customer, account, tierOf, stage, emitted, seen, row, outbox, applied,
                     error>>
      /\ \A v \in Workers : job'[v] = job[v] \/ job'[v] = Idle
  BY DEF Reject, LogInv, TypeOK, stripe, choices, history
<1>2. OnTheWay'
  BY <1>1 DEF MirrorInv, OnTheWay, Idle
<1> QED
  BY <1>1, <1>2, IdleMirrors

LEMMA RecordMirrors ==
    ASSUME LogInv, RowInv, MirrorInv, NEW w \in Workers, RecordEvent(w)
    PROVE  MirrorInv'
<1>1. CASE Reject(w)
  BY <1>1, RejectMirrors
<1>2. CASE ~Reject(w)
  <2>1. /\ UNCHANGED <<customer, account, tierOf, stage, emitted, seen, row, outbox, applied,
                       error>>
        /\ job' = [job EXCEPT ![w] = [@ EXCEPT !.pc = "handling", !.inserted = TRUE]]
        /\ job \in [Workers -> Jobs] /\ job[w] \in Jobs /\ job[w].pc = "inserting"
    BY <1>2 DEF RecordEvent, LogInv, TypeOK, stripe, choices, history
  <2>2. /\ job'[w].pc = "handling" /\ job'[w].product = job[w].product
        /\ job'[w].event = job[w].event /\ \A v \in Workers \ {w} : job'[v] = job[v]
    BY <2>1 DEF Jobs
  <2>3. OwnProduct' /\ OnTheWay'
    BY <2>1, <2>2 DEF MirrorInv, OwnProduct, OnTheWay, Product
  <2>4. ASSUME NEW s \in Subs PROVE Mirrored(s)'
    <3>1. /\ Mirrored(s) /\ Sent(s)' = Sent(s) /\ (Sole(s)' <=> Sole(s))
          /\ \A v \in Workers : job[v].pc # "idle" => job[v].event \in Events
      BY <2>1 DEF MirrorInv, Sent, Sole, Product, LogInv, KnowsLog
    <3>2. Followed(s)' => Followed(s)
      BY <2>1, <3>1, FollowedBefore
    <3>3. Followed(s) => JobFits(w, s)'
      BY <2>1, <2>2, <3>1 DEF Mirrored, JobFits
    <3> QED
      BY <2>1, <2>2, <3>1, <3>2, <3>3, MirrorKeep
  <2> QED
    BY <2>3, <2>4 DEF MirrorInv
<1> QED
  BY <1>1, <1>2

LEMMA RespondMirrors ==
    ASSUME OneAtATime, IdleElsewhere, LogInv, SentInv, MirrorInv, NEW w \in Workers, Respond(w)
    PROVE  MirrorInv'
<1> DEFINE e == job[w].event
<1>1. /\ UNCHANGED <<customer, account, tierOf, stage, emitted, seen, row, applied, error>>
      /\ job'[w] = Idle /\ \A v \in Workers \ {w} : job'[v] = job[v]
      /\ outbox' = outbox \ {e} /\ e \in Events /\ job[w].pc = "responding"
  BY DEF Respond, Answer, LogInv, TypeOK, KnowsLog, stripe, choices, history
<1>2. \A v \in Workers : job'[v] = Idle
  BY <1>1, OneBusy
<1>3. OnTheWay'
  BY <1>2 DEF OnTheWay, Idle
<1>4. ASSUME NEW s \in Subs, Followed(s), Followed(s)', NEW t \in Sent(s), <<t, s>> \in outbox
      PROVE  <<t, s>> \in outbox' \/ IsDone(t, s)
  <2>1. CASE e # <<t, s>>
    BY <1>1, <1>4, <2>1
  <2>2. CASE e = <<t, s>>
    <3>1. IsDone(t, s) \/ Lost(<<t, s>>)
      BY <1>1, <1>4, <2>2 DEF MirrorInv, Mirrored, JobFits
    <3>2. Lost(<<t, s>>) => IsGone(t, s)'
      BY <1>1, <1>4, <2>2 DEF IsGone, Lost, Sent
    <3> QED
      BY <1>4, <3>1, <3>2 DEF Followed, Sent
  <2> QED
    BY <2>1, <2>2
<1> HIDE DEF e
<1> QED
  BY <1>1, <1>2, <1>3, <1>4, IdleMirrors

LEMMA CommitMirrors ==
    ASSUME OneAtATime, IdleElsewhere, LogInv, SentInv, RowInv, MirrorInv, TypeOK',
           NEW w \in Workers, CommitEvent(w), NEW e, job[w].event = e
    PROVE  MirrorInv'
<1>1. CASE Conflict(job[w])
  BY <1>1, RejectMirrors DEF CommitEvent
<1>2. CASE ~Conflict(job[w])
  <2> DEFINE p == job[w].product
  <2>1. /\ UNCHANGED <<customer, account, tierOf, stage, emitted, seen, outbox>>
        /\ TypeOK /\ job[w].pc = "writing" /\ e \in Events /\ e[2] \in Subs /\ e \in emitted
        /\ e \in outbox /\ OnTheWay
    BY <1>2, EventParts DEF CommitEvent, LogInv, TypeOK, KnowsLog, SentInv, OnlySent,
                            MirrorInv, OnTheWay, stripe, choices
  <2>2. \A v \in Workers : v = w \/ job[v] = Idle
    BY <2>1, OneBusy
  <2>3. \A v \in Workers : job'[v] =
           IF v = w THEN [Idle EXCEPT !.pc = "responding", !.event = e] ELSE job[v]
    BY <1>2, CommitFrees
  <2>4. \A v \in Workers : job'[v].product = "none" /\ job'[v].pc # "writing"
                           /\ (job'[v].pc # "idle" => v = w /\ job'[v].event = e)
    <3>1. /\ job'[w].product = "none" /\ job'[w].pc = "responding" /\ job'[w].event = e
      BY <2>3 DEF Idle
    <3>2. \A v \in Workers \ {w} : job'[v] = Idle
      BY <2>2, <2>3
    <3>3. Idle.product = "none" /\ Idle.pc = "idle"
      BY DEF Idle
    <3> QED
      BY <3>1, <3>2, <3>3
  <2>5. OwnProduct' /\ OnTheWay'
    BY <2>1, <2>4 DEF OwnProduct, OnTheWay
  <2>6. /\ applied' = IF p # "none" THEN [applied EXCEPT ![e] = @ + 1] ELSE applied
        /\ error' = IF job[w].error = "none" THEN error ELSE [error EXCEPT ![e] = job[w].error]
    BY <1>2, CommitWrites DEF CommitEvent
  <2>7. \A x \in Events : x # e => applied'[x] = applied[x] /\ error'[x] = error[x]
    BY <2>1, <2>6 DEF TypeOK
  <2>8. ASSUME NEW s \in Subs PROVE Mirrored(s)'
    <3>1. /\ Mirrored(s) /\ Sent(s)' = Sent(s) /\ (Sole(s)' <=> Sole(s))
          /\ Product(s)' = Product(s)
      BY <2>1 DEF MirrorInv, Sent, Sole, Product
    <3>2. Followed(s)' => Followed(s)
      <4>1. \A t \in Sent(s) : <<t, s>> \in Events
        BY DEF Sent, Events
      <4> QED
        BY <2>1, <2>7, <3>1, <4>1, FollowedBefore
    <3> SUFFICES ASSUME Followed(s)
                 PROVE  DoneInOrder(s)' /\ RowShows(s)' /\ \A v \in Workers : JobFits(v, s)'
      BY <3>2 DEF Mirrored
    <3>3. DoneInOrder(s) /\ RowShows(s) /\ (\A v \in Workers : JobFits(v, s)) /\ Sole(s)
      BY <3>1 DEF Mirrored, Followed
    <3>4. ASSUME e[2] = s, IsDone(e[1], s)' \/ Lost(e)'
          PROVE  \A v \in Workers : JobFits(v, s)'
      <4> TAKE v \in Workers
      <4> SUFFICES ASSUME v = w PROVE JobFits(v, s)'
        BY <2>4 DEF JobFits
      <4>1. \A x \in Sent(s) : Rank[x] < Rank[e[1]] => <<x, s>> \notin outbox'
        BY <2>1, <3>3, <3>4 DEF JobFits
      <4>2. e = <<e[1], s>>
        BY <2>1, <3>4 DEF Events
      <4> QED
        BY <2>4, <3>1, <3>4, <4>1, <4>2 DEF JobFits, IsDone, Lost
    <3>5. CASE e[2] = s /\ p # "none"
      <4>1. /\ row' = [row EXCEPT ![Product(s)] = job[w].new]
            /\ job[w].new \in Rows /\ Product(s) \in Products
            /\ applied' = [applied EXCEPT ![e] = @ + 1]
            /\ job[w].new = LET t == e[1] IN
                 CASE t = "checkout" -> PaidRow(s)
                   [] t = "deleted" -> Ended(PaidRow(s))
                   [] OTHER -> [PaidRow(s) EXCEPT !.status =
                                   IF t = "failed" THEN "past_due" ELSE "active"]
        BY <1>2, <2>1, <3>3, <3>5, CommitShows
      <4>2. row'[Product(s)] = job[w].new
        BY <2>1, <4>1 DEF TypeOK
      <4>3. DoneInOrder(s)' /\ RowShows(s)'
        BY <2>1, <3>1, <3>3, <3>5, <4>1, <4>2, ShownInTurn
      <4>4. IsDone(e[1], s)'
        <5>1. e = <<e[1], s>> /\ applied[e] \in Nat /\ e \in DOMAIN applied
          BY <2>1, <3>5 DEF Events, TypeOK
        <5> QED
          BY <4>1, <5>1 DEF IsDone
      <4> QED
        BY <3>4, <3>5, <4>3, <4>4
    <3>6. CASE e[2] = s /\ p = "none"
      <4>1. e = <<e[1], s>> /\ row' = row /\ applied' = applied
        BY <1>2, <2>1, <2>6, <3>6 DEF Events, CommitEvent
      <4>2. \A t : IsDone(t, s)' <=> IsDone(t, s)
        BY <4>1 DEF IsDone
      <4>3. PaidRow(s)' = PaidRow(s)
        BY <2>1 DEF PaidRow
      <4>4. DoneInOrder(s)' /\ RowShows(s)'
        BY <2>1, <3>1, <3>3, <4>1, <4>2, <4>3 DEF DoneInOrder, RowShows
      <4>5. IsDone(e[1], s) \/ job[w].error = "retrieve"
        BY <2>1, <3>3, <3>6 DEF JobFits, Product
      <4>6. job[w].error = "retrieve" => error'[e] = "retrieve"
        BY <2>1, <2>6 DEF TypeOK
      <4>7. IsDone(e[1], s)' \/ Lost(e)'
        <5>1. applied[e] \in Nat
          BY <2>1 DEF TypeOK
        <5> QED
          BY <4>1, <4>5, <4>6, <5>1 DEF IsDone, Lost
      <4> QED
        BY <3>4, <3>6, <4>4, <4>7
    <3>7. CASE e[2] # s
      <4>1. Sent(e[2]) # {}
        BY <2>1 DEF Sent, Events
      <4>2. stage[e[2]] \notin {"idle", "loaded", "open"}
        BY <2>1, <4>1 DEF SentInv, SentByStage
      <4>3. Product(e[2]) # Product(s)
        BY <2>1, <3>3, <3>7, <4>2 DEF Sole
      <4>4. row'[Product(s)] = row[Product(s)]
        <5>1. CASE p = "none"
          BY <1>2, <5>1 DEF CommitEvent
        <5>2. CASE p # "none"
          <6>1. p # Product(s)
            BY <4>3, <5>2 DEF MirrorInv, OwnProduct
          <6>2. row' = [row EXCEPT ![p] = Merge(@, job[w].old, job[w].new)]
            BY <1>2, <5>2 DEF CommitEvent
          <6>3. Product(s) \in DOMAIN row
            BY <2>1 DEF TypeOK, Product, Products
          <6> QED
            BY <6>1, <6>2, <6>3
        <5> QED
          BY <5>1, <5>2
      <4>5. \A t \in EventTypes :
               /\ applied'[<<t, s>>] = applied[<<t, s>>]
               /\ error'[<<t, s>>] = error[<<t, s>>]
        <5> TAKE t \in EventTypes
        <5>1. <<t, s>> \in Events /\ e # <<t, s>>
          BY <3>7 DEF Events
        <5> QED
          BY <2>7, <5>1
      <4>6. \A v \in Workers : JobFits(v, s)'
        BY <2>4, <3>7 DEF JobFits
      <4>7. Mirrored(s)'
        BY <2>1, <3>1, <3>2, <4>4, <4>5, <4>6, MirrorKeep
      <4>8. Followed(s)'
        <5>1. \A t \in EventTypes : IsGone(t, s)' => IsGone(t, s)
          BY <2>1, <3>1, <4>5 DEF IsGone, Lost
        <5> QED
          BY <3>1, <5>1 DEF Followed
      <4> QED
        BY <4>7, <4>8 DEF Mirrored
    <3> QED
      BY <3>5, <3>6, <3>7
  <2> QED
    BY <2>5, <2>8 DEF MirrorInv
<1> QED
  BY <1>1, <1>2

(* Stripe moves a subscription on: what it sends comes after what it sent.  *)
LEMMA MovesMirror ==
    ASSUME LogInv, SentInv, MirrorInv, NEW y \in Subs, NEW to, NEW types, Moves(y, to, types),
           Transition(stage[y], to, types), types = {"failed"} => "failed" \notin Sent(y),
           account' = account
    PROVE  MirrorInv'
<1>1. /\ TypeOK /\ types \in SUBSET EventTypes
      /\ UNCHANGED <<customer, account, tierOf, seen, row, log, job, applied, error>>
      /\ outbox' = outbox \cup (types \X {y})
      /\ Sent(y)' = Sent(y) \cup types /\ \A x \in Subs \ {y} : Sent(x)' = Sent(x)
  BY TransitionTypes, SentGrows DEF LogInv, Moves, history
<1>2. \A t \in types, x \in Sent(y) : Rank[x] < Rank[t]
  BY <1>1, MoveFits DEF SentInv
<1>3. OwnProduct' /\ OnTheWay'
  BY <1>1 DEF MirrorInv, OwnProduct, OnTheWay, Product
<1>4. \A x \in Subs : stage'[x] \in {"idle", "loaded", "open"} => stage'[x] = stage[x]
  BY <1>1 DEF Moves, Transition, TypeOK
<1>5. \A t \in EventTypes : Rank[t] \in Nat
  BY DEF EventTypes, Rank
<1>6. ASSUME NEW s \in Subs, NEW t \in Sent(s)
      PROVE  <<t, s>> \in outbox' <=> <<t, s>> \in outbox
  <2>1. s = y => t \notin types
    BY <1>1, <1>2, <1>5 DEF Sent
  <2> QED
    BY <1>1, <2>1
<1>7. ASSUME NEW s \in Subs PROVE Mirrored(s)'
  <2>1. /\ Mirrored(s) /\ (Sole(s)' => Sole(s)) /\ Sent(s) \subseteq Sent(s)'
        /\ \A w \in Workers : job[w].pc # "idle" => job[w].event \in Events
    BY <1>1, <1>4 DEF MirrorInv, Sole, Product, LogInv, KnowsLog
  <2>2. Followed(s)' => Followed(s)
    BY <1>1, <1>6, <2>1, FollowedBefore
  <2>3. CASE s # y
    BY <1>1, <1>6, <2>1, <2>2, <2>3, MirrorKeep
  <2>4. CASE s = y
    <3> SUFFICES ASSUME Followed(s)'
                 PROVE  DoneInOrder(s)' /\ RowShows(s)' /\ \A w \in Workers : JobFits(w, s)'
      BY DEF Mirrored
    <3>1. DoneInOrder(s) /\ RowShows(s) /\ \A w \in Workers : JobFits(w, s)
      BY <2>1, <2>2 DEF Mirrored
    <3>2. /\ \A x : (IsDone(x, s)' <=> IsDone(x, s)) /\ (Lost(<<x, s>>)' <=> Lost(<<x, s>>))
          /\ Product(s)' = Product(s) /\ PaidRow(s)' = PaidRow(s)
          /\ \A x, old : Outcome(x, Found(Product(s), old))'
                           = Outcome(x, Found(Product(s), old))
      BY <1>1 DEF IsDone, Lost, Product, PaidRow, Outcome, Found
    <3>3. RowShows(s)'
      BY <1>1, <3>1, <3>2 DEF RowShows
    <3>4. Sent(s) \subseteq EventTypes
      BY DEF Sent
    <3>5. DoneInOrder(s)'
      <4>1. \A t \in types : <<t, s>> \in outbox'
        BY <1>1, <2>4
      <4>2. \A t \in Sent(s)' : <<t, s>> \notin outbox' => IsDone(t, s)'
        BY <1>1, <2>4, <3>1, <3>2, <4>1 DEF DoneInOrder
      <4>3. ASSUME NEW t \in Sent(s)', NEW x \in Sent(s)', Rank[x] < Rank[t], IsDone(t, s)'
            PROVE  <<x, s>> \notin outbox'
        <5>1. t \in EventTypes /\ IsDone(t, s)
          BY <1>1, <2>4, <3>2, <3>4, <4>3
        <5>2. t \in Sent(s)
          <6>1. <<t, s>> \in Events /\ applied[<<t, s>>] # 0
            BY <5>1 DEF Events, IsDone
          <6> QED
            BY <5>1, <6>1 DEF LogInv, RefusedOnRecord, SentInv, OnlySent, Sent
        <5>3. x \in Sent(s)
          BY <1>1, <1>2, <1>5, <2>4, <3>4, <4>3, <5>2
        <5> QED
          BY <1>6, <3>1, <4>3, <5>1, <5>2, <5>3 DEF DoneInOrder
      <4> QED
        BY <4>2, <4>3 DEF DoneInOrder
    <3>6. ASSUME NEW w \in Workers PROVE JobFits(w, s)'
      <4> SUFFICES ASSUME job[w].pc # "idle", job[w].event[2] = s PROVE JobFits(w, s)'
        BY <1>1 DEF JobFits
      <4>1. job[w].event[1] \in Sent(s)
        <5>1. job[w].event \in Events /\ job[w].event \in emitted
          BY DEF LogInv, KnowsLog, SentInv, OnlySent
        <5> QED
          BY <5>1 DEF Events, Sent
      <4>2. ASSUME NEW x \in Sent(s)', Rank[x] < Rank[job[w].event[1]]
            PROVE  <<x, s>> \notin outbox'
        <5>1. x \in Sent(s)
          BY <1>1, <1>2, <1>5, <2>4, <3>4, <4>1, <4>2
        <5> QED
          BY <1>6, <3>1, <4>2, <5>1 DEF JobFits
      <4> QED
        BY <1>1, <3>1, <3>2, <4>2 DEF JobFits
    <3> QED
      BY <3>3, <3>5, <3>6
  <2> QED
    BY <2>3, <2>4
<1> QED
  BY <1>3, <1>7 DEF MirrorInv

LEMMA NothingSentLater ==
    (LogInv /\ OnlySent => \A s \in Subs : Sent(s) = {} => Mirrored(s))'
BY NothingSent, PTL

(* A session that is being opened makes its customer anew or uses the one   *)
(* it has seen: no other session becomes the customer's.                    *)
LEMMA CheckoutMirrors ==
    ASSUME LogInv, SentInv, MirrorInv, SentInv', LogInv', NEW y \in Subs,
           LoadUser(y) \/ OpenSession(y)
    PROVE  MirrorInv'
<1>1. /\ TypeOK
      /\ UNCHANGED <<account, tierOf, emitted, row, outbox, log, job, applied, error>>
      /\ \A x \in Subs \ {y} : stage'[x] = stage[x] /\ seen'[x] = seen[x]
      /\ stage'[y] \in {"loaded", "open"} /\ stage[y] \in {"idle", "loaded"}
      /\ \A x \in Subs : Sent(x)' = Sent(x)
  BY DEF LoadUser, OpenSession, UseCustomer, LogInv, TypeOK, choices, history, Sent
<1>2. OwnProduct' /\ OnTheWay'
  BY <1>1 DEF MirrorInv, OwnProduct, OnTheWay, Product
<1>3. ASSUME NEW s \in Subs PROVE Mirrored(s)'
  <2>1. CASE s = y
    <3>1. Sent(y) = {}
      BY <1>1 DEF SentInv, SentByStage
    <3>2. OnlySent'
      BY DEF SentInv
    <3> QED
      BY <1>1, <2>1, <3>1, <3>2, NothingSentLater
  <2>2. CASE s # y
    <3>1. customer' = customer \/ customer' = y
      BY DEF LoadUser, OpenSession, UseCustomer
    <3>2. seen[s] # y
      BY <1>1 DEF SentInv, CustomersMade
    <3>3. Sole(s)' => Sole(s)
      BY <1>1, <2>2, <3>1, <3>2 DEF Sole, Product
    <3>4. Mirrored(s) /\ \A w \in Workers : job[w].pc # "idle" => job[w].event \in Events
      BY DEF MirrorInv, LogInv, KnowsLog
    <3>5. Followed(s)' => Followed(s)
      BY <1>1, <3>3, FollowedBefore
    <3> QED
      BY <1>1, <3>4, <3>5, MirrorKeep
  <2> QED
    BY <2>1, <2>2
<1> QED
  BY <1>2, <1>3 DEF MirrorInv

(* Once the account is on its way out there is nothing to mirror.           *)
LEMMA LeavingMirrors ==
    ASSUME MirrorInv, UNCHANGED <<tierOf, job>>, account' # "open", outbox \subseteq outbox'
    PROVE  MirrorInv'
BY DEF MirrorInv, OwnProduct, OnTheWay, Mirrored, Followed, Sole, Product

LEMMA MirrorInit == Init => SentInv /\ MirrorInv
<1> SUFFICES ASSUME Init PROVE SentInv /\ MirrorInv
  OBVIOUS
<1>1. SentInv /\ LogInv
  BY SentInit, LogInit
<1>2. \A s \in Subs : Sent(s) = {}
  BY DEF Init, Sent
<1>3. OwnProduct /\ OnTheWay
  BY DEF Init, OwnProduct, OnTheWay, Idle
<1> QED
  BY <1>1, <1>2, <1>3, NothingSent DEF MirrorInv, SentInv

LEMMA MirrorNext ==
    ASSUME setting.inOrder, OneAtATime, TierInv, SentInv, MirrorInv, [Next]_vars,
           TierInv', SentInv'
    PROVE  MirrorInv'
<1>1. LogInv /\ TypeOK /\ IdleElsewhere /\ RowInv /\ LogInv' /\ TypeOK'
  BY DEF TierInv, LogInv
<1>2. ASSUME NEW s \in Subs, LoadUser(s) \/ OpenSession(s) PROVE MirrorInv'
  BY <1>1, <1>2, CheckoutMirrors
<1>3. ASSUME NEW s \in Subs,
             Pay(s) \/ FailInvoice(s) \/ Recover(s) \/ EndSubscription(s)
      PROVE  MirrorInv'
  <2>1. account' = account
    BY <1>3 DEF Pay, FailInvoice, Recover, EndSubscription, StripeMoves
  <2> QED
    BY <1>1, <1>3, <2>1, StripeStep, MovesMirror
<1>4. ASSUME NEW w \in Workers, Deliver(w) PROVE MirrorInv'
  BY <1>1, <1>4, ReceiveMirrors, RecordMirrors, ReadRowMirrors, CommitMirrors,
     RespondMirrors DEF Deliver
<1>5. CASE CancelBeforeDelete \/ DeleteUser
  <2>1. UNCHANGED <<tierOf, job>> /\ account' # "open" /\ outbox \subseteq outbox'
    BY <1>5 DEF CancelBeforeDelete, DeleteUser, Emit, stripe, choices
  <2> QED
    BY <2>1, LeavingMirrors
<1>6. CASE Crash
  <2>1. /\ UNCHANGED <<customer, account, tierOf, stage, emitted, seen, row, outbox, applied,
                       error>>
        /\ \A w \in Workers : job'[w] = Idle
    BY <1>6 DEF Crash, stripe, choices, history
  <2>2. OnTheWay'
    BY <2>1 DEF OnTheWay, Idle
  <2> QED
    BY <1>1, <2>1, <2>2, IdleMirrors
<1>7. CASE UNCHANGED vars
  <2>1. /\ UNCHANGED <<customer, account, tierOf, stage, emitted, seen, row, outbox, job,
                       applied, error>>
        /\ OnTheWay'
    BY <1>7 DEF vars, stripe, choices, history, MirrorInv, OnTheWay
  <2> QED
    BY <1>1, <2>1, IdleMirrors
<1> QED
  BY <1>2, <1>3, <1>4, <1>5, <1>6, <1>7 DEF Next

(* When deliveries come in order and one at a time, and Stripe has nothing  *)
(* left to deliver, the row follows the only paid subscription of its       *)
(* product through payment, failed invoice, recovery and cancellation, and  *)
(* any number of crashes, redeliveries and failed syncs, unless an event    *)
(* was answered though Stripe could not be asked for the subscription       *)
(* (stripe_service.py:164-378, 422-426).                                    *)
THEOREM RowMirrorsStripe == Spec => []MirrorsStripe
<1> DEFINE Inv == TierInv /\ SentInv /\ (setting.inOrder /\ OneAtATime => MirrorInv)
<1>1. Init => Inv
  BY TierInit, MirrorInit
<1>2. Inv /\ [Next]_vars => Inv'
  <2> SUFFICES ASSUME Inv, [Next]_vars PROVE Inv'
    OBVIOUS
  <2>1. LogInv /\ TypeOK /\ IdleElsewhere
    BY DEF TierInv, LogInv
  <2>2. TierInv' /\ SentInv'
    BY <2>1, TierNext, SentNext
  <2>3. setting' = setting
    BY <2>1, ElsewhereNext
  <2>4. (setting.inOrder /\ OneAtATime)' => setting.inOrder /\ OneAtATime
    BY <2>3 DEF OneAtATime
  <2>5. setting.inOrder /\ OneAtATime => MirrorInv'
    BY <2>2, MirrorNext
  <2> QED
    BY <2>2, <2>4, <2>5
<1>3. Inv => MirrorsStripe
  <2> SUFFICES ASSUME Inv, setting.inOrder, OneAtATime, Quiet, NEW s \in Subs, Sole(s),
                      \A t \in EventTypes : ~Lost(<<t, s>>)
               PROVE  LET own == row[Product(s)]
                          paid == Outcome(<<"checkout", s>>, own)
                      IN  /\ stage[s] = "active" => own = paid
                          /\ stage[s] = "past_due" => own = [paid EXCEPT !.status = "past_due"]
                          /\ stage[s] = "deleted" => own = Outcome(<<"deleted", s>>, paid)
    BY DEF MirrorsStripe
  <2>1. SentByStage(s) /\ DoneInOrder(s) /\ RowShows(s) /\ OnlySent /\ TypeOK
    BY DEF SentInv, MirrorInv, Mirrored, Followed, IsGone, TierInv, LogInv
  <2>2. Sent(s) \subseteq EventTypes /\ \A t \in Sent(s) : IsDone(t, s)
    BY <2>1 DEF Sent, DoneInOrder, Quiet
  <2>3. ASSUME NEW t \in EventTypes, IsDone(t, s) PROVE t \in Sent(s)
    <3>1. <<t, s>> \in Events /\ applied[<<t, s>>] # 0
      BY <2>3 DEF Events, IsDone
    <3> QED
      BY <2>1, <3>1 DEF TierInv, LogInv, RefusedOnRecord, OnlySent, Sent
  <2>4. \A t \in {"checkout", "deleted", "failed", "recovered"} : t \in EventTypes
    BY DEF EventTypes, Rank
  <2>5. \A old : Outcome(<<"checkout", s>>, old) = PaidRow(s)
    BY DEF Outcome, PaidRow
  <2>6. Outcome(<<"deleted", s>>, PaidRow(s)) = Ended(PaidRow(s))
    BY DEF Outcome
  <2>7. [PaidRow(s) EXCEPT !.status = "active"] = PaidRow(s)
    BY <2>1, PaidIsActive
  <2>8. stage[s] = "active" => row[Product(s)] = PaidRow(s)
    BY <2>1, <2>2, <2>3, <2>4, <2>7 DEF SentByStage, RowShows
  <2>9. stage[s] = "past_due" => row[Product(s)] = [PaidRow(s) EXCEPT !.status = "past_due"]
    BY <2>1, <2>2, <2>3, <2>4 DEF SentByStage, RowShows
  <2>10. stage[s] = "deleted" => row[Product(s)] = Ended(PaidRow(s))
    BY <2>1, <2>2 DEF SentByStage, RowShows
  <2> QED
    BY <2>5, <2>6, <2>8, <2>9, <2>10
<1> QED
  BY <1>1, <1>2, <1>3, PTL DEF Spec
=============================================================================
