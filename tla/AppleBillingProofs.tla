------------------------- MODULE AppleBillingProofs ---------------------------
(***************************************************************************)
(* Proofs about AppleBilling, for any number of accounts, notifications,   *)
(* overlapping deliveries and crashes: the webhook of Apple implements the *)
(* event log, and an account that was verified follows the subscription.   *)
(***************************************************************************)
EXTENDS AppleBilling, FiniteSetTheorems, TLAPS

(* What a delivery in progress knows: its notification was sent, while it   *)
(* commits the log has no row of the notification but its own, and what is  *)
(* about to be answered is on record.                                       *)
KnowsLog(w) ==
    LET j == job[w] IN
    /\ j.pc # "idle" => j.note \in 1 .. Len(notes)
    /\ j.inserted => j.pc = "committing" /\ log[j.note] = "absent"
    /\ j.pc = "committing" => j.inserted
    /\ j.pc = "responding" => log[j.note] # "absent"

(* The unique index: one delivery has inserted the row of a notification.   *)
OneInserts ==
    \A v, w \in Workers :
        v # w /\ job[v].inserted /\ job[w].inserted => job[v].note # job[w].note

\* A subscription that was bought has a tier on sale.
AppleSells == apple.stage # "none" => apple.tier \in Tiers

LogInv ==
    TypeOK /\ AppleSells /\ OneInserts /\ \A w \in Workers : KnowsLog(w)

LEMMA Constants ==
    /\ Idle \in Jobs /\ Absent \in Rows /\ Fresh \in Rows /\ Waiting \in Requests
    /\ \A s \in Settings : s.notes \in 0 .. MaxNotes /\ s.crashes \in Nat
BY AppleAssumption DEF Idle, Jobs, Rows, Absent, Fresh, Waiting, Requests

LEMMA MergeType ==
    ASSUME NEW current \in Rows, NEW old \in Rows, NEW new \in Rows
    PROVE  Merge(current, old, new) \in Rows
BY DEF Merge, Rows

LEMMA OutcomeType ==
    ASSUME NEW note \in Notes, NEW old \in Rows
    PROVE  Outcome(note, old) \in Rows
<1>1. CASE note.status = "active"
  BY <1>1 DEF Outcome, Synced, Rows, Notes
<1>2. CASE note.status = "expired"
  BY <1>2 DEF Outcome, Synced, Rows, Notes
<1>3. CASE note.status = "in_billing_retry"
  BY <1>3 DEF Outcome, Rows
<1> QED
  BY <1>1, <1>2, <1>3 DEF Notes

LEMMA FoundType == TypeOK => Found \in Rows /\ Holders \subseteq Users
BY Constants DEF TypeOK, Found, Holders

LEMMA LogInit == Init => LogInv
<1> SUFFICES ASSUME Init PROVE LogInv
  OBVIOUS
<1>1. notes \in Seq(Notes) /\ Len(notes) = 0 /\ Len(notes) <= setting.notes
  BY Constants, AppleAssumption DEF Init
<1>2. TypeOK
  BY <1>1, Constants DEF Init, TypeOK
<1> QED
  BY <1>2 DEF Init, LogInv, AppleSells, OneInserts, KnowsLog, Idle

(* A notification is sent. *)
LEMMA SendKeeps ==
    ASSUME LogInv, NEW from, NEW to \in {"active", "retry", "expired"},
           NEW status \in {"active", "in_billing_retry", "expired"}, NEW tier \in Tiers,
           Send(from, to, status, tier), claim' \in [Users -> BOOLEAN]
    PROVE  LogInv'
<1> DEFINE note == [status |-> status, tier |-> tier]
<1>1. note \in Notes
  BY DEF Notes
<1>2. notes' = Append(notes, note) /\ Len(notes) < setting.notes /\ notes \in Seq(Notes)
      /\ setting \in Settings /\ UNCHANGED setting
  BY DEF LogInv, TypeOK, Send
<1> HIDE DEF note
<1>3. notes' \in Seq(Notes) /\ Len(notes') = Len(notes) + 1 /\ Len(notes) \in Nat
  BY <1>1, <1>2
<1>4. Len(notes') <= setting.notes /\ 1 .. Len(notes) \subseteq 1 .. Len(notes')
      /\ Len(notes) + 1 \in 1 .. Len(notes')
  BY <1>2, <1>3, Constants, AppleAssumption
<1>5. outbox' \subseteq 1 .. Len(notes')
  BY <1>4 DEF LogInv, TypeOK, Send
<1>6. app' \in [Users -> Requests]
  BY DEF LogInv, TypeOK, Send, Requests
<1>7. TypeOK'
  BY <1>2, <1>3, <1>4, <1>5, <1>6 DEF LogInv, TypeOK, Send
<1>8. AppleSells'
  BY DEF Send, AppleSells
<1>9. UNCHANGED <<log, job>>
  BY DEF Send
<1> QED
  BY <1>4, <1>7, <1>8, <1>9 DEF LogInv, OneInserts, KnowsLog

LEMMA AppleKeeps ==
    ASSUME LogInv, Subscribe \/ Renew \/ FailToRenew \/ ToggleRenewal \/ End
    PROVE  LogInv'
<1>1. claim' \in [Users -> BOOLEAN]
  BY DEF LogInv, TypeOK, Subscribe, Renew, FailToRenew, ToggleRenewal, End
<1>2. CASE Subscribe \/ Renew
  <2>1. PICK tier \in Tiers : \E from : Send(from, "active", "active", tier)
    BY <1>2 DEF Subscribe, Renew
  <2> QED
    BY <1>1, <2>1, SendKeeps
<1>3. CASE FailToRenew \/ ToggleRenewal \/ End
  <2>1. apple.tier \in Tiers
    BY <1>3 DEF FailToRenew, ToggleRenewal, End, Send, LogInv, AppleSells
  <2> QED
    BY <1>1, <1>3, <2>1, SendKeeps DEF FailToRenew, ToggleRenewal, End
<1> QED
  BY <1>2, <1>3

(* The steps of the app, of the accounts and of the deployment. *)
LEMMA OthersKeep ==
    ASSUME LogInv, TypeOK', UNCHANGED <<log, job, notes, apple>>
    PROVE  LogInv'
BY DEF LogInv, AppleSells, OneInserts, KnowsLog

LEMMA AccountsKeep ==
    ASSUME LogInv, NEW u \in Users,
           VerifyRead(u) \/ VerifyCommit(u) \/ NewPeriod(u) \/ SecondPeriod(u)
             \/ DeleteAccount(u)
    PROVE  LogInv'
<1>1. UNCHANGED <<log, job, notes, apple>> /\ TypeOK
  BY DEF VerifyRead, VerifyCommit, NewPeriod, SecondPeriod, DeleteAccount, external, LogInv
<1>2. CASE VerifyRead(u)
  <2>1. (Quiet /\ Last.status = "active") \in BOOLEAN
    OBVIOUS
  <2>2. app' \in [Users -> Requests]
    BY <1>1, <1>2, <2>1 DEF VerifyRead, TypeOK, Requests
  <2>3. TypeOK'
    BY <1>1, <1>2, <2>2 DEF VerifyRead, TypeOK, external
  <2> QED
    BY <1>1, <2>3, OthersKeep
<1>3. CASE VerifyCommit(u)
  <2> DEFINE new == [app[u].old EXCEPT !.tier = app[u].tier, !.status = "active",
                                       !.link = "apple"]
  <2>1. app[u] \in Requests /\ row[u] \in Rows
    BY <1>1 DEF TypeOK
  <2>2. new \in Rows /\ app[u].old \in Rows
    BY <2>1 DEF Requests, Rows
  <2>3. row' = row \/ row' = [row EXCEPT ![u] = Merge(row[u], app[u].old, new)]
    BY <1>3 DEF VerifyCommit
  <2> HIDE DEF new
  <2>6. Merge(row[u], app[u].old, new) \in Rows
    BY <2>1, <2>2, MergeType
  <2>4. row' \in [Users -> Rows]
    BY <1>1, <2>3, <2>6 DEF TypeOK
  <2>5. claim' \in [Users -> BOOLEAN] /\ app' \in [Users -> Requests]
    BY <1>1, <1>3, <2>1, Constants DEF VerifyCommit, TypeOK, Requests
  <2>7. UNCHANGED <<enabled, external, outbox, log, job, applied, crashes>>
    BY <1>3 DEF VerifyCommit
  <2>8. TypeOK'
    BY <1>1, <2>4, <2>5, <2>7 DEF TypeOK, external
  <2> QED
    BY <1>1, <2>8, OthersKeep
<1>4. CASE NewPeriod(u) \/ SecondPeriod(u)
  <2>3. row[u] \in Rows /\ row \in [Users -> Rows]
    BY <1>1 DEF TypeOK
  <2>4. /\ [row[u] EXCEPT !.limit = row[u].tier] \in Rows
        /\ [row[u] EXCEPT !.twice = TRUE] \in Rows
    BY <2>3 DEF Rows
  <2>5. \/ row' = [row EXCEPT ![u] = [row[u] EXCEPT !.limit = row[u].tier]]
        \/ row' = [row EXCEPT ![u] = [row[u] EXCEPT !.twice = TRUE]]
    BY <1>4 DEF NewPeriod, SecondPeriod
  <2>1. row' \in [Users -> Rows]
    BY <2>3, <2>4, <2>5
  <2>2. TypeOK'
    BY <1>1, <1>4, <2>1 DEF NewPeriod, SecondPeriod, TypeOK, external
  <2> QED
    BY <1>1, <2>2, OthersKeep
<1>5. CASE DeleteAccount(u)
  <2>1. row' \in [Users -> Rows] /\ claim' \in [Users -> BOOLEAN]
    BY <1>1, <1>5, Constants DEF DeleteAccount, TypeOK
  <2>2. TypeOK'
    BY <1>1, <1>5, <2>1 DEF DeleteAccount, TypeOK, external
  <2> QED
    BY <1>1, <2>2, OthersKeep
<1> QED
  BY <1>2, <1>3, <1>4, <1>5

LEMMA ProcessKeeps ==
    ASSUME LogInv, SwitchOn \/ Crash
    PROVE  LogInv'
<1>1. CASE SwitchOn
  BY <1>1, OthersKeep DEF SwitchOn, LogInv, TypeOK, external
<1>2. CASE Crash
  <2>1. TypeOK'
    BY <1>2, Constants, AppleAssumption DEF Crash, LogInv, TypeOK, external
  <2>2. UNCHANGED <<log, notes, apple>> /\ \A w \in Workers : job'[w] = Idle
    BY <1>2 DEF Crash, external
  <2> QED
    BY <2>1, <2>2 DEF LogInv, AppleSells, OneInserts, KnowsLog, Idle
<1> QED
  BY <1>1, <1>2

(* A step of one delivery that writes nothing to the log. *)
LEMMA WorkerKeeps ==
    ASSUME LogInv, NEW w \in Workers, NEW j \in Jobs,
           job' = [job EXCEPT ![w] = j], outbox' \subseteq outbox,
           UNCHANGED <<enabled, external, log, row, app, claim, applied, crashes>>,
           j.pc # "idle" => j.note \in 1 .. Len(notes),
           j.inserted => /\ j.pc = "committing" /\ log[j.note] = "absent"
                         /\ \A v \in Workers \ {w} :
                              job[v].inserted => job[v].note # j.note,
           j.pc = "committing" => j.inserted, j.pc # "responding"
    PROVE  LogInv'
<1>1. \A v \in Workers : job'[v] = IF v = w THEN j ELSE job[v]
  BY DEF LogInv, TypeOK
<1>2. TypeOK' /\ UNCHANGED <<notes, apple>>
  BY DEF LogInv, TypeOK, external
<1> QED
  BY <1>1, <1>2 DEF LogInv, AppleSells, OneInserts, KnowsLog

LEMMA RejectKeeps ==
    ASSUME LogInv, NEW w \in Workers, Reject(w)
    PROVE  LogInv'
<1>1. Idle.pc = "idle" /\ (Idle.inserted <=> FALSE)
  BY DEF Idle
<1> QED
  BY <1>1, Constants, WorkerKeeps DEF Reject

LEMMA RespondKeeps ==
    ASSUME LogInv, NEW w \in Workers, Respond(w)
    PROVE  LogInv'
<1>1. Idle.pc = "idle" /\ (Idle.inserted <=> FALSE)
  BY DEF Idle
<1> QED
  BY <1>1, Constants, WorkerKeeps DEF Respond, Answer

LEMMA ReceiveKeeps ==
    ASSUME LogInv, NEW w \in Workers, NEW n \in outbox, Receive(w, n)
    PROVE  LogInv'
<1>1. n \in 1 .. Len(notes) /\ n \in Ids
  BY AppleAssumption DEF LogInv, TypeOK, Ids
<1>2. CASE Duplicate(n) /\ UNCHANGED job
  <2>1. TypeOK'
    BY <1>2 DEF LogInv, TypeOK, Receive, Duplicate, Answer, external
  <2> QED
    BY <1>2, <2>1, OthersKeep DEF Receive, external
<1>3. CASE job' = [job EXCEPT ![w] = [Idle EXCEPT !.pc = "finding", !.note = n]]
           /\ UNCHANGED outbox
  <2> DEFINE j == [Idle EXCEPT !.pc = "finding", !.note = n]
  <2>1. j \in Jobs
    BY <1>1, Constants DEF Jobs
  <2>2. j.pc = "finding" /\ j.note = n /\ (j.inserted <=> FALSE)
    BY DEF Idle
  <2>3. job' = [job EXCEPT ![w] = j]
    BY <1>3
  <2> HIDE DEF j
  <2> QED
    BY <1>1, <1>3, <2>1, <2>2, <2>3, WorkerKeeps DEF Receive
<1> QED
  BY <1>2, <1>3 DEF Receive

LEMMA FindKeeps ==
    ASSUME LogInv, NEW w \in Workers, FindRow(w)
    PROVE  LogInv'
<1> DEFINE outcome == Handled(w)
           j == [job[w] EXCEPT !.pc = "recording", !.user = Holders, !.old = Found,
                               !.new = outcome]
<1>1. CASE Reject(w)
  BY <1>1, RejectKeeps
<1>2. CASE ~Reject(w)
  <2>1. /\ job' = [job EXCEPT ![w] = j]
        /\ UNCHANGED <<enabled, external, outbox, log, row, app, claim, applied, crashes>>
    BY <1>2 DEF FindRow
  <2>2. /\ TypeOK /\ job[w] \in Jobs /\ job[w].note \in 1 .. Len(notes)
        /\ job[w].pc = "finding" /\ (job[w].inserted <=> FALSE)
    BY DEF LogInv, TypeOK, KnowsLog, FindRow
  <2>3. notes[job[w].note] \in Notes
    BY <2>2 DEF TypeOK
  <2>4. Found \in Rows /\ Holders \in SUBSET Users
    BY <2>2, FoundType
  <2>5. outcome \in Rows
    BY <2>3, <2>4, OutcomeType, Constants DEF Handled
  <2> HIDE DEF outcome
  <2>6. j \in Jobs
    BY <2>2, <2>4, <2>5 DEF Jobs
  <2>7. j.pc = "recording" /\ j.note = job[w].note /\ (j.inserted <=> FALSE)
    BY <2>2 DEF Jobs
  <2> HIDE DEF j
  <2> QED
    BY <2>1, <2>2, <2>6, <2>7, WorkerKeeps
<1> QED
  BY <1>1, <1>2

LEMMA RecordKeeps ==
    ASSUME LogInv, NEW w \in Workers, RecordEvent(w)
    PROVE  LogInv'
<1> DEFINE j == [job[w] EXCEPT !.pc = "committing", !.inserted = TRUE]
<1>1. CASE Reject(w)
  BY <1>1, RejectKeeps
<1>2. CASE ~Reject(w)
  <2>1. /\ job' = [job EXCEPT ![w] = j] /\ log[job[w].note] = "absent"
        /\ UNCHANGED <<enabled, external, outbox, log, row, app, claim, applied, crashes>>
        /\ \A v \in Workers \ {w} : job[v].inserted => job[v].note # job[w].note
    BY <1>2 DEF RecordEvent, EventLocked
  <2>2. job[w] \in Jobs /\ job[w].note \in 1 .. Len(notes)
    BY DEF LogInv, TypeOK, KnowsLog, RecordEvent
  <2>3. j \in Jobs
    BY <2>2 DEF Jobs
  <2>4. j.pc = "committing" /\ j.note = job[w].note /\ (j.inserted <=> TRUE)
    BY <2>2 DEF Jobs
  <2> HIDE DEF j
  <2> QED
    BY <2>1, <2>2, <2>3, <2>4, WorkerKeeps
<1> QED
  BY <1>1, <1>2

(* A commit, the only step that writes to the log. *)
LEMMA CommitWrites ==
    ASSUME LogInv, NEW w \in Workers, CommitEvent(w), ~Reject(w)
    PROVE  /\ job[w].note \in Ids /\ log[job[w].note] = "absent"
           /\ log' = [log EXCEPT ![job[w].note] =
                          IF job[w].user # {} THEN "processed" ELSE "unprocessed"]
           /\ applied' = [applied EXCEPT ![job[w].note] =
                             IF job[w].user # {} THEN @ + 1 ELSE @]
BY AppleAssumption DEF LogInv, TypeOK, KnowsLog, CommitEvent, Ids

LEMMA CommitKeeps ==
    ASSUME LogInv, NEW w \in Workers, CommitEvent(w)
    PROVE  LogInv'
<1> DEFINE j == job[w]
           next == [Idle EXCEPT !.pc = "responding", !.note = j.note]
<1>1. CASE Reject(w)
  BY <1>1, RejectKeeps
<1>2. CASE ~Reject(w)
  <2>1. /\ TypeOK /\ j \in Jobs /\ j.inserted /\ j.note \in Ids
        /\ j.note \in 1 .. Len(notes)
    BY <1>2, CommitWrites DEF LogInv, TypeOK, KnowsLog, CommitEvent
  <2>2. /\ job' = [job EXCEPT ![w] = next]
        /\ row' = [u \in Users |-> IF u \in j.user
                                   THEN Merge(row[u], j.old, j.new) ELSE row[u]]
        /\ UNCHANGED <<enabled, external, outbox, app, claim, crashes>>
    BY <1>2 DEF CommitEvent
  <2>3. row' \in [Users -> Rows]
    BY <2>1, <2>2, MergeType DEF TypeOK, Jobs
  <2>4. next \in Jobs
    BY <2>1, Constants DEF Jobs
  <2>5. next.pc = "responding" /\ next.note = j.note /\ (next.inserted <=> FALSE)
    BY DEF Idle
  <2>6. /\ log' \in [Ids -> {"absent", "unprocessed", "processed"}]
        /\ \A n \in Ids : log'[n] = log[n] \/ (n = j.note /\ log'[n] # "absent")
        /\ log'[j.note] # "absent"
    BY <1>2, <2>1, CommitWrites DEF TypeOK
  <2>7. applied' \in [Ids -> Nat]
    <3>1. applied' = [applied EXCEPT ![j.note] = IF j.user # {} THEN @ + 1 ELSE @]
      BY <1>2, CommitWrites
    <3>2. applied \in [Ids -> Nat]
      BY <2>1 DEF TypeOK
    <3> HIDE DEF j
    <3> QED
      BY <2>1, <3>1, <3>2
  <2> HIDE DEF next
  <2>8. job' \in [Workers -> Jobs]
        /\ \A v \in Workers : job'[v] = IF v = w THEN next ELSE job[v]
    BY <2>1, <2>2, <2>4 DEF TypeOK
  <2>9. TypeOK' /\ UNCHANGED <<notes, apple>>
    BY <2>1, <2>2, <2>3, <2>6, <2>7, <2>8 DEF TypeOK, external
  <2>10. ASSUME NEW v \in Workers PROVE KnowsLog(v)'
    <3>1. CASE v = w
      BY <2>1, <2>5, <2>6, <2>8, <2>9, <3>1 DEF KnowsLog
    <3>2. CASE v # w
      <4>1. KnowsLog(v) /\ job'[v] = job[v]
            /\ (job[v].inserted => job[v].note # j.note)
        BY <2>1, <2>8, <3>2 DEF LogInv, OneInserts
      <4>2. job[v].pc # "idle" => job[v].note \in Ids
        BY <2>1, <4>1, AppleAssumption DEF KnowsLog, TypeOK, Ids
      <4> QED
        BY <2>6, <2>9, <4>1, <4>2 DEF KnowsLog
    <3> QED
      BY <3>1, <3>2
  <2>11. OneInserts'
    BY <2>5, <2>8 DEF LogInv, OneInserts
  <2> QED
    BY <2>9, <2>10, <2>11 DEF LogInv, AppleSells
<1> QED
  BY <1>1, <1>2

LEMMA LogNext == LogInv /\ [Next]_vars => LogInv'
<1> SUFFICES ASSUME LogInv, [Next]_vars PROVE LogInv'
  OBVIOUS
<1>1. CASE Subscribe \/ Renew \/ FailToRenew \/ ToggleRenewal \/ End
  BY <1>1, AppleKeeps
<1>2. ASSUME NEW w \in Workers, Deliver(w) PROVE LogInv'
  BY <1>2, ReceiveKeeps, FindKeeps, RecordKeeps, CommitKeeps, RespondKeeps DEF Deliver
<1>3. ASSUME NEW u \in Users,
             VerifyRead(u) \/ VerifyCommit(u) \/ NewPeriod(u) \/ SecondPeriod(u)
             \/ DeleteAccount(u)
      PROVE  LogInv'
  BY <1>3, AccountsKeep
<1>4. CASE SwitchOn \/ Crash
  BY <1>4, ProcessKeeps
<1>5. CASE UNCHANGED vars
  <2>1. TypeOK' /\ UNCHANGED <<log, job, notes, apple>>
    BY <1>5 DEF LogInv, TypeOK, vars, external
  <2> QED
    BY <2>1, OthersKeep
<1> QED
  BY <1>1, <1>2, <1>3, <1>4, <1>5 DEF Next
-----------------------------------------------------------------------------
(* Whatever columns a stale delivery or verification overwrites, the rows,  *)
(* the notifications and the log are well formed (webhooks.py:97-166,       *)
(* subscription.py:181-235).                                                *)
THEOREM TypeCorrect == Spec => []TypeOK
<1>1. LogInv => TypeOK
  BY DEF LogInv
<1> QED
  BY <1>1, LogInit, LogNext, PTL DEF Spec

(* A sent notification is new to the outbox, and has not been answered.     *)
LEMMA SendAnswersNone ==
    ASSUME TypeOK, NEW from, NEW to, NEW status, NEW tier, Send(from, to, status, tier)
    PROVE  UNCHANGED <<log, applied, (1 .. Len(notes)) \ outbox>>
<1>1. /\ Len(notes) \in Nat /\ outbox \subseteq 1 .. Len(notes)
      /\ outbox' = outbox \cup {Len(notes) + 1} /\ UNCHANGED <<log, applied>>
  BY DEF TypeOK, Send
<1>2. Len(notes') = Len(notes) + 1
  BY DEF TypeOK, Send
<1>3. 1 .. Len(notes') = (1 .. Len(notes)) \cup {Len(notes) + 1}
      /\ Len(notes) + 1 \notin 1 .. Len(notes)
  BY <1>1, <1>2
<1> HIDE DEF Send
<1>4. (1 .. Len(notes')) \ outbox' = (1 .. Len(notes)) \ outbox
  BY <1>1, <1>3
<1> QED
  BY <1>1, <1>4

(* An answer, to a duplicate or after the commit, is to what is on record.  *)
LEMMA AnswerIsLogged ==
    ASSUME LogInv, NEW n \in Ids, log[n] # "absent", n \in 1 .. Len(notes), Answer(n),
           UNCHANGED <<log, applied, notes>>
    PROVE  Log!Answer(n)
<1> DEFINE refused == {i \in Ids : log[i] = "unprocessed"}
           answered == (1 .. Len(notes)) \ outbox
<1>1. answered' = answered \cup {n}
  BY DEF Answer
<1>2. refused' = refused
  OBVIOUS
<1> HIDE DEF answered, refused
<1>3. log[n] # "absent" /\ answered' = answered \cup {n} /\ UNCHANGED <<log, applied, refused>>
  BY <1>1, <1>2
<1> QED
  BY <1>3 DEF Log!Answer, answered, refused

(* Every step of apple_webhook, of the app's verification, of Apple and of  *)
(* the accounts is a step of the event log or leaves it alone: with any     *)
(* number of overlapping, repeated and broken-off deliveries a notification *)
(* takes effect at most once, in the commit that logs it, and Apple has the *)
(* 2xx that ends its retries only for what is on record                     *)
(* (webhooks.py:105-134).                                                   *)
THEOREM LogImplemented == Spec => ImplementsEventLog
<1>1. Init => Log!Init
  BY Constants DEF Init, Log!Init
<1>2. LogInv /\ [Next]_vars => [Log!Next]_(Log!vars)
  <2> SUFFICES ASSUME LogInv, [Next]_vars PROVE [Log!Next]_(Log!vars)
    OBVIOUS
  <2> DEFINE refused == {i \in Ids : log[i] = "unprocessed"}
             answered == (1 .. Len(notes)) \ outbox
  <2>1. CASE \E w \in Workers : CommitEvent(w) /\ ~Reject(w)
    <3> PICK w \in Workers : CommitEvent(w) /\ ~Reject(w)
      BY <2>1
    <3> DEFINE n == job[w].note
    <3>1. /\ n \in Ids /\ log[n] = "absent" /\ DOMAIN log = Ids
          /\ log' = [log EXCEPT ![n] =
                         IF job[w].user # {} THEN "processed" ELSE "unprocessed"]
          /\ applied' = [applied EXCEPT ![n] = IF job[w].user # {} THEN @ + 1 ELSE @]
          /\ applied \in [Ids -> Nat]
      BY CommitWrites DEF LogInv, TypeOK
    <3>2. answered' = answered
      BY DEF CommitEvent, external
    <3> HIDE DEF n, answered
    <3>3. CASE job[w].user # {}
      <4>1. refused' = refused
        BY <3>1, <3>3
      <4> QED
        BY <3>1, <3>2, <3>3, <4>1 DEF Log!Next, Log!Apply, answered
    <3>4. CASE job[w].user = {}
      <4>1. refused' = refused \cup {n} /\ applied' = applied
        BY <3>1, <3>4
      <4> QED
        BY <3>1, <3>2, <3>4, <4>1 DEF Log!Next, Log!Refuse, answered
    <3> QED
      BY <3>3, <3>4
  <2>2. ASSUME NEW n \in Ids, Log!Answer(n) PROVE [Log!Next]_(Log!vars)
    BY <2>2 DEF Log!Next
  <2>3. ASSUME NEW w \in Workers, NEW n \in outbox, Receive(w, n) PROVE [Log!Next]_(Log!vars)
    <3>1. /\ n \in 1 .. Len(notes) /\ n \in Ids
          /\ UNCHANGED <<log, applied, notes>>
      BY <2>3, AppleAssumption DEF LogInv, TypeOK, Ids, Receive, external
    <3>2. CASE UNCHANGED outbox
      BY <3>1, <3>2 DEF Log!vars
    <3>3. CASE log[n] # "absent" /\ Answer(n)
      BY <2>2, <3>1, <3>3, AnswerIsLogged
    <3> QED
      BY <2>3, <3>2, <3>3 DEF Receive, Duplicate
  <2>4. ASSUME NEW w \in Workers, Respond(w) PROVE [Log!Next]_(Log!vars)
    <3> DEFINE n == job[w].note
    <3>1. /\ n \in 1 .. Len(notes) /\ n \in Ids /\ log[n] # "absent" /\ Answer(n)
          /\ UNCHANGED <<log, applied, notes>>
      BY <2>4, AppleAssumption DEF LogInv, TypeOK, KnowsLog, Ids, Respond, external
    <3> QED
      BY <2>2, <3>1, AnswerIsLogged
  <2>5. CASE Subscribe \/ Renew \/ FailToRenew \/ ToggleRenewal \/ End
    <3>1. UNCHANGED <<log, applied, answered>>
      BY <2>5, SendAnswersNone DEF Subscribe, Renew, FailToRenew, ToggleRenewal, End, LogInv
    <3> QED
      BY <3>1 DEF Log!vars
  <2>6. CASE UNCHANGED <<log, applied, outbox, notes>>
    BY <2>6 DEF Log!vars
  <2>7. ASSUME NEW w \in Workers, FindRow(w) \/ RecordEvent(w) \/ Reject(w)
        PROVE  UNCHANGED <<log, applied, outbox, notes>>
    BY <2>7 DEF FindRow, RecordEvent, Reject, external
  <2>8. ASSUME NEW u \in Users,
               VerifyRead(u) \/ VerifyCommit(u) \/ NewPeriod(u) \/ SecondPeriod(u)
             \/ DeleteAccount(u)
        PROVE  UNCHANGED <<log, applied, outbox, notes>>
    BY <2>8 DEF VerifyRead, VerifyCommit, NewPeriod, SecondPeriod, DeleteAccount, external
  <2>9. (SwitchOn \/ Crash \/ UNCHANGED vars) => UNCHANGED <<log, applied, outbox, notes>>
    BY DEF SwitchOn, Crash, vars, external
  <2> QED
    BY <2>1, <2>3, <2>4, <2>5, <2>6, <2>7, <2>8, <2>9 DEF Next, Deliver
<1> QED
  BY <1>1, <1>2, LogInit, LogNext, PTL DEF Spec, ImplementsEventLog, Log!Spec

-----------------------------------------------------------------------------
(* FollowsApple.  What follows holds when notifications come in order.      *)

\* The notifications that took effect, or found no account.
Done == {n \in Ids : log[n] # "absent"}

(* Apple's side: a retry keeps the tier, and only Subscribe follows an end. *)
AppleOrder ==
    /\ apple.stage = "none" <=> Len(notes) = 0
    /\ Len(notes) > 0 => apple.tier = Last.tier
    /\ apple.stage \in {"active", "retry"} => Last.status # "expired"
    /\ \A n \in 1 .. Len(notes) : notes[n].status = "in_billing_retry" =>
          n > 1 /\ notes[n].tier = notes[n - 1].tier

(* Notifications that come one by one are done one by one: what is answered *)
(* is done, and what a delivery works on comes after what is done.          *)
DoneInOrder ==
    /\ Done \subseteq 1 .. Len(notes)
    /\ (1 .. Len(notes)) \ outbox \subseteq Done
    /\ \A w \in Workers : job[w].pc # "idle" => 1 .. (job[w].note - 1) \subseteq Done
    /\ \A w \in Workers : job[w].pc = "responding" => job[w].note \in Done

\* The columns of a row that the handlers set, its period's limit aside.
SameSubscription(a, b) == a.tier = b.tier /\ a.status = b.status /\ a.link = b.link

(* What a verification read while nothing else went on is still true.       *)
CleanReads ==
    \A u \in Users : app[u].clean =>
        /\ Quiet /\ Len(notes) > 0 /\ Last.status = "active"
        /\ app[u].tier = Last.tier
        /\ row[u] # Absent => SameSubscription(row[u], app[u].old)

(* What w is about to write for a notification that is not done, it has     *)
(* made of the row of u as it still is.                                     *)
WritesFor(w, u) ==
    job[w].pc \in {"recording", "committing"} /\ job[w].note \notin Done =>
        /\ job[w].user = {u}
        /\ SameSubscription(row[u], job[w].old)
        /\ job[w].new = Outcome(notes[job[w].note], job[w].old)

(* The row of u shows the notification that was done last, and no           *)
(* notification ended the subscription before the last one.                 *)
UpToDate(u) ==
    \E n \in 1 .. Len(notes) :
        /\ Done = 1 .. n
        /\ Shows(u, notes[n])
        /\ \A k \in n .. Len(notes) - 1 : notes[k].status # "expired"

Followed ==
    \A u \in Users : claim[u] => UpToDate(u) /\ \A w \in Workers : WritesFor(w, u)

Follow == AppleOrder /\ DoneInOrder /\ CleanReads /\ Followed
FollowInv == LogInv /\ (setting.inOrder => Follow)

(* A row that is linked is the one the handler finds, or one of several.    *)
LEMMA OnlyHolder ==
    ASSUME TypeOK, NEW u \in Users, row[u].link = "apple", Cardinality(Holders) <= 1
    PROVE  Holders = {u} /\ Found = row[u]
<1>1. IsFiniteSet(Holders) /\ u \in Holders
  BY FS_Subset, AppleAssumption DEF Holders
<1>2. ASSUME NEW v \in Holders, v # u PROVE FALSE
  <2>1. IsFiniteSet({v}) /\ Cardinality({v}) = 1
    BY FS_Singleton
  <2>2. Cardinality({v} \cup {u}) = 2
    <3>1. Cardinality({v} \cup {u}) = Cardinality({v}) + 1
      BY <1>2, <2>1, FS_AddElement, Zenon
    <3> QED
      BY <2>1, <3>1
  <2>3. {v} \cup {u} \in SUBSET Holders
    BY <1>1
  <2>4. Cardinality({v} \cup {u}) <= Cardinality(Holders) /\ Cardinality(Holders) \in Nat
    BY <1>1, <2>3, FS_Subset, FS_CardinalityType
  <2> QED
    BY <2>2, <2>4
<1>3. Holders = {u}
  BY <1>1, <1>2
<1> QED
  BY <1>3 DEF Found

\* A merge writes the three columns if they were what the writer read.
LEMMA MergedColumns ==
    ASSUME NEW current \in Rows, NEW old \in Rows, NEW new \in Rows,
           SameSubscription(current, old)
    PROVE  SameSubscription(Merge(current, old, new), new)
BY DEF Merge, SameSubscription, Rows

(* The notification that comes next makes a row that shows the one before   *)
(* show itself.                                                             *)
LEMMA OutcomeShows ==
    ASSUME NEW note \in Notes, NEW old \in Rows,
           old.link = "apple",
           note.status = "in_billing_retry" => old.tier = note.tier
    PROVE  LET new == Outcome(note, old) IN
           /\ new.tier = (IF note.status = "expired" THEN "free" ELSE note.tier)
           /\ new.link = (IF note.status = "expired" THEN "none" ELSE "apple")
           /\ new.status = (CASE note.status = "active" -> "active"
                              [] note.status = "expired" -> "expired"
                              [] OTHER -> "past_due")
<1>1. CASE note.status = "active"
  BY <1>1 DEF Outcome, Rows
<1>2. CASE note.status = "expired"
  BY <1>2 DEF Outcome, Rows
<1>3. CASE note.status = "in_billing_retry"
  BY <1>3 DEF Outcome, Rows
<1> QED
  BY <1>1, <1>2, <1>3 DEF Notes

(* A notification goes out: nothing is done by that, and it does not follow *)
(* an end unless the claims are given up.                                   *)
LEMMA SendFollows ==
    ASSUME LogInv, Follow, NEW from, NEW to \in {"active", "retry", "expired"},
           NEW status \in {"active", "in_billing_retry", "expired"}, NEW tier \in Tiers,
           Send(from, to, status, tier),
           status = "in_billing_retry" => apple.stage = "active" /\ tier = apple.tier,
           to \in {"active", "retry"} => status # "expired",
           \A u \in Users : claim'[u] => claim[u] /\ apple.stage \in {"active", "retry"}
    PROVE  Follow'
<1> DEFINE note == [status |-> status, tier |-> tier]
<1>1. note \in Notes
  BY DEF Notes
<1>2. /\ notes' = Append(notes, note) /\ notes \in Seq(Notes)
      /\ apple' = [stage |-> to, tier |-> tier]
      /\ UNCHANGED <<log, job, row>>
      /\ outbox' = outbox \cup {Len(notes) + 1}
      /\ TypeOK
  BY DEF LogInv, TypeOK, Send
<1>9. ASSUME NEW u \in Users PROVE ~app'[u].clean
  <2>1. app[u] \in Requests
    BY DEF LogInv, TypeOK
  <2>2. app'[u] = [app[u] EXCEPT !.clean = FALSE]
    BY DEF Send
  <2> QED
    BY <2>1, <2>2 DEF Requests
<1>3. note.status = status /\ note.tier = tier
  OBVIOUS
<1> HIDE DEF note
<1>4. /\ Len(notes') = Len(notes) + 1 /\ Len(notes) \in Nat
      /\ \A n \in 1 .. Len(notes) : notes'[n] = notes[n]
      /\ notes'[Len(notes) + 1] = note /\ Last' = note
  BY <1>1, <1>2 DEF Last
<1>5. AppleOrder'
  <2>1. (apple.stage = "none" <=> Len(notes) = 0)'
    BY <1>2, <1>4
  <2>2. (Len(notes) > 0 => apple.tier = Last.tier)'
    BY <1>2, <1>3, <1>4
  <2>3. (apple.stage \in {"active", "retry"} => Last.status # "expired")'
    BY <1>2, <1>3, <1>4
  <2>4. ASSUME NEW n \in 1 .. Len(notes'), notes'[n].status = "in_billing_retry"
        PROVE  n > 1 /\ notes'[n].tier = notes'[n - 1].tier
    <3>1. CASE n \in 1 .. Len(notes)
      <4>1. n > 1 /\ notes[n].tier = notes[n - 1].tier
        BY <1>4, <2>4, <3>1 DEF Follow, AppleOrder
      <4>2. n - 1 \in 1 .. Len(notes)
        BY <1>4, <3>1, <4>1
      <4> QED
        BY <1>4, <3>1, <4>1, <4>2
    <3>2. CASE n = Len(notes) + 1
      <4>1. Len(notes) > 0 /\ tier = notes[Len(notes)].tier
        BY <1>3, <1>4, <2>4, <3>2 DEF Follow, AppleOrder, Last
      <4>2. Len(notes) \in 1 .. Len(notes) /\ n - 1 = Len(notes)
        BY <1>4, <3>2, <4>1
      <4> QED
        BY <1>3, <1>4, <3>2, <4>1, <4>2
    <3> QED
      BY <1>4, <3>1, <3>2
  <2> QED
    BY <2>1, <2>2, <2>3, <2>4 DEF AppleOrder
<1>6. DoneInOrder'
  <2>1. Done' = Done
    BY <1>2 DEF Done
  <2>2. 1 .. Len(notes) \subseteq 1 .. Len(notes')
        /\ (1 .. Len(notes')) \ outbox' \subseteq (1 .. Len(notes)) \ outbox
    BY <1>2, <1>4
  <2> QED
    BY <1>2, <2>1, <2>2 DEF Follow, DoneInOrder
<1>7. CleanReads'
  BY <1>9 DEF CleanReads
<1>8. ASSUME NEW u \in Users, claim'[u]
      PROVE  UpToDate(u)' /\ \A w \in Workers : WritesFor(w, u)'
  <2>1. PICK n \in 1 .. Len(notes) :
               /\ Done = 1 .. n /\ Shows(u, notes[n])
               /\ \A k \in n .. Len(notes) - 1 : notes[k].status # "expired"
    BY <1>8 DEF Follow, Followed, UpToDate
  <2>2. notes[Len(notes)].status # "expired"
    BY <1>8 DEF Follow, AppleOrder, Last
  <2>3. ASSUME NEW k \in n .. Len(notes') - 1 PROVE notes'[k].status # "expired"
    <3>1. k \in 1 .. Len(notes) /\ (k = Len(notes) \/ k \in n .. Len(notes) - 1)
      BY <1>4
    <3> QED
      BY <1>4, <2>1, <2>2, <3>1
  <2>4. n \in 1 .. Len(notes') /\ notes'[n] = notes[n] /\ Done' = Done
    BY <1>2, <1>4 DEF Done
  <2>5. UpToDate(u)'
    BY <1>2, <2>1, <2>3, <2>4 DEF UpToDate, Shows
  <2>6. ASSUME NEW w \in Workers PROVE WritesFor(w, u)'
    <3>1. job[w].pc # "idle" => notes'[job[w].note] = notes[job[w].note]
      BY <1>4 DEF LogInv, KnowsLog
    <3>2. WritesFor(w, u)
      BY <1>8 DEF Follow, Followed
    <3> QED
      BY <1>2, <2>4, <3>1, <3>2 DEF WritesFor
  <2> QED
    BY <2>5, <2>6
<1> QED
  BY <1>5, <1>6, <1>7, <1>8 DEF Follow, Followed

LEMMA AppleFollows ==
    ASSUME LogInv, Follow, Subscribe \/ Renew \/ FailToRenew \/ ToggleRenewal \/ End
    PROVE  Follow'
<1>1. apple.stage \in {"active", "retry"} => apple.tier \in Tiers
  BY DEF LogInv, AppleSells
<1>2. CASE Subscribe
  <2>1. PICK tier \in Tiers : Send({"none", "expired"}, "active", "active", tier)
    BY <1>2 DEF Subscribe
  <2>2. \A u \in Users : ~claim'[u]
    BY <1>2 DEF Subscribe
  <2> QED
    BY <2>1, <2>2, SendFollows
<1>3. CASE Renew
  <2>1. PICK tier \in Tiers : Send({"active", "retry"}, "active", "active", tier)
    BY <1>3 DEF Renew
  <2>2. apple.stage \in {"active", "retry"} /\ UNCHANGED claim
    BY <1>3, <2>1 DEF Renew, Send
  <2> QED
    BY <2>1, <2>2, SendFollows
<1>4. CASE FailToRenew
  <2>1. Send({"active"}, "retry", "in_billing_retry", apple.tier)
        /\ apple.stage = "active" /\ UNCHANGED claim
    BY <1>4 DEF FailToRenew, Send
  <2> QED
    BY <1>1, <2>1, SendFollows
<1>5. CASE ToggleRenewal
  <2>1. Send({"retry"}, "retry", "active", apple.tier)
        /\ apple.stage = "retry" /\ UNCHANGED claim
    BY <1>5 DEF ToggleRenewal, Send
  <2> QED
    BY <1>1, <2>1, SendFollows
<1>6. CASE End
  <2>1. Send({"active", "retry"}, "expired", "expired", apple.tier)
        /\ apple.stage \in {"active", "retry"} /\ UNCHANGED claim
    BY <1>6 DEF End, Send
  <2> QED
    BY <1>1, <2>1, SendFollows
<1> QED
  BY <1>2, <1>3, <1>4, <1>5, <1>6

(* A delivery's step that writes no row and nothing to the log.             *)
LEMMA WorkerFollows ==
    ASSUME LogInv, Follow, NEW w \in Workers, NEW j, ~Quiet,
           job' = [job EXCEPT ![w] = j], outbox \ outbox' \subseteq Done,
           UNCHANGED <<external, log, row, app, claim>>,
           j.pc # "idle" => 1 .. (j.note - 1) \subseteq Done,
           j.pc = "responding" => j.note \in Done,
           \A u \in Users :
              claim[u] /\ j.pc \in {"recording", "committing"} /\ j.note \notin Done =>
                 /\ j.user = {u} /\ SameSubscription(row[u], j.old)
                 /\ j.new = Outcome(notes[j.note], j.old)
    PROVE  Follow'
<1>1. \A v \in Workers : job'[v] = IF v = w THEN j ELSE job[v]
  BY DEF LogInv, TypeOK
<1>2. UNCHANGED <<notes, apple>> /\ Done' = Done
  BY DEF external, Done
<1>3. AppleOrder'
  BY <1>2 DEF Follow, AppleOrder, Last
<1>4. DoneInOrder'
  BY <1>1, <1>2 DEF Follow, DoneInOrder
<1>5. CleanReads'
  BY DEF Follow, CleanReads
<1>6. Followed'
  <2>1. ASSUME NEW u \in Users, claim[u] PROVE UpToDate(u)'
    BY <1>2, <2>1 DEF Follow, Followed, UpToDate, Shows
  <2>2. ASSUME NEW u \in Users, claim[u], NEW v \in Workers PROVE WritesFor(v, u)'
    <3>1. WritesFor(v, u)
      BY <2>2 DEF Follow, Followed
    <3> QED
      BY <1>1, <1>2, <2>2, <3>1 DEF WritesFor
  <2> QED
    BY <2>1, <2>2 DEF Followed
<1> QED
  BY <1>3, <1>4, <1>5, <1>6 DEF Follow

\* Whoever works on a notification is not at rest.
LEMMA BusyIsNotQuiet ==
    ASSUME NEW w \in Workers, job[w].pc # "idle"
    PROVE  ~Quiet
BY DEF Quiet, Idle

LEMMA RejectFollows ==
    ASSUME LogInv, Follow, NEW w \in Workers, job[w].pc # "idle", Reject(w)
    PROVE  Follow'
<1>1. Idle.pc = "idle"
  BY DEF Idle
<1> QED
  BY <1>1, BusyIsNotQuiet, WorkerFollows DEF Reject

LEMMA RespondFollows ==
    ASSUME LogInv, Follow, NEW w \in Workers, Respond(w)
    PROVE  Follow'
<1>1. Idle.pc = "idle"
  BY DEF Idle
<1>2. job[w].note \in Done /\ job[w].pc # "idle"
  BY DEF Follow, DoneInOrder, Respond
<1>3. outbox \ outbox' \subseteq Done
  BY <1>2 DEF Respond, Answer
<1> QED
  BY <1>1, <1>2, <1>3, BusyIsNotQuiet, WorkerFollows DEF Respond

(* Only the first of the unanswered notifications is received.              *)
LEMMA ReceiveFollows ==
    ASSUME LogInv, Follow, setting.inOrder, NEW w \in Workers, NEW n \in outbox,
           Receive(w, n)
    PROVE  Follow'
<1>1. /\ n \in 1 .. Len(notes) /\ n \in Ids /\ outbox # {}
      /\ outbox \subseteq 1 .. Len(notes)
  BY AppleAssumption DEF LogInv, TypeOK, Ids
<1>2. ~Quiet
  BY <1>1 DEF Quiet
<1>3. CASE log[n] # "absent" /\ Duplicate(n) /\ UNCHANGED job
  <2>1. job' = [job EXCEPT ![w] = job[w]]
    BY <1>3 DEF LogInv, TypeOK
  <2>2. outbox \ outbox' \subseteq Done
    BY <1>1, <1>3 DEF Duplicate, Answer, Done
  <2>3. /\ job[w].pc # "idle" => 1 .. (job[w].note - 1) \subseteq Done
        /\ job[w].pc = "responding" => job[w].note \in Done
    BY DEF Follow, DoneInOrder
  <2>4. \A u \in Users : claim[u] => WritesFor(w, u)
    BY DEF Follow, Followed
  <2>5. UNCHANGED <<external, log, row, app, claim>>
    BY DEF Receive
  <2> DEFINE j == job[w]
  <2>6. \A u \in Users :
           claim[u] /\ j.pc \in {"recording", "committing"} /\ j.note \notin Done =>
              /\ j.user = {u} /\ SameSubscription(row[u], j.old)
              /\ j.new = Outcome(notes[j.note], j.old)
    BY <2>4 DEF WritesFor
  <2> HIDE DEF j
  <2> QED
    BY <1>2, <2>1, <2>2, <2>3, <2>5, <2>6, WorkerFollows DEF j
<1>4. CASE job' = [job EXCEPT ![w] = [Idle EXCEPT !.pc = "finding", !.note = n]]
           /\ UNCHANGED outbox
  <2> DEFINE j == [Idle EXCEPT !.pc = "finding", !.note = n]
  <2>1. j.pc = "finding" /\ j.note = n
    BY DEF Idle
  <2>2. 1 .. (n - 1) \subseteq Done
    <3> SUFFICES ASSUME NEW k \in 1 .. (n - 1) PROVE k \in Done
      OBVIOUS
    <3>1. k \in 1 .. Len(notes) /\ k < n
      BY <1>1
    <3>2. \A m \in outbox : n <= m
      BY DEF Receive
    <3>3. k \notin outbox
      BY <1>1, <3>1, <3>2
    <3> QED
      BY <3>1, <3>3 DEF Follow, DoneInOrder
  <2>3. job' = [job EXCEPT ![w] = j] /\ UNCHANGED <<outbox, external, log, row, app, claim>>
    BY <1>4 DEF Receive
  <2> HIDE DEF j
  <2> QED
    BY <1>2, <2>1, <2>2, <2>3, WorkerFollows
<1> QED
  BY <1>3, <1>4 DEF Receive

(* The row found for a notification that is not done is the row of every    *)
(* account with a claim: the notification before it was no end.             *)
LEMMA FindFollows ==
    ASSUME LogInv, Follow, NEW w \in Workers, FindRow(w)
    PROVE  Follow'
<1> DEFINE outcome == Handled(w)
           j == [job[w] EXCEPT !.pc = "recording", !.user = Holders, !.old = Found,
                               !.new = outcome]
           m == job[w].note
<1>1. CASE Reject(w)
  BY <1>1, RejectFollows DEF FindRow
<1>2. CASE ~Reject(w)
  <2>1. /\ job' = [job EXCEPT ![w] = j] /\ Cardinality(Holders) <= 1
        /\ UNCHANGED <<enabled, external, outbox, log, row, app, claim, applied, crashes>>
    <3>1. Cardinality(Holders) \in Nat
      BY FS_Subset, FS_CardinalityType, AppleAssumption DEF Holders
    <3> QED
      BY <1>2, <3>1 DEF FindRow, Ambiguous
  <2>2. /\ TypeOK /\ job[w] \in Jobs /\ m \in 1 .. Len(notes) /\ job[w].pc = "finding"
        /\ Len(notes) \in Nat
    BY DEF LogInv, TypeOK, KnowsLog, FindRow
  <2>3. j.pc = "recording" /\ j.note = m /\ j.user = Holders /\ j.old = Found
        /\ j.new = outcome
    BY <2>2 DEF Jobs
  <2>4. 1 .. (m - 1) \subseteq Done
    BY <2>2 DEF Follow, DoneInOrder
  <2>5. ASSUME NEW u \in Users, claim[u], m \notin Done
        PROVE  /\ j.user = {u} /\ SameSubscription(row[u], j.old)
               /\ j.new = Outcome(notes[j.note], j.old)
    <3>1. PICK n \in 1 .. Len(notes) :
                 /\ Done = 1 .. n /\ Shows(u, notes[n])
                 /\ \A k \in n .. Len(notes) - 1 : notes[k].status # "expired"
      BY <2>5 DEF Follow, Followed, UpToDate
    <3>2. n \in n .. Len(notes) - 1
      BY <2>2, <2>5, <3>1
    <3>3. row[u].link = "apple"
      BY <3>1, <3>2 DEF Shows
    <3>4. Holders = {u} /\ Found = row[u]
      BY <2>1, <2>2, <3>3, OnlyHolder
    <3> QED
      BY <2>3, <3>4 DEF SameSubscription, Handled
  <2>6. ~Quiet
    BY <2>2, BusyIsNotQuiet
  <2> HIDE DEF j
  <2> QED
    BY <2>1, <2>3, <2>4, <2>5, <2>6, WorkerFollows
<1> QED
  BY <1>1, <1>2

LEMMA RecordFollows ==
    ASSUME LogInv, Follow, NEW w \in Workers, RecordEvent(w)
    PROVE  Follow'
<1> DEFINE j == [job[w] EXCEPT !.pc = "committing", !.inserted = TRUE]
<1>1. CASE Reject(w)
  BY <1>1, RejectFollows DEF RecordEvent
<1>2. CASE ~Reject(w)
  <2>1. /\ job' = [job EXCEPT ![w] = j]
        /\ UNCHANGED <<enabled, external, outbox, log, row, app, claim, applied, crashes>>
    BY <1>2 DEF RecordEvent
  <2>2. job[w] \in Jobs /\ job[w].pc = "recording"
    BY DEF LogInv, TypeOK, RecordEvent
  <2>3. /\ j.pc = "committing" /\ j.note = job[w].note /\ j.user = job[w].user
        /\ j.old = job[w].old /\ j.new = job[w].new
    BY <2>2 DEF Jobs
  <2>4. 1 .. (j.note - 1) \subseteq Done
    BY <2>2, <2>3 DEF Follow, DoneInOrder
  <2>5. \A u \in Users : claim[u] => WritesFor(w, u)
    BY DEF Follow, Followed
  <2> HIDE DEF j
  <2>6. \A u \in Users : claim[u] /\ j.note \notin Done =>
              /\ j.user = {u} /\ SameSubscription(row[u], j.old)
              /\ j.new = Outcome(notes[j.note], j.old)
    BY <2>2, <2>3, <2>5 DEF WritesFor
  <2>7. ~Quiet
    BY <2>2, BusyIsNotQuiet
  <2> QED
    BY <2>1, <2>3, <2>4, <2>6, <2>7, WorkerFollows
<1> QED
  BY <1>1, <1>2

(* The commit of the notification after the one a claimed row shows.        *)
LEMMA CommitFollows ==
    ASSUME LogInv, Follow, NEW w \in Workers, CommitEvent(w)
    PROVE  Follow'
<1> DEFINE j == job[w]
           m == job[w].note
           next == [Idle EXCEPT !.pc = "responding", !.note = m]
<1>1. CASE Reject(w)
  BY <1>1, RejectFollows DEF CommitEvent
<1>2. CASE ~Reject(w)
  <2>1. /\ TypeOK /\ j \in Jobs /\ m \in Ids /\ m \in 1 .. Len(notes) /\ Len(notes) \in Nat
        /\ j.pc = "committing" /\ log[m] = "absent"
    <3>1. TypeOK /\ KnowsLog(w)
      BY DEF LogInv
    <3>2. job[w] \in Jobs /\ notes \in Seq(Notes)
      BY <3>1 DEF TypeOK
    <3>3. job[w].pc = "committing"
      BY DEF CommitEvent
    <3>4. job[w].note \in 1 .. Len(notes)
      BY <3>1, <3>3 DEF KnowsLog
    <3> QED
      BY <1>2, <3>1, <3>2, <3>3, <3>4, CommitWrites
  <2>2. /\ job' = [job EXCEPT ![w] = next]
        /\ row' = [u \in Users |-> IF u \in j.user
                                   THEN Merge(row[u], j.old, j.new) ELSE row[u]]
        /\ UNCHANGED <<enabled, external, outbox, app, claim, crashes>>
    BY <1>2 DEF CommitEvent
  <2>3. Done' = Done \cup {m} /\ m \notin Done
    <3>1. /\ log \in [Ids -> {"absent", "unprocessed", "processed"}]
          /\ log' = [log EXCEPT ![m] = IF j.user # {} THEN "processed" ELSE "unprocessed"]
      BY <1>2, <2>1, CommitWrites DEF TypeOK
    <3>2. log'[m] # "absent" /\ \A n \in Ids \ {m} : log'[n] = log[n]
      BY <2>1, <3>1
    <3> QED
      BY <2>1, <3>2 DEF Done
  <2>4. next.pc = "responding" /\ next.note = m
    BY DEF Idle
  <2> HIDE DEF next
  <2>5. \A v \in Workers : job'[v] = IF v = w THEN next ELSE job[v]
    BY <2>1, <2>2 DEF TypeOK
  <2>6. UNCHANGED <<notes, apple>>
    BY <2>2 DEF external
  <2>7. 1 .. (m - 1) \subseteq Done
    BY <2>1 DEF Follow, DoneInOrder
  <2>8. AppleOrder'
    BY <2>6 DEF Follow, AppleOrder, Last
  <2>9. DoneInOrder'
    <3>1. DoneInOrder
      BY DEF Follow
    <3>2. (Done \subseteq 1 .. Len(notes))' /\ ((1 .. Len(notes)) \ outbox \subseteq Done)'
      BY <2>1, <2>2, <2>3, <2>6, <3>1 DEF DoneInOrder
    <3>3. ASSUME NEW v \in Workers
          PROVE  /\ job'[v].pc # "idle" => 1 .. (job'[v].note - 1) \subseteq Done'
                 /\ job'[v].pc = "responding" => job'[v].note \in Done'
      BY <2>3, <2>4, <2>5, <2>7, <3>1 DEF DoneInOrder
    <3> QED
      BY <3>2, <3>3 DEF DoneInOrder
  <2>10. CleanReads'
    <3>1. ~Quiet
      BY <2>1, BusyIsNotQuiet
    <3>2. \A u \in Users : ~app'[u].clean
      BY <2>2, <3>1 DEF Follow, CleanReads
    <3> QED
      BY <3>2 DEF CleanReads
  <2>11. ASSUME NEW u \in Users, claim'[u]
         PROVE  UpToDate(u)' /\ \A v \in Workers : WritesFor(v, u)'
    <3>1. PICK n \in 1 .. Len(notes) :
                 /\ Done = 1 .. n /\ Shows(u, notes[n])
                 /\ \A k \in n .. Len(notes) - 1 : notes[k].status # "expired"
      BY <2>2, <2>11 DEF Follow, Followed, UpToDate
    <3>2. m = n + 1 /\ n \in n .. Len(notes) - 1 /\ Done' = 1 .. m
      <4>1. m > n
        BY <2>1, <2>3, <3>1
      <4>2. m - 1 \in 1 .. (m - 1)
        BY <2>1, <3>1, <4>1
      <4>3. m - 1 \in 1 .. n
        BY <2>7, <3>1, <4>2
      <4>4. m = n + 1
        BY <2>1, <3>1, <4>1, <4>3
      <4>5. 1 .. (n + 1) = (1 .. n) \cup {n + 1}
        BY <3>1
      <4> QED
        BY <2>1, <2>3, <3>1, <4>4, <4>5
    <3>3. /\ j.user = {u} /\ SameSubscription(row[u], j.old)
          /\ j.new = Outcome(notes[m], j.old)
      <4>1. WritesFor(w, u)
        BY <2>2, <2>11 DEF Follow, Followed
      <4> QED
        BY <2>1, <2>3, <4>1 DEF WritesFor
    <3>4. row[u].link = "apple" /\ row[u].tier = notes[n].tier
      BY <3>1, <3>2 DEF Shows
    <3>5. notes[m] \in Notes /\ j.old \in Rows /\ j.new \in Rows /\ row[u] \in Rows
      BY <2>1 DEF TypeOK, Jobs
    <3>6. notes[m].status = "in_billing_retry" => notes[m].tier = notes[n].tier
      <4>1. notes[m].status = "in_billing_retry" => notes[m].tier = notes[m - 1].tier
        BY <2>1 DEF Follow, AppleOrder
      <4>2. m - 1 = n
        BY <3>1, <3>2
      <4> QED
        BY <4>1, <4>2
    <3>7. j.old.link = "apple"
          /\ (notes[m].status = "in_billing_retry" => j.old.tier = notes[m].tier)
      BY <3>3, <3>4, <3>6 DEF SameSubscription
    <3>8. row'[u] = Merge(row[u], j.old, j.new)
      BY <2>2, <3>3
    <3>9. SameSubscription(row'[u], j.new)
      BY <3>3, <3>5, <3>8, MergedColumns
    <3>10. ASSUME NEW note \in Notes, note = notes[m] PROVE Shows(u, note)'
      BY <3>3, <3>5, <3>7, <3>9, <3>10, OutcomeShows DEF Shows, SameSubscription
    <3>11. UpToDate(u)'
      <4>1. \A k \in (n + 1) .. Len(notes) - 1 : notes[k].status # "expired"
        BY <3>1
      <4>2. n + 1 \in 1 .. Len(notes) /\ Done' = 1 .. (n + 1)
        BY <2>1, <3>1, <3>2
      <4>3. PICK note \in Notes : note = notes[n + 1]
        BY <3>2, <3>5
      <4>4. Shows(u, note)'
        BY <3>2, <3>10, <4>3
      <4>5. Shows(u, notes[n + 1])'
        BY <2>6, <4>3, <4>4 DEF Shows
      <4> QED
        BY <2>6, <4>1, <4>2, <4>5 DEF UpToDate
    <3>12. ASSUME NEW v \in Workers PROVE WritesFor(v, u)'
      <4>1. CASE v = w
        BY <2>4, <2>5, <4>1 DEF WritesFor
      <4>2. CASE v # w
        <5>1. job'[v] = job[v]
          BY <2>5, <4>2
        <5>2. job[v].pc # "idle" =>
                 job[v].note \in 1 .. Len(notes) /\ 1 .. (job[v].note - 1) \subseteq Done
          BY DEF LogInv, KnowsLog, Follow, DoneInOrder
        <5>3. ASSUME job[v].pc # "idle" PROVE job[v].note \in Done'
          <6>1. job[v].note \in 1 .. Len(notes) /\ 1 .. (job[v].note - 1) \subseteq 1 .. n
            BY <3>1, <5>2, <5>3
          <6>2. \A k \in 1 .. Len(notes) : 1 .. (k - 1) \subseteq 1 .. n => k \in 1 .. (n + 1)
            <7> TAKE k \in 1 .. Len(notes)
            <7>1. CASE k = 1
              BY <3>1, <7>1
            <7>2. CASE k # 1
              <8>1. k - 1 \in 1 .. (k - 1)
                BY <7>2
              <8> QED
                BY <3>1, <8>1
            <7> QED
              BY <7>1, <7>2
          <6> QED
            BY <3>2, <6>1, <6>2
        <5> QED
          BY <5>1, <5>3 DEF WritesFor
      <4> QED
        BY <4>1, <4>2
    <3> QED
      BY <3>11, <3>12
  <2> QED
    BY <2>8, <2>9, <2>10, <2>11 DEF Follow, Followed
<1> QED
  BY <1>1, <1>2

(* A step that leaves Apple, the log and the deliveries alone keeps the     *)
(* order, and a claim that is as before over a row that shows the same.     *)
LEMMA ClaimsKeep ==
    ASSUME LogInv, Follow, UNCHANGED <<apple, notes, outbox, log, job>>, CleanReads',
           NEW S \in SUBSET Users,
           \A u \in S : claim'[u] => claim[u] /\ SameSubscription(row'[u], row[u]),
           \A u \in Users \ S : claim'[u] => Quiet /\ Len(notes) > 0 /\ Shows(u, Last)'
    PROVE  Follow'
<1>1. Done' = Done /\ Last' = Last
  BY DEF Done, Last
<1>2. AppleOrder'
  BY <1>1 DEF Follow, AppleOrder
<1>3. DoneInOrder'
  BY <1>1 DEF Follow, DoneInOrder
<1>4. ASSUME NEW u \in S, claim'[u]
      PROVE  UpToDate(u)' /\ \A w \in Workers : WritesFor(w, u)'
  <2>1. /\ SameSubscription(row'[u], row[u]) /\ UpToDate(u)
        /\ \A w \in Workers : WritesFor(w, u)
    BY <1>4 DEF Follow, Followed
  <2>2. UpToDate(u)'
    BY <1>1, <2>1 DEF UpToDate, Shows, SameSubscription
  <2>3. \A w \in Workers : WritesFor(w, u)'
    BY <1>1, <2>1 DEF WritesFor, SameSubscription
  <2> QED
    BY <2>2, <2>3
<1>5. ASSUME NEW u \in Users \ S, claim'[u]
      PROVE  UpToDate(u)' /\ \A w \in Workers : WritesFor(w, u)'
  <2>1. Quiet /\ Len(notes) > 0 /\ Shows(u, Last)' /\ Len(notes) \in Nat
    BY <1>5 DEF LogInv, TypeOK
  <2>2. Done = 1 .. Len(notes)
    BY <2>1 DEF Quiet, Follow, DoneInOrder
  <2>3. Len(notes) \in 1 .. Len(notes)
        /\ Shows(u, notes[Len(notes)])'
        /\ Len(notes) .. (Len(notes) - 1) = {}
    BY <2>1 DEF Last
  <2>4. UpToDate(u)'
    BY <1>1, <2>2, <2>3 DEF UpToDate
  <2>5. \A w \in Workers : job'[w].pc = "idle"
    BY <2>1 DEF Quiet, Idle
  <2> QED
    BY <2>4, <2>5 DEF WritesFor
<1> QED
  BY <1>2, <1>3, <1>4, <1>5 DEF Follow, Followed

LEMMA VerifyReadFollows ==
    ASSUME LogInv, Follow, NEW u \in Users, VerifyRead(u)
    PROVE  Follow'
<1>1. UNCHANGED <<apple, notes, outbox, log, job, row, claim>> /\ apple.stage # "none"
  BY DEF VerifyRead, external
<1>2. Last' = Last /\ (Quiet' <=> Quiet)
  BY <1>1 DEF Last, Quiet
<1>3. app'[u] = [pc |-> "read", tier |-> apple.tier, old |-> row[u],
                 clean |-> Quiet /\ Last.status = "active"]
      /\ \A v \in Users \ {u} : app'[v] = app[v]
  BY DEF VerifyRead, LogInv, TypeOK
<1>4. Len(notes) > 0 /\ apple.tier = Last.tier
  BY <1>1 DEF Follow, AppleOrder, LogInv, TypeOK
<1>5. CleanReads'
  <2>1. ASSUME app'[u].clean
        PROVE  /\ Quiet /\ Last.status = "active" /\ app'[u].tier = Last.tier
               /\ SameSubscription(row[u], app'[u].old)
    <3> DEFINE c == Quiet /\ Last.status = "active"
    <3>3. app'[u] = [pc |-> "read", tier |-> apple.tier, old |-> row[u], clean |-> c]
      BY <1>3
    <3> HIDE DEF c
    <3>4. app'[u].clean = c
      BY <3>3
    <3>5. c
      BY <2>1, <3>4, Zenon
    <3>1. Quiet /\ Last.status = "active"
      BY <3>5 DEF c
    <3>2. app'[u].tier = apple.tier /\ app'[u].old = row[u]
      BY <1>3
    <3> QED
      BY <1>4, <2>1, <3>1, <3>2 DEF SameSubscription
  <2>2. \A v \in Users \ {u} : app'[v] = app[v]
    BY <1>3
  <2>3. CleanReads
    BY DEF Follow
  <2> QED
    BY <1>1, <1>2, <1>4, <2>1, <2>2, <2>3 DEF CleanReads
<1> QED
  BY <1>1, <1>5, ClaimsKeep DEF SameSubscription

(* The verification writes the tier, the status and the link that Last      *)
(* tells of, if it was clean.                                               *)
LEMMA VerifyCommitFollows ==
    ASSUME LogInv, Follow, NEW u \in Users, VerifyCommit(u)
    PROVE  Follow'
<1> DEFINE new == [app[u].old EXCEPT !.tier = app[u].tier, !.status = "active",
                                     !.link = "apple"]
<1>1. UNCHANGED <<apple, notes, outbox, log, job>>
  BY DEF VerifyCommit, external
<1>2. /\ app[u] \in Requests /\ row[u] \in Rows /\ app[u].old \in Rows
      /\ app[u].pc = "read" /\ TypeOK
  BY DEF LogInv, TypeOK, Requests, VerifyCommit
<1>3. \A v \in Users : app'[v] = IF v = u THEN Waiting ELSE app[v]
  BY DEF VerifyCommit, LogInv, TypeOK
<1>4. \A v \in Users \ {u} : row'[v] = row[v] /\ (claim'[v] <=> claim[v])
  <2>1. row \in [Users -> Rows] /\ claim \in [Users -> BOOLEAN]
    BY <1>2 DEF TypeOK
  <2> QED
    BY <2>1 DEF VerifyCommit
<1>5. CleanReads'
  <2>1. Last' = Last /\ (Quiet' <=> Quiet) /\ ~Waiting.clean
    BY <1>1 DEF Last, Quiet, Waiting
  <2> QED
    BY <1>1, <1>3, <1>4, <2>1 DEF Follow, CleanReads
<1>6. CASE row[u] = Absent
  <2>1. UNCHANGED <<row, claim>>
    BY <1>6 DEF VerifyCommit
  <2> QED
    BY <1>1, <1>5, <2>1, ClaimsKeep DEF SameSubscription
<1>7. CASE row[u] # Absent
  <2>1. row'[u] = Merge(row[u], app[u].old, new) /\ claim'[u] = app[u].clean
    BY <1>2, <1>7 DEF VerifyCommit, TypeOK
  <2>2. new \in Rows /\ new.tier = app[u].tier /\ new.status = "active" /\ new.link = "apple"
    BY <1>2 DEF Rows, Requests
  <2> HIDE DEF new
  <2>3. ASSUME claim'[u]
        PROVE  Quiet /\ Len(notes) > 0 /\ Shows(u, Last)'
    <3>1. /\ Quiet /\ Len(notes) > 0 /\ Last.status = "active"
          /\ app[u].tier = Last.tier
          /\ SameSubscription(row[u], app[u].old)
      BY <1>7, <2>1, <2>3 DEF Follow, CleanReads
    <3>2. SameSubscription(row'[u], new)
      BY <1>2, <2>1, <2>2, <3>1, MergedColumns
    <3>3. Last' = Last
      BY <1>1 DEF Last
    <3> QED
      BY <2>2, <3>1, <3>2, <3>3 DEF SameSubscription, Shows
  <2> QED
    BY <1>1, <1>4, <1>5, <2>3, ClaimsKeep DEF SameSubscription
<1> QED
  BY <1>6, <1>7

LEMMA AccountsFollow ==
    ASSUME LogInv, Follow, NEW u \in Users,
           NewPeriod(u) \/ SecondPeriod(u) \/ DeleteAccount(u)
    PROVE  Follow'
<1>1. UNCHANGED <<apple, notes, outbox, log, job, app>> /\ TypeOK
  BY DEF NewPeriod, SecondPeriod, DeleteAccount, external, LogInv
<1>2. Last' = Last /\ (Quiet' <=> Quiet)
  BY <1>1 DEF Last, Quiet
<1>3. row \in [Users -> Rows] /\ claim \in [Users -> BOOLEAN]
  BY <1>1 DEF TypeOK
<1>4. CASE NewPeriod(u) \/ SecondPeriod(u)
  <2>1. UNCHANGED claim /\ row[u] # Absent
    BY <1>4 DEF NewPeriod, SecondPeriod, Absent
  <2>2. \A v \in Users : SameSubscription(row'[v], row[v]) /\ (v # u => row'[v] = row[v])
    <3>1. PICK new \in {[row[u] EXCEPT !.limit = row[u].tier], [row[u] EXCEPT !.twice = TRUE]} :
             row' = [row EXCEPT ![u] = new]
      BY <1>3, <1>4 DEF NewPeriod, SecondPeriod
    <3>2. SameSubscription(new, row[u])
      BY <1>3, <3>1 DEF SameSubscription, Rows
    <3> QED
      BY <1>3, <3>1, <3>2 DEF SameSubscription
  <2>3. CleanReads'
    BY <1>1, <1>2, <2>1, <2>2 DEF Follow, CleanReads, SameSubscription
  <2> QED
    BY <1>1, <2>1, <2>2, <2>3, ClaimsKeep
<1>5. CASE DeleteAccount(u)
  <2>1. /\ row'[u] = Absent /\ ~claim'[u]
        /\ \A v \in Users \ {u} : row'[v] = row[v] /\ (claim'[v] <=> claim[v])
    BY <1>3, <1>5 DEF DeleteAccount
  <2>2. CleanReads'
    BY <1>1, <1>2, <2>1 DEF Follow, CleanReads
  <2> QED
    BY <1>1, <2>1, <2>2, ClaimsKeep DEF SameSubscription
<1> QED
  BY <1>4, <1>5

LEMMA ProcessFollows ==
    ASSUME LogInv, Follow, SwitchOn \/ Crash \/ UNCHANGED vars
    PROVE  Follow'
<1>1. CASE SwitchOn \/ UNCHANGED vars
  <2>1. UNCHANGED <<apple, notes, outbox, log, job, app, row, claim>>
    BY <1>1 DEF SwitchOn, external, vars
  <2>2. Last' = Last /\ (Quiet' <=> Quiet)
    BY <2>1 DEF Last, Quiet
  <2>3. CleanReads'
    BY <2>1, <2>2 DEF Follow, CleanReads
  <2> QED
    BY <2>1, <2>3, ClaimsKeep DEF SameSubscription
<1>2. CASE Crash
  <2>1. /\ UNCHANGED <<apple, notes, outbox, log, row, claim>>
        /\ \A w \in Workers : job'[w].pc = "idle"
        /\ \A u \in Users : ~app'[u].clean
    BY <1>2 DEF Crash, external, Idle, Waiting
  <2>2. Last' = Last /\ Done' = Done
    BY <2>1 DEF Last, Done
  <2>3. AppleOrder'
    BY <2>1, <2>2 DEF Follow, AppleOrder
  <2>4. DoneInOrder'
    BY <2>1, <2>2 DEF Follow, DoneInOrder
  <2>5. CleanReads'
    BY <2>1 DEF CleanReads
  <2>6. Followed'
    BY <2>1, <2>2 DEF Follow, Followed, UpToDate, Shows, WritesFor
  <2> QED
    BY <2>3, <2>4, <2>5, <2>6 DEF Follow
<1> QED
  BY <1>1, <1>2

LEMMA FollowInit == Init => FollowInv
<1> SUFFICES ASSUME Init PROVE FollowInv
  OBVIOUS
<1>1. LogInv /\ Len(notes) = 0 /\ Done = {}
  BY LogInit DEF Init, Done
<1>2. \A u \in Users : ~claim[u] /\ ~app[u].clean
  BY DEF Init, Waiting
<1>3. \A w \in Workers : job[w].pc = "idle"
  BY DEF Init, Idle
<1>4. AppleOrder
  BY <1>1 DEF Init, AppleOrder
<1>5. DoneInOrder
  BY <1>1, <1>3 DEF DoneInOrder
<1> QED
  BY <1>1, <1>2, <1>4, <1>5 DEF FollowInv, Follow, CleanReads, Followed

LEMMA FollowNext == FollowInv /\ [Next]_vars => FollowInv'
<1> SUFFICES ASSUME FollowInv, [Next]_vars PROVE FollowInv'
  OBVIOUS
<1>1. LogInv /\ LogInv' /\ UNCHANGED setting
  <2>1. UNCHANGED setting
    BY DEF Next, vars, external, Deliver, Subscribe, Renew, FailToRenew, ToggleRenewal, End,
           Send, Receive, FindRow, RecordEvent, CommitEvent, Reject, Respond, VerifyRead,
           VerifyCommit, NewPeriod, SecondPeriod, DeleteAccount, SwitchOn, Crash
  <2> QED
    BY <2>1, LogNext DEF FollowInv
<1>2. SUFFICES ASSUME setting.inOrder PROVE Follow'
  BY <1>1 DEF FollowInv
<1>3. Follow
  BY <1>2 DEF FollowInv
<1>4. CASE Subscribe \/ Renew \/ FailToRenew \/ ToggleRenewal \/ End
  BY <1>1, <1>3, <1>4, AppleFollows
<1>5. ASSUME NEW w \in Workers, Deliver(w) PROVE Follow'
  BY <1>1, <1>2, <1>3, <1>5, ReceiveFollows, FindFollows, RecordFollows, CommitFollows,
     RespondFollows DEF Deliver
<1>6. ASSUME NEW u \in Users,
             VerifyRead(u) \/ VerifyCommit(u) \/ NewPeriod(u) \/ SecondPeriod(u)
             \/ DeleteAccount(u)
      PROVE  Follow'
  BY <1>1, <1>3, <1>6, VerifyReadFollows, VerifyCommitFollows, AccountsFollow
<1>7. CASE SwitchOn \/ Crash \/ UNCHANGED vars
  BY <1>1, <1>3, <1>7, ProcessFollows
<1> QED
  BY <1>4, <1>5, <1>6, <1>7 DEF Next

(* When notifications come in order, an account whose purchase was verified *)
(* shows what the last one said as soon as all are answered, whatever was   *)
(* delivered twice, broke off or overlapped, and whoever else verified the  *)
(* same transaction (webhooks.py:141-164, subscription.py:181-235).         *)
THEOREM RowFollowsApple == Spec => []FollowsApple
<1>1. FollowInv => FollowsApple
  <2> SUFFICES ASSUME FollowInv, setting.inOrder, Quiet, NEW u \in Users, claim[u]
               PROVE  Shows(u, Last)
    BY DEF FollowsApple
  <2>1. DoneInOrder /\ UpToDate(u) /\ Len(notes) \in Nat
    BY DEF FollowInv, Follow, Followed, LogInv, TypeOK
  <2>2. PICK n \in 1 .. Len(notes) : Done = 1 .. n /\ Shows(u, notes[n])
    BY <2>1 DEF UpToDate
  <2>3. 1 .. Len(notes) \subseteq 1 .. n
    BY <2>1, <2>2 DEF DoneInOrder, Quiet
  <2>4. n = Len(notes)
    <3>1. Len(notes) \in 1 .. Len(notes)
      BY <2>1, <2>2
    <3> QED
      BY <2>1, <2>2, <2>3, <3>1
  <2> QED
    BY <2>2, <2>4 DEF Last
<1> QED
  BY <1>1, FollowInit, FollowNext, PTL DEF Spec
=============================================================================
