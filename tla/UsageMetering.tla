---------------------------- MODULE UsageMetering ----------------------------
(***************************************************************************)
(* The usage of ONE user, as the translate and usage handlers read and     *)
(* write it: POST /v1/translate and GET /v1/usage of the public API        *)
(* (public.py), POST /api/v1/translate and GET /api/v1/subscription of the *)
(* web client (translate.py, subscription.py), the subscription, period    *)
(* and credit rows (services/subscription.py), the Stripe meter            *)
(* (stripe_b2b.py) and the quota alerts (usage_alerts.py).                 *)
(*                                                                         *)
(* One action is one stretch of a handler between two awaits at which      *)
(* another transaction's commit can become visible.  The database is       *)
(* PostgreSQL at READ COMMITTED: a SELECT sees committed rows and the      *)
(* transaction's own; an UPDATE or a conflicting INSERT waits for the      *)
(* transaction that wrote the row.  Statements are one action when nothing *)
(* another transaction commits between them could change what they do.     *)
(***************************************************************************)
EXTENDS Integers

CONSTANTS
    Requests,        \* the requests of the user, each made once
    Keys,            \* the user's API keys
    Jwt,             \* the lane of requests that carry an access token
    Lane,            \* Lane[r]: the API key of r, or Jwt
    Chars,           \* Chars[r]: len(request.text)
    ConsumerLimits,  \* period_limit of the consumer tiers
    B2BLimits,       \* period_limit of the B2B tiers
    InitialCredits,  \* credits bought before
    LastMonth        \* bound on the clock

ASSUME LaneAssumption ==
    /\ Jwt \notin Keys
    /\ Lane \in [Requests -> Keys \cup {Jwt}]
ASSUME QuantityAssumption ==
    /\ Chars \in [Requests -> Nat \ {0}]
    /\ ConsumerLimits \subseteq Nat \ {0}
    /\ B2BLimits \subseteq Nat \ {0}
    /\ InitialCredits \in Nat
    /\ LastMonth \in Nat \ {0}

Plans == [consumer : ConsumerLimits, b2b : B2BLimits]
Months == 1 .. LastMonth
Thresholds == {80, 100}
RowIds == Requests \X Months     \* a period row: who inserted it, its month

VARIABLES
    month,        \* the wall clock's calendar month
    pc,           \* pc[r]: where request r is
    sub,          \* is the CONSUMER subscription row committed?
    subInserted,  \* requests with an uncommitted INSERT of that row
    plan,         \* plan[p]: period_limit of the tier of product p
    committed,    \* committed usage_periods rows
    pending,      \* inserted, not yet committed usage_periods rows
    row,          \* the columns of each usage_periods row
    credits,      \* credit_balances.balance (0: no row)
    txn,          \* txn[r]: what r read and is about to write
    recorded,     \* recorded[r]: month r was committed to, 0 if none
    spent,        \* spent[m]: credit_transactions of type "usage" in month m
    waived,       \* waived[m]: overflow neither in the row nor in the log
    metered,      \* requests whose meter event Stripe accepted
    emails        \* emails[m][t]: alert e-mails for month m, threshold t

ledger == <<recorded, spent, waived, credits>>
vars == <<month, pc, sub, subInserted, plan, committed, pending, row, txn,
          ledger, metered, emails>>

InTransaction == {"inserting", "resolved", "translating", "translated",
                  "recording", "overflow", "crediting", "flushed", "closing"}
AfterCommit   == {"committed", "metered", "alerting", "flagging"}
Terminal      == {"ok", "refused", "failed", "error", "crashed"}

NoTxn(r) == [id |-> <<r, 1>>, old |-> 0, new |-> 0, over |-> 0,
             balance |-> 0, alerts |-> {}]
NewPeriod == [used |-> 0, limit |-> plan.consumer, alerts |-> {}]

Init ==
    /\ month = 1
    /\ pc = [r \in Requests |-> "idle"]
    /\ sub \in BOOLEAN
    /\ subInserted = {}
    /\ plan \in Plans
    /\ committed = {}
    /\ pending = {}
    /\ row = [id \in RowIds |-> [used |-> 0, limit |-> 0, alerts |-> {}]]
    /\ credits = InitialCredits
    /\ txn = [r \in Requests |-> NoTxn(r)]
    /\ recorded = [r \in Requests |-> 0]
    /\ spent = [m \in Months |-> 0]
    /\ waived = [m \in Months |-> 0]
    /\ metered = {}
    /\ emails = [m \in Months |-> [t \in Thresholds |-> 0]]
-----------------------------------------------------------------------------
(* What a transaction sees and waits for. *)

ByKey(r) == Lane[r] \in Keys

\* SELECT ... WHERE period_start <= now AND period_end > now.
Visible(r) == {id \in committed \cup pending :
                  id[2] = month /\ (id \in committed \/ id[1] = r)}

\* scalar_one_or_none() raises MultipleResultsFound.
Ambiguous(r) == \E a, b \in Visible(r) : a # b

\* Mutation: the transaction of the authentication is committed at once.
KeyLockedBriefly(r) == ByKey(r) /\ \E q \in Requests :
                    q # r /\ Lane[q] = Lane[r] /\ pc[q] \in {"inserting", "resolved"}

\* last_used_at of the key was flushed by another transaction.
KeyLocked(r) == ByKey(r) /\ \E q \in Requests :
                    q # r /\ Lane[q] = Lane[r] /\ pc[q] \in InTransaction

\* Another transaction has flushed a changed characters_used of the row (by
\* the autoflush before the SELECT of the balance, or at the end).
RowLocked(r, id) == \E q \in Requests :
                       /\ q # r
                       /\ pc[q] \in {"crediting", "flushed"}
                       /\ txn[q].id = id
                       /\ txn[q].new # txn[q].old

\* Mutation: what is left of the balance is drawn on.
DrawsAnyBalance(r) == txn[r].over > 0 /\ txn[r].balance > 0

\* Only a balance that covers the whole overflow is drawn on.
Draws(r) == txn[r].over > 0 /\ txn[r].balance >= txn[r].over

CreditsLocked(r) == \E q \in Requests : q # r /\ pc[q] = "flushed" /\ Draws(q)

Goto(r, label) == pc' = [pc EXCEPT ![r] = label]

\* Mutation: the exception is not rolled back.
AbortWithoutRollback(r, outcome) ==
    /\ Goto(r, outcome)
    /\ txn' = [txn EXCEPT ![r] = NoTxn(r)]
    /\ UNCHANGED <<month, sub, subInserted, pending, plan, committed, row, ledger,
                   metered, emails>>

\* An exception leaves the handler: get_db rolls the transaction back.
Abort(r, outcome) ==
    /\ Goto(r, outcome)
    /\ subInserted' = subInserted \ {r}
    /\ pending' = {id \in pending : id[1] # r}
    /\ txn' = [txn EXCEPT ![r] = NoTxn(r)]
    /\ UNCHANGED <<month, sub, plan, committed, row, ledger, metered, emails>>

\* get_or_create_usage_period returns row id.
UsePeriod(r, id) ==
    \/ Visible(r) = {id} /\ UNCHANGED <<pending, row>>
    \/ /\ Visible(r) = {}
       /\ id = <<r, month>>
       /\ pending' = pending \cup {id}
       /\ row' = [row EXCEPT ![id] = NewPeriod]

Period(r, id) == IF Visible(r) = {} THEN NewPeriod ELSE row[id]

Left(period) == period.limit - period.used

\* Mutation: off by one.
CanTranslateAtLimit(period) == Left(period) >= 0 \/ credits > 0

CanTranslate(period) == Left(period) > 0 \/ credits > 0
-----------------------------------------------------------------------------
(* Authentication and the checks before the translation. *)

\* A request by key writes last_used_at and keeps the row lock of its key.
\* The SELECT of the CONSUMER subscription decides whether it is inserted.
Start(r) ==
    /\ pc[r] = "idle"
    /\ ~KeyLocked(r)
    /\ Goto(r, IF sub THEN "resolved" ELSE "inserting")
    /\ UNCHANGED <<month, sub, subInserted, plan, committed, pending, row, txn,
                   ledger, metered, emails>>

\* The INSERT waits for another uncommitted INSERT of the same (user,
\* product); once that one is committed it fails on the unique index.
InsertSubscription(r) ==
    /\ pc[r] = "inserting"
    /\ subInserted = {}
    /\ IF sub THEN Abort(r, "error")
       ELSE /\ Goto(r, "resolved")
            /\ subInserted' = {r}
            /\ UNCHANGED <<month, sub, plan, committed, pending, row, txn,
                           ledger, metered, emails>>

\* The web client's translate handler does not look at the usage first.
SkipUsageCheck(r) ==
    /\ pc[r] = "resolved"
    /\ ~ByKey(r)
    /\ Goto(r, "translating")
    /\ UNCHANGED <<month, sub, subInserted, plan, committed, pending, row, txn,
                   ledger, metered, emails>>

\* get_usage_status before a translation: 429 when nothing is left.
CheckUsage(r) ==
    /\ pc[r] = "resolved"
    /\ ByKey(r)
    /\ \/ Ambiguous(r) /\ Abort(r, "error")
       \/ \E id \in RowIds :
            IF ~CanTranslate(Period(r, id))
            THEN Visible(r) = {id} /\ Abort(r, "refused")
            ELSE /\ UsePeriod(r, id)
                 /\ Goto(r, "translating")
                 /\ UNCHANGED <<month, sub, subInserted, plan, committed, txn,
                                ledger, metered, emails>>

\* The same for a request that only shows the usage.
ReadUsage(r) ==
    /\ pc[r] = "resolved"
    /\ \/ Ambiguous(r) /\ Abort(r, "error")
       \/ /\ \E id \in RowIds : UsePeriod(r, id)
          /\ Goto(r, "closing")
          /\ UNCHANGED <<month, sub, subInserted, plan, committed, txn, ledger,
                         metered, emails>>

\* Everything a transaction inserted becomes visible.
CommitInserts(r) ==
    /\ committed' = committed \cup {id \in pending : id[1] = r}
    /\ pending' = {id \in pending : id[1] # r}
    /\ sub' = (sub \/ r \in subInserted)
    /\ subInserted' = subInserted \ {r}

CloseUsageRead(r) ==
    /\ pc[r] = "closing"
    /\ Goto(r, "ok")
    /\ CommitInserts(r)
    /\ UNCHANGED <<month, plan, row, txn, ledger, metered, emails>>

TranslateSucceeds(r) ==
    /\ pc[r] = "translating"
    /\ Goto(r, "translated")
    /\ UNCHANGED <<month, sub, subInserted, plan, committed, pending, row, txn,
                   ledger, metered, emails>>

TranslateFails(r) == pc[r] = "translating" /\ Abort(r, "failed")
-----------------------------------------------------------------------------
(* record_usage and the commit. *)

\* The allowance is read; the new characters_used is computed from it.
ReadAllowance(r) ==
    /\ pc[r] = "translated"
    /\ \/ Ambiguous(r) /\ Abort(r, "error")
       \/ \E id \in RowIds :
            LET period == Period(r, id)
                left   == Left(period)
                fits   == Chars[r] <= left
            IN  /\ UsePeriod(r, id)
                /\ Goto(r, IF fits THEN "recording" ELSE "overflow")
                /\ txn' = [txn EXCEPT ![r] =
                     [@ EXCEPT !.id = id, !.old = period.used,
                               !.new  = IF fits THEN period.used + Chars[r]
                                                ELSE period.limit,
                               !.over = IF fits THEN 0 ELSE Chars[r] - left]]
                /\ UNCHANGED <<month, sub, subInserted, plan, committed,
                               ledger, metered, emails>>

\* The SELECT of the balance flushes a changed characters_used first, which
\* takes the lock of the period row until the commit.
ReadCredits(r) ==
    /\ pc[r] = "overflow"
    /\ txn[r].new # txn[r].old => ~RowLocked(r, txn[r].id)
    /\ Goto(r, "crediting")
    /\ txn' = [txn EXCEPT ![r].balance = credits]
    /\ UNCHANGED <<month, sub, subInserted, plan, committed, pending, row,
                   ledger, metered, emails>>

\* The flush, then the get_usage_status that record_usage returns: it may
\* insert the row of a month that has just begun, or find two rows.
FlushUsage(r) ==
    /\ pc[r] \in {"recording", "crediting"}
    /\ pc[r] = "recording" => ~RowLocked(r, txn[r].id)
    /\ Draws(r) => ~CreditsLocked(r)
    /\ \/ Ambiguous(r) /\ Abort(r, "error")
       \/ /\ \E id \in RowIds : UsePeriod(r, id)
          /\ Goto(r, "flushed")
          /\ UNCHANGED <<month, sub, subInserted, plan, committed, txn, ledger,
                         metered, emails>>

CommitUsage(r) ==
    LET m == txn[r].id[2]
        over == txn[r].over
    IN  /\ pc[r] = "flushed"
        /\ Goto(r, IF ByKey(r) THEN "committed" ELSE "ok")
        /\ row' = IF txn[r].new = txn[r].old THEN row
                  ELSE [row EXCEPT ![txn[r].id].used = txn[r].new]
        /\ CommitInserts(r)
        /\ IF Draws(r)
           THEN /\ credits' = txn[r].balance - over
                /\ spent' = [spent EXCEPT ![m] = @ + over]
                /\ UNCHANGED waived
           ELSE /\ waived' = [waived EXCEPT ![m] = @ + over]
                /\ UNCHANGED <<credits, spent>>
        /\ recorded' = [recorded EXCEPT ![r] = m]
        /\ txn' = [txn EXCEPT ![r] = NoTxn(r)]
        /\ UNCHANGED <<month, plan, metered, emails>>
-----------------------------------------------------------------------------
(* After the commit: the Stripe meter and the alert e-mails. *)

\* Mutation: the meter event does not wait for the commit.
ReportMeterEarly(r) ==
    /\ pc[r] \in {"flushed", "committed"}
    /\ IF pc[r] = "flushed" THEN UNCHANGED pc ELSE Goto(r, "metered")
    /\ metered' = metered \cup {r}
    /\ UNCHANGED <<month, sub, subInserted, plan, committed, pending, row, txn,
                   ledger, emails>>

\* report_translation_meter_event: an error is logged and swallowed.
ReportMeter(r) ==
    /\ pc[r] = "committed"
    /\ Goto(r, "metered")
    /\ metered' = metered \cup {r} \/ UNCHANGED metered
    /\ UNCHANGED <<month, sub, subInserted, plan, committed, pending, row, txn,
                   ledger, emails>>

Crossed(id) ==
    {t \in Thresholds : /\ row[id].limit > 0
                        /\ row[id].used * 100 >= t * row[id].limit
                        /\ t \notin row[id].alerts}

\* maybe_send_usage_alerts reads the current period outside its try.
ReadAlerts(r) ==
    /\ pc[r] = "metered"
    /\ \/ Ambiguous(r) /\ Abort(r, "error")
       \/ Visible(r) = {} /\ Abort(r, "ok")
       \/ \E id \in RowIds :
            /\ Visible(r) = {id}
            /\ Goto(r, IF Crossed(id) = {} THEN "ok" ELSE "alerting")
            /\ txn' = IF Crossed(id) = {} THEN txn
                      ELSE [txn EXCEPT ![r] = [@ EXCEPT !.id = id,
                                                  !.alerts = Crossed(id)]]
            /\ UNCHANGED <<month, sub, subInserted, plan, committed, pending,
                           row, ledger, metered, emails>>

\* Each e-mail is sent or fails on its own; the flags of the sent ones are set.
SendAlerts(r) ==
    /\ pc[r] = "alerting"
    /\ Goto(r, "flagging")
    /\ \E sent \in SUBSET txn[r].alerts :
         /\ txn' = [txn EXCEPT ![r].alerts = sent]
         /\ emails' = [emails EXCEPT ![txn[r].id[2]] =
                         [t \in Thresholds |->
                             IF t \in sent THEN @[t] + 1 ELSE @[t]]]
    /\ UNCHANGED <<month, sub, subInserted, plan, committed, pending, row,
                   ledger, metered>>

\* Mutation: both flag columns are written, not only those of this request.
CommitAllAlerts(r) ==
    LET id == txn[r].id IN
    /\ pc[r] = "flagging"
    /\ txn[r].alerts # {} => ~RowLocked(r, id)
    /\ Goto(r, "ok")
    /\ row' = [row EXCEPT ![id].alerts = txn[r].alerts]
    /\ txn' = [txn EXCEPT ![r] = NoTxn(r)]
    /\ UNCHANGED <<month, sub, subInserted, plan, committed, pending, ledger,
                   metered, emails>>

CommitAlerts(r) ==
    LET id == txn[r].id IN
    /\ pc[r] = "flagging"
    /\ txn[r].alerts # {} => ~RowLocked(r, id)
    /\ Goto(r, "ok")
    /\ row' = [row EXCEPT ![id].alerts = @ \cup txn[r].alerts]
    /\ txn' = [txn EXCEPT ![r] = NoTxn(r)]
    /\ UNCHANGED <<month, sub, subInserted, plan, committed, pending, ledger,
                   metered, emails>>
-----------------------------------------------------------------------------
(* The Stripe webhook changes a tier; the clock; the process. *)

\* sync_usage_period_limit.  Two current rows make it raise: process_webhook
\* swallows the exception and the tier change alone is committed.
SyncPeriodLimit(limit) ==
    LET current == {id \in committed : id[2] = month}
    IN  \/ /\ \A a \in current : current # {a}
           /\ UNCHANGED row
        \/ \E id \in RowIds :
             /\ current = {id}
             /\ \A r \in Requests : ~RowLocked(r, id)
             /\ row' = [row EXCEPT ![id].limit = limit]

\* Checkout completed, or the consumer subscription deleted (FREE): the period
\* limit follows when the row's tier (of this product) becomes another one.
ChangeTier(product, limit) ==
    /\ product = "consumer" => sub
    /\ plan[product] # limit
    /\ plan' = [plan EXCEPT ![product] = limit]
    /\ plan' \in Plans
    /\ SyncPeriodLimit(limit)
    /\ UNCHANGED <<month, pc, sub, subInserted, committed, pending, txn, ledger,
                   metered, emails>>

NextMonth ==
    /\ month < LastMonth
    /\ month' = month + 1
    /\ UNCHANGED <<pc, sub, subInserted, plan, committed, pending, row, txn,
                   ledger, metered, emails>>

\* The process dies: every open transaction is rolled back.
Crash ==
    LET dead == {r \in Requests : pc[r] \in InTransaction \cup AfterCommit}
    IN  /\ dead # {}
        /\ pc' = [r \in Requests |-> IF r \in dead THEN "crashed" ELSE pc[r]]
        /\ subInserted' = {}
        /\ pending' = {}
        /\ txn' = [r \in Requests |-> NoTxn(r)]
        /\ UNCHANGED <<month, sub, plan, committed, row, ledger, metered, emails>>

Serve(r) ==
    \/ InsertSubscription(r) \/ SkipUsageCheck(r) \/ CheckUsage(r)
    \/ ReadUsage(r) \/ CloseUsageRead(r) \/ TranslateSucceeds(r) \/ TranslateFails(r)
    \/ ReadAllowance(r) \/ ReadCredits(r) \/ FlushUsage(r)
    \/ CommitUsage(r) \/ ReportMeter(r) \/ ReadAlerts(r) \/ SendAlerts(r) \/ CommitAlerts(r)

Environment ==
    \/ \E product \in {"consumer", "b2b"}, limit \in ConsumerLimits \cup B2BLimits :
          ChangeTier(product, limit)
    \/ NextMonth
    \/ Crash

Next ==
    \/ \E r \in Requests : Start(r) \/ Serve(r)
    \/ Environment

Spec == Init /\ [][Next]_vars

PeriodRow == [used : Nat, limit : Nat, alerts : SUBSET Thresholds]
Transaction == [id : RowIds, old : Nat, new : Nat, over : Nat, balance : Nat,
                alerts : SUBSET Thresholds]

TypeOK ==
    /\ month \in Months
    /\ pc \in [Requests -> {"idle"} \cup InTransaction \cup AfterCommit \cup Terminal]
    /\ sub \in BOOLEAN /\ subInserted \subseteq Requests
    /\ plan \in Plans
    /\ committed \subseteq RowIds /\ pending \subseteq RowIds
    /\ row \in [RowIds -> PeriodRow]
    /\ credits \in Nat
    /\ txn \in [Requests -> Transaction]
    /\ recorded \in [Requests -> Months \cup {0}]
    /\ spent \in [Months -> Nat] /\ waived \in [Months -> Nat]
    /\ metered \subseteq Requests
    /\ emails \in [Months -> [Thresholds -> Nat]]

\* The event loop runs some request that can go on: awaits end, the upstream
\* call has a timeout, PostgreSQL grants a lock to a waiter.
FairSpec == Spec /\ WF_vars(\E r \in Requests : Serve(r))
=============================================================================
