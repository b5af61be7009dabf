-------------------------- MODULE UsageMeteringProps --------------------------
(* What UsageMetering is checked for. *)
EXTENDS UsageMetering

SameKey(q, r) == ByKey(q) /\ Lane[q] = Lane[r]

(* Requests with one key never insert two usage_periods rows for a month    *)
(* (subscription.py:84-114), although no unique index forbids it.           *)
OnePeriodPerKey ==
    \A a, b \in committed \cup pending :
        SameKey(a[1], b[1]) /\ a[2] = b[2] => a = b

(* A month has one usage_periods row: scalar_one_or_none                    *)
(* (subscription.py:81) and "Get current usage period or create one"        *)
(* (subscription.py:87) rely on it for every request of the user.           *)
OnePeriodPerMonth == \A a, b \in committed : a[2] = b[2] => a = b

(* A refused or failed translation is neither recorded nor metered          *)
(* (public.py:316-318), and the meter never runs ahead of the record: "Only *)
(* record usage and meter the customer for a successful response"           *)
(* (public.py:327).                                                         *)
NothingBilledForNothing ==
    \A r \in Requests :
        /\ r \in metered => recorded[r] # 0
        /\ pc[r] \in {"refused", "failed", "error"} => recorded[r] = 0 /\ r \notin metered

Limits == ConsumerLimits \cup B2BLimits

(* Beyond the allowance a customer without credits gets at most the end of  *)
(* one text: once the month is used up nothing more goes by the period row  *)
(* and the credits, under the largest tier the user may have had since the  *)
(* check (public.py:303-313).  That is what the code does; the field        *)
(* descriptions of UsageResponse promise more, usage beyond the included    *)
(* characters "billed as overage" and a remainder that may be negative      *)
(* (public.py:155-158, 164-167).  The Stripe meter gets the whole text.     *)
OvershootBounded ==
    [][\A m \in Months : waived'[m] > waived[m] /\ credits = 0 =>
         \A id \in committed : id[2] = m =>
              \E limit \in Limits : row[id].used < limit]_vars

(* What leaves the credit balance is in the transaction log, to the         *)
(* character, and nothing else is: the balance read before the flush is     *)
(* still the balance at the commit (subscription.py:175-184).  The credits  *)
(* and the log together are always the credits bought.                      *)
CreditsAreLogged ==
    [][\E m \in Months, n \in 0..credits :
         credits' = credits - n /\ spent' = [spent EXCEPT ![m] = @ + n]]_vars

(* A flag is set for an e-mail that was sent (usage_alerts.py:99-111), and  *)
(* nobody takes one back: a stale period object that is written later only  *)
(* carries the columns it changed.                                          *)
AlertsOnRecord ==
    [][\A id \in committed :
         /\ row[id].alerts \subseteq row'[id].alerts
         /\ \A t \in row'[id].alerts \ row[id].alerts : emails[id[2]][t] > 0]_vars

(* The characters a month's row shows only grow, as long as they are within *)
(* every tier's allowance; after a downgrade the next record sets them back *)
(* to the smaller limit (subscription.py:163-170).                          *)
UsageNeverShrinks ==
    [][\A id \in committed :
         (\A limit \in Limits : row[id].used <= limit)
         => row[id].used <= row'[id].used]_vars

(* The characters the row of month m shows.  With one key a month has at    *)
(* most one row.                                                            *)
Shown(m) == IF \E id \in committed : id[2] = m
            THEN row[CHOOSE id \in committed : id[2] = m].used
            ELSE 0

(* The accounting of one key implements the abstract ledger: a request is   *)
(* charged once, for its whole length, to the row, the credits or nobody    *)
(* (subscription.py:153-187).                                               *)
Ledger == INSTANCE UsageLedger WITH
    charged <- [m \in Months |-> Shown(m) + spent[m] + waived[m]],
    billed  <- {r \in Requests : recorded[r] # 0}
ImplementsLedger == Ledger!LedgerSpec

(* Every request that has begun is answered, one way or another: nobody     *)
(* waits for ever for the key's row, the period's row or the unique index.  *)
(* (A request is made once, so each of them ends if all of them do.)        *)
Answered == <>[](\A r \in Requests : pc[r] \in {"idle"} \cup Terminal)
=============================================================================
