----------------------------- MODULE UsageLedger -----------------------------
(***************************************************************************)
(* What usage accounting promises an API customer: "each successful        *)
(* translation counts toward your monthly character quota" (public.py:251).*)
(* A request is charged at most once, to one month, for exactly its length,*)
(* and a charge is never taken back.  UsageMetering is the detailed model. *)
(***************************************************************************)
EXTENDS Naturals

CONSTANTS
    Requests,   \* the translate requests of one user
    Months,     \* the usage periods
    Chars       \* Chars[r]: length of the text of request r

VARIABLES
    charged,    \* charged[m]: characters counted in month m
    billed      \* the requests that have been charged

ledgerVars == <<charged, billed>>

LedgerInit ==
    /\ charged = [m \in Months |-> 0]
    /\ billed = {}

Charge(r, m) ==
    /\ r \notin billed
    /\ billed' = billed \cup {r}
    /\ charged' = [charged EXCEPT ![m] = @ + Chars[r]]

LedgerNext == \E r \in Requests, m \in Months : Charge(r, m)

LedgerSpec == LedgerInit /\ [][LedgerNext]_ledgerVars
=============================================================================
