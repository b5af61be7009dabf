------------------------------- MODULE LoginGate -------------------------------
(***************************************************************************)
(* The brute-force protection of ONE (email, address) pair in Redis        *)
(* (services/auth_rate_limiter.py), as register and login call it          *)
(* (api/routes/auth.py): a fixed window per route, a counter of failed     *)
(* attempts and a lockout.  Every Redis command is a step; requests        *)
(* overlap and may break off between any two commands.                     *)
(*                                                                         *)
(* A window's key names its minute or hour, so its expiry changes nothing. *)
(***************************************************************************)
EXTENDS Integers, FiniteSets

CONSTANTS
    Requests,    \* each handled once
    Route,       \* Route[r]: "login" or "register"
    Limit,       \* Limit[route]: LOGIN_LIMIT_PER_MINUTE, REGISTER_LIMIT_PER_HOUR
    MaxFailed,   \* MAX_FAILED_ATTEMPTS
    MaxInFlight, \* requests handled at the same time
    LastWindow   \* bound on the clock

Routes == {"login", "register"}
Windows == 1..LastWindow

ASSUME LoginAssumption ==
    /\ Route \in [Requests -> Routes]
    /\ Limit \in [Routes -> Nat \ {0}]
    /\ {MaxFailed, MaxInFlight, LastWindow} \subseteq Nat \ {0}

Answers == {"idle", "limited", "locked out", "rejected", "ok", "broken"}
Steps == {"counting", "checking", "verifying", "clearing", "failing", "expiring",
          "locking", "forgetting"}

VARIABLES
    window,    \* the clock's minute (login) or hour (register)
    counts,    \* counts[route][w]: the counter of the window
    attempts,  \* auth:failed:<email>:<ip>, 0: no key
    expires,   \* does that key have a time to live?
    locked,    \* is there a key auth:lockout:<email>:<ip>?
    pc,        \* where each request is, or its answer
    read,      \* read[r]: the window r computed its key for
    tries,     \* tries[r]: what INCR returned to r
    guesses,   \* wrong passwords since the failures were last forgiven
    lost       \* requests since then that broke off after a wrong password

redis == <<counts, attempts, expires, locked>>
history == <<guesses, lost>>
vars == <<window, redis, pc, read, tries, history>>

Init ==
    /\ window = 1
    /\ counts = [route \in Routes |-> [w \in Windows |-> 0]]
    /\ attempts = 0 /\ expires = FALSE /\ locked = FALSE
    /\ pc = [r \in Requests |-> "idle"]
    /\ read = [r \in Requests |-> 1]
    /\ tries = [r \in Requests |-> 0]
    /\ guesses = 0 /\ lost = 0
-----------------------------------------------------------------------------
InFlight == {r \in Requests : pc[r] \in Steps}
Goto(r, label) == pc' = [pc EXCEPT ![r] = label]
Forgive == guesses' = 0 /\ lost' = 0

AtLimit(r) == counts[Route[r]][window] >= Limit[Route[r]]

\* check_login_limit, check_register_limit: GET, then INCR.
ReadCount(r) ==
    /\ pc[r] = "idle"
    /\ Cardinality(InFlight) < MaxInFlight
    /\ read' = [read EXCEPT ![r] = window]
    /\ Goto(r, IF AtLimit(r) THEN "limited" ELSE "counting")
    /\ UNCHANGED <<window, redis, tries, history>>

\* The rest of register does not touch these keys.
Count(r) ==
    /\ pc[r] = "counting"
    /\ counts' = [counts EXCEPT ![Route[r]][read[r]] = @ + 1]
    /\ Goto(r, IF Route[r] = "login" THEN "checking" ELSE "ok")
    /\ UNCHANGED <<window, attempts, expires, locked, read, tries, history>>

\* Mutation: the TTL is asked for a key that is never set.
CheckOtherLockout(r) ==
    /\ pc[r] = "checking"
    /\ Goto(r, "verifying")
    /\ UNCHANGED <<window, redis, read, tries, history>>

\* check_account_lockout: TTL.
CheckLockout(r) ==
    /\ pc[r] = "checking"
    /\ Goto(r, IF locked THEN "locked out" ELSE "verifying")
    /\ UNCHANGED <<window, redis, read, tries, history>>

Verify(r) ==
    /\ pc[r] = "verifying"
    /\ \/ Goto(r, "clearing") /\ UNCHANGED guesses
       \/ Goto(r, "failing") /\ guesses' = guesses + 1
    /\ UNCHANGED <<window, redis, read, tries, lost>>

\* clear_failed_attempts: DELETE.
ClearFailures(r) ==
    /\ pc[r] = "clearing"
    /\ attempts' = 0 /\ expires' = FALSE
    /\ Goto(r, "ok")
    /\ Forgive
    /\ UNCHANGED <<window, counts, locked, read, tries>>

\* record_failed_attempt: INCR, EXPIRE, SET, DELETE.
RecordFailure(r) ==
    /\ pc[r] = "failing"
    /\ attempts' = attempts + 1
    /\ tries' = [tries EXCEPT ![r] = attempts + 1]
    /\ Goto(r, "expiring")
    /\ UNCHANGED <<window, counts, expires, locked, read, history>>

TooMany(r) == tries[r] >= MaxFailed

\* Mutation: EXPIRE is sent before INCR, to a key that may not exist yet.
SetExpiryFirst(r) ==
    /\ pc[r] = "expiring"
    /\ expires' = (attempts > 1)
    /\ Goto(r, IF TooMany(r) THEN "locking" ELSE "rejected")
    /\ UNCHANGED <<window, counts, attempts, locked, read, tries, history>>

SetExpiry(r) ==
    /\ pc[r] = "expiring"
    /\ expires' = (attempts > 0)
    /\ Goto(r, IF TooMany(r) THEN "locking" ELSE "rejected")
    /\ UNCHANGED <<window, counts, attempts, locked, read, tries, history>>

Lock(r) ==
    /\ pc[r] = "locking"
    /\ locked' = TRUE
    /\ Goto(r, "forgetting")
    /\ UNCHANGED <<window, counts, attempts, expires, read, tries, history>>

Forget(r) ==
    /\ pc[r] = "forgetting"
    /\ attempts' = 0 /\ expires' = FALSE
    /\ Goto(r, "rejected")
    /\ UNCHANGED <<window, counts, locked, read, tries, history>>

\* Redis or the process fails, or the client goes away.
Break(r) ==
    /\ r \in InFlight
    /\ Goto(r, "broken")
    /\ lost' = IF pc[r] \in {"failing", "expiring", "locking"} THEN lost + 1 ELSE lost
    /\ UNCHANGED <<window, redis, read, tries, guesses>>

\* LOCKOUT_DURATION is over.  It is much longer than any request takes: one
\* that is past its check while the lockout is there passed it before the
\* lockout began, and so is answered before it ends.
LockoutEnds ==
    /\ locked /\ \A r \in InFlight : pc[r] \in {"counting", "checking"}
    /\ locked' = FALSE
    /\ Forgive
    /\ UNCHANGED <<window, counts, attempts, expires, pc, read, tries>>

\* The key's time to live is over, wherever a request may be.
FailuresExpire ==
    /\ expires
    /\ attempts' = 0 /\ expires' = FALSE
    /\ Forgive
    /\ UNCHANGED <<window, counts, locked, pc, read, tries>>

NextWindow ==
    /\ window < LastWindow
    /\ window' = window + 1
    /\ UNCHANGED <<redis, pc, read, tries, history>>

Handle(r) == \/ ReadCount(r) \/ Count(r) \/ CheckLockout(r) \/ Verify(r)
             \/ ClearFailures(r) \/ RecordFailure(r) \/ SetExpiry(r)
             \/ Lock(r) \/ Forget(r)

Next ==
    \/ \E r \in Requests : Handle(r) \/ Break(r)
    \/ LockoutEnds \/ FailuresExpire \/ NextWindow

Spec == Init /\ [][Next]_vars
-----------------------------------------------------------------------------
TypeOK ==
    /\ window \in Windows
    /\ counts \in [Routes -> [Windows -> Nat]]
    /\ attempts \in Nat /\ expires \in BOOLEAN /\ locked \in BOOLEAN
    /\ pc \in [Requests -> Answers \cup Steps]
    /\ read \in [Requests -> Windows]
    /\ tries \in [Requests -> Nat]
    /\ guesses \in Nat /\ lost \in Nat

(* "lock out (email, IP) when over threshold" (auth_rate_limiter.py:131):   *)
(* between two pardons - a success, a lockout served, 15 minutes without a  *)
(* failure - there are MAX_FAILED_ATTEMPTS wrong passwords, and only those  *)
(* more that were under way at the time or broke off before they counted.   *)
(* Likewise a minute's limit, a GET and an INCR (61-72, 87-98), is exceeded *)
(* by at most the requests that are between the two.                        *)
LimitsHeld ==
    /\ guesses < MaxFailed + MaxInFlight + lost
    /\ \A route \in Routes, w \in Windows :
          counts[route][w] < Limit[route] + MaxInFlight

(* The failures are forgotten in the end (auth_rate_limiter.py:137-138):    *)
(* while their counter has no time to live, each failure it counts is that  *)
(* of a request which is about to set it or broke off before that.  One     *)
(* EXPIRE, of whichever request, covers them all.                           *)
FailuresAreForgotten ==
    attempts > 0 /\ ~expires =>
        \A k \in 1 .. attempts :
            \E r \in Requests : tries[r] = k /\ pc[r] \in {"expiring", "broken"}
=============================================================================
