------------------------------ MODULE RateLimits -------------------------------
(***************************************************************************)
(* What ONE client address may do: the per-minute and per-day counters of  *)
(* the middleware (core/middleware.py, services/rate_limiter.py) and the   *)
(* weekly characters of anonymous translations (services/usage_tracker.py, *)
(* api/routes/translate.py), in Redis, for requests that overlap.          *)
(*                                                                         *)
(* A counter's key names its minute, day or week, so a window's counter is *)
(* a function of the window; each expires after its window is over.  Time  *)
(* passes in ticks, several to a minute.                                   *)
(***************************************************************************)
EXTENDS Naturals, FiniteSetsExt

CONSTANTS
    Requests,    \* each handled once
    Kind,        \* "anonymous", "ios" (the app without an account), "key" (public
                 \* API), "bearer" (access token)
    Chars,       \* Chars[r]: the length of the text
    LastTick,    \* bound on the clock
    Minute, Day, Week,  \* of each tick
    MonthEnds,   \* the days that are the last of their month
    MinuteLimit, DayLimit, WeekLimit,
    MaxInFlight  \* requests handled at the same time

Ticks == 1..LastTick
Kinds == {"anonymous", "ios", "key", "bearer"}

ASSUME RequestAssumption == Kind \in [Requests -> Kinds] /\ Chars \in [Requests -> Nat]
ASSUME TimeAssumption ==
    /\ LastTick \in Nat \ {0}
    /\ Minute \in [Ticks -> Nat] /\ Day \in [Ticks -> Nat] /\ Week \in [Ticks -> Nat]
ASSUME LimitAssumption ==
    {MinuteLimit, DayLimit, WeekLimit, MaxInFlight} \subseteq Nat \ {0}

Windows(f) == {f[t] : t \in Ticks}
Answers == {"idle", "ok", "failed", "limited", "weekly", "value error"}

VARIABLES
    now,      \* the tick
    minutes,  \* minutes[m]: the counter rate:minute:<ip>:m
    days,     \* days[d]: the counter rate:day:<ip>:d
    used,     \* used[w]: the counter usage:anon:<ip>:w
    pc,       \* where each request is, or its answer
    read,     \* read[r]: the tick at which r computed its keys, 0 before
    charged   \* charged[r]: the week r's characters were counted in, {} before

vars == <<now, minutes, days, used, pc, read, charged>>

Init ==
    /\ now = 1
    /\ minutes = [m \in Windows(Minute) |-> 0]
    /\ days = [d \in Windows(Day) |-> 0]
    /\ used = [w \in Windows(Week) |-> 0]
    /\ pc = [r \in Requests |-> "idle"]
    /\ read = [r \in Requests |-> 0]
    /\ charged = [r \in Requests |-> {}]
-----------------------------------------------------------------------------
InFlight == {r \in Requests : pc[r] \notin Answers}
Goto(r, label) == pc' = [pc EXCEPT ![r] = label]

\* Mutation: off by one.
AtMinuteLimitPlusOne(t) == minutes[Minute[t]] > MinuteLimit

AtMinuteLimit(t) == minutes[Minute[t]] >= MinuteLimit

AtDayLimit(t) == days[Day[t]] >= DayLimit

\* A valid access token passes the middleware.
Skip(r) ==
    /\ pc[r] = "idle" /\ Kind[r] = "bearer"
    /\ Goto(r, "handling")
    /\ UNCHANGED <<now, minutes, days, used, read, charged>>

\* The GETs of both counters; the refusal for the day's limit computes the
\* next midnight by adding one to the day of the month.
ReadCounts(r) ==
    /\ pc[r] = "idle" /\ Kind[r] # "bearer"
    /\ Cardinality(InFlight) < MaxInFlight
    /\ read' = [read EXCEPT ![r] = now]
    /\ Goto(r, IF AtMinuteLimit(now) THEN "limited"
               ELSE IF ~AtDayLimit(now) THEN "counting"
               ELSE IF Day[now] \in MonthEnds THEN "value error" ELSE "limited")
    /\ UNCHANGED <<now, minutes, days, used, charged>>

\* The INCRs, of the keys computed before.  Of what comes behind the middleware
\* only the tier ANONYMOUS is weighed: get_user_tier gives the app FREE.
Increment(r) ==
    /\ pc[r] = "counting"
    /\ minutes' = [minutes EXCEPT ![Minute[read[r]]] = @ + 1]
    /\ days' = [days EXCEPT ![Day[read[r]]] = @ + 1]
    /\ Goto(r, IF Kind[r] = "anonymous" THEN "weighing" ELSE "handling")
    /\ UNCHANGED <<now, used, read, charged>>

\* Mutation: GET and INCRBY are two commands, as they once were.
CountCharactersInTwo(r) ==
    LET w == Week[now] IN
    /\ \/ /\ pc[r] = "weighing"
          /\ Goto(r, IF used[w] + Chars[r] > WeekLimit THEN "weekly" ELSE "charging")
          /\ UNCHANGED <<used, charged>>
       \/ /\ pc[r] = "charging"
          /\ used' = [used EXCEPT ![w] = @ + Chars[r]]
          /\ charged' = [charged EXCEPT ![r] = {w}]
          /\ Goto(r, "handling")
    /\ UNCHANGED <<now, minutes, days, read>>

\* Mutation: the characters are counted before they are compared.
CountCharactersFirst(r) ==
    LET w == Week[now] IN
    /\ pc[r] = "weighing"
    /\ used' = [used EXCEPT ![w] = @ + Chars[r]]
    /\ IF used[w] + Chars[r] > WeekLimit
       THEN Goto(r, "weekly") /\ UNCHANGED charged
       ELSE charged' = [charged EXCEPT ![r] = {w}] /\ Goto(r, "handling")
    /\ UNCHANGED <<now, minutes, days, read>>

\* check_and_record_usage: one Lua script.
CountCharacters(r) ==
    LET w == Week[now] IN
    /\ pc[r] = "weighing"
    /\ IF used[w] + Chars[r] > WeekLimit
       THEN Goto(r, "weekly") /\ UNCHANGED <<used, charged>>
       ELSE /\ used' = [used EXCEPT ![w] = @ + Chars[r]]
            /\ charged' = [charged EXCEPT ![r] = {w}]
            /\ Goto(r, "handling")
    /\ UNCHANGED <<now, minutes, days, read>>

\* The rest of the handler: a translation that fails is not given back.
Finish(r) ==
    /\ pc[r] = "handling"
    /\ Goto(r, "ok") \/ Goto(r, "failed")
    /\ UNCHANGED <<now, minutes, days, used, read, charged>>

\* Redis fails, or the process dies.
Break(r) ==
    /\ r \in InFlight
    /\ Goto(r, "failed")
    /\ UNCHANGED <<now, minutes, days, used, read, charged>>

Tick ==
    /\ now + 1 \in Ticks
    /\ now' = now + 1
    /\ UNCHANGED <<minutes, days, used, pc, read, charged>>

Next ==
    \/ \E r \in Requests : \/ Skip(r) \/ ReadCounts(r) \/ Increment(r)
                           \/ CountCharacters(r) \/ Finish(r) \/ Break(r)
    \/ Tick

Spec == Init /\ [][Next]_vars
-----------------------------------------------------------------------------
TypeOK ==
    /\ now \in Ticks
    /\ minutes \in [Windows(Minute) -> Nat]
    /\ days \in [Windows(Day) -> Nat]
    /\ used \in [Windows(Week) -> Nat]
    /\ pc \in [Requests -> Answers \cup {"counting", "weighing", "handling"}]
    /\ read \in [Requests -> Ticks \cup {0}]
    /\ charged \in [Requests -> SUBSET Windows(Week)]

(* The week's characters never go beyond the limit, however many requests   *)
(* overlap: "the whole gate is atomic" (usage_tracker.py:37).               *)
WeekLimitHeld == \A w \in Windows(Week) : used[w] <= WeekLimit

(* What a week shows is what was let through in it: a refused text costs    *)
(* nothing, a text is counted once (usage_tracker.py:39-50).                *)
WeekIsCharged ==
    \A w \in Windows(Week) :
        used[w] = MapThenSumSet(LAMBDA r : Chars[r], {r \in Requests : w \in charged[r]})

(* GET and INCR are two commands: the limit of a minute and of a day is     *)
(* exceeded by at most the requests that were between them                  *)
(* (rate_limiter.py:60-98).                                                 *)
OvershootIsConcurrency ==
    /\ \A m \in Windows(Minute) : minutes[m] < MinuteLimit + MaxInFlight
    /\ \A d \in Windows(Day) : days[d] < DayLimit + MaxInFlight
=============================================================================
