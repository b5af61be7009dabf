----------------------------- MODULE MCRateLimits ------------------------------
(* Small instances of RateLimits: two ticks to a minute, two minutes to a day. *)
EXTENDS RateLimits

CONSTANTS q1, q2, q3, q4, q5

OneOfEach  == [r \in Requests |-> CASE r = q4 -> "bearer" [] r = q3 -> "key"
                                    [] OTHER -> "anonymous"]
MixedChars == [r \in Requests |-> IF r = q1 THEN 2 ELSE 3]

TwoPerMinute   == <<1, 1, 2, 2>>
TwoPerDay      == <<1, 1, 1, 2>>
NewWeek        == <<1, 1, 2, 2>>
=============================================================================
