--------------------------- MODULE MCUsageMetering ---------------------------
(* Small instances of UsageMetering. *)
EXTENDS UsageMeteringProps

CONSTANTS k1, r1, r2, r3

OneKeyLane    == [r \in Requests |-> k1]
KeyAndWebLane == [r \in Requests |-> IF r = r3 THEN Jwt ELSE k1]

TwoChars   == [r \in Requests |-> 2]
MixedChars == [r \in Requests |-> IF r = r1 THEN 1 ELSE 3]
=============================================================================
