------------------------------ MODULE MCSessions ------------------------------
(* Small instances of Sessions. *)
EXTENDS Sessions, TLC

CONSTANTS q1, q2, q3, q4, d1, d2

TwoDevices == [r \in Requests |-> IF r = q4 THEN d2 ELSE d1]
SameDevice == Permutations({q1, q2, q3})
=============================================================================
