------------------------------ MODULE MCApiKeys -------------------------------
(* Small instances of ApiKeys: the caps are 1 and 2 instead of 1 and 10. *)
EXTENDS ApiKeys, TLC

CONSTANTS r1, r2, r3, k1

SmallCaps == [tier \in Tiers |-> IF tier = "starter" THEN 1 ELSE 2]
=============================================================================
