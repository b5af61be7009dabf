-------------------------- MODULE MCEmailVerification --------------------------
(* A small instance of EmailVerification. *)
EXTENDS EmailVerification, TLC

CONSTANTS m1, m2, m3, c1, c2

Symmetry == Permutations(Resends) \cup Permutations(Clicks)
=============================================================================
