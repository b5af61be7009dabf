---------------------------- MODULE MCAppleSignIn ----------------------------
(* Small instances of AppleSignIn. *)
EXTENDS AppleSignIn, TLC

CONSTANTS r1, r2, r3, r4, i1, i2, e1, e2

OwnEmails == (i1 :> e1) @@ (i2 :> e2)
Symmetry == Permutations(Requests)
=============================================================================
