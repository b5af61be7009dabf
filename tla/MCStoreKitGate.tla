--------------------------- MODULE MCStoreKitGate ----------------------------
(* Small instances of StoreKitGate: one transaction expires, one does not,  *)
(* and it is signed with a key that may be new.                             *)
EXTENDS StoreKitGate, TLC

CONSTANTS t1, t2, k1, k2, p1, p2, r1, r2

Apart == (t1 :> p1) @@ (t2 :> p2)
Signed == (t1 :> k2) @@ (t2 :> k1)
Expiries == (t1 :> MaxTime + 1) @@ (t2 :> 2)
Symmetry == Permutations(Requests)
=============================================================================
