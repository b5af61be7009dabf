------------------------------ MODULE MCLoginGate ------------------------------
(* A small instance of LoginGate: four logins and a registration. *)
EXTENDS LoginGate, TLC

CONSTANTS q1, q2, q3, q4, q5

OneRegister == [r \in Requests |-> IF r = q5 THEN "register" ELSE "login"]
SmallLimits == [route \in Routes |-> IF route = "login" THEN 2 ELSE 1]

Logins      == Permutations({q1, q2, q3, q4})
=============================================================================
