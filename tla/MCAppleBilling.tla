--------------------------- MODULE MCAppleBilling ----------------------------
(* Small instances of AppleBilling. *)
EXTENDS AppleBilling

CONSTANTS u1, u2, u3, w1, w2

\* One account that translates, one with many notifications one by one, one
\* with two deliveries that overlap, and two that may both hold the
\* subscription.
SmallSettings ==
    [users : {{u1}}, pool : {{w1}}, inOrder : BOOLEAN, notes : {2}, crashes : {1}]
    \cup [users : {{u2}}, pool : {{w1}}, inOrder : BOOLEAN, notes : {3}, crashes : {1}]
    \cup [users : {{u2}}, pool : {{w1, w2}}, inOrder : BOOLEAN, notes : {2}, crashes : {1}]
    \cup [users : {{u2, u3}}, pool : {{w1, w2}}, inOrder : BOOLEAN, notes : {1}, crashes : {1}]
=============================================================================
