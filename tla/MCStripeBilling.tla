--------------------------- MODULE MCStripeBilling ---------------------------
(* Small instances of StripeBilling. *)
EXTENDS StripeBilling

CONSTANTS s1, s2, w1, w2

OneByOne(ordered, sessions, sent, failing, lost) ==
    [pool |-> {w1}, inOrder |-> ordered, subs |-> sessions, events |-> sent,
     errors |-> failing, crashes |-> lost]

Overlapping(sent, failing, lost) ==
    [pool |-> {w1, w2}, inOrder |-> FALSE, subs |-> {s1}, events |-> sent,
     errors |-> failing, crashes |-> lost]

\* Two sessions with deliveries one by one, in order, in order with an error,
\* and out of order; one session with deliveries one by one, an error and a
\* crash; and one with two deliveries that overlap, beside a crash, or beside
\* an error and a crash.
SmallSettings ==
    {OneByOne(TRUE, {s1, s2}, 5, 0, 0), OneByOne(TRUE, {s1, s2}, 4, 1, 0),
     OneByOne(FALSE, {s1, s2}, 4, 0, 0), OneByOne(TRUE, {s1}, 5, 1, 1),
     Overlapping(3, 0, 1), Overlapping(2, 1, 1)}
=============================================================================
