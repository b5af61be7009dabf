------------------------------ MODULE EventLog -------------------------------
(***************************************************************************)
(* What the webhook log promises of the notifications of a payment         *)
(* provider, whatever is delivered twice, overlaps or is broken off: "we    *)
(* dedupe by (source, event_id)" (webhook_events.py:11).  An event takes    *)
(* its effect in the same step in which it is logged as processed, and      *)
(* once, with two exceptions: an event that was refused, which is on record *)
(* as unprocessed, may take its effect later; and for the events Halfway an *)
(* error after the effect can leave the effect with an unprocessed record,  *)
(* so that a repetition takes effect again.  The provider has its 2xx for   *)
(* an event only when the event is on record, and it has it for good.       *)
(***************************************************************************)
EXTENDS Naturals

CONSTANTS
    Events,
    Halfway   \* the events whose effect can outlive an error of their handler

VARIABLES
    log,      \* log[e]: "absent", "unprocessed" or "processed"
    applied,  \* applied[e]: how often e took effect
    refused,  \* the events once recorded unprocessed
    answered  \* the events the provider has a 2xx for

vars == <<log, applied, refused, answered>>

Init ==
    /\ log = [e \in Events |-> "absent"]
    /\ applied = [e \in Events |-> 0]
    /\ refused = {}
    /\ answered = {}

Apply(e) ==
    /\ log[e] = "absent" \/ e \in refused
    /\ log' = [log EXCEPT ![e] = "processed"]
    /\ applied' = [applied EXCEPT ![e] = @ + 1]
    /\ UNCHANGED <<refused, answered>>

Refuse(e) ==
    /\ log[e] = "absent"
    /\ log' = [log EXCEPT ![e] = "unprocessed"]
    /\ refused' = refused \cup {e}
    /\ UNCHANGED <<applied, answered>>

\* The effect is kept although the handler failed after it.
ApplyHalfway(e) ==
    /\ e \in Halfway
    /\ log[e] = "absent" \/ e \in refused
    /\ log' = [log EXCEPT ![e] = IF @ = "absent" THEN "unprocessed" ELSE @]
    /\ applied' = [applied EXCEPT ![e] = @ + 1]
    /\ refused' = refused \cup {e}
    /\ UNCHANGED answered

Answer(e) ==
    /\ log[e] # "absent"
    /\ answered' = answered \cup {e}
    /\ UNCHANGED <<log, applied, refused>>

Next == \E e \in Events : Apply(e) \/ ApplyHalfway(e) \/ Refuse(e) \/ Answer(e)

Spec == Init /\ [][Next]_vars
=============================================================================
