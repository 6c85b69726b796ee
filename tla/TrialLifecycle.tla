--------------------------- MODULE TrialLifecycle ---------------------------
(***************************************************************************)
(* What the trial service promises about a trial's status, with requests,  *)
(* statements and crashes left out: a trial is registered once, then moves *)
(* one stage at a time along the transition table, and stays sealed.       *)
(***************************************************************************)
EXTENDS TrialStates

CONSTANT Trials

VARIABLE stage

Init == stage = [t \in Trials |-> NoRow]

Register(t) ==
    /\ stage[t] = NoRow
    /\ stage' = [stage EXCEPT ![t] = "preparing"]

Advance(t) ==
    \E to \in Stages :
        /\ CanTransition(stage[t], to)
        /\ stage' = [stage EXCEPT ![t] = to]

Next == \E t \in Trials : Register(t) \/ Advance(t)

Spec == Init /\ [][Next]_stage
=============================================================================
