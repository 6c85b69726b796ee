---------------------------- MODULE TrialStates ----------------------------
(***************************************************************************)
(* The status machine of a trial: internal/model/entities.go (the          *)
(* constants) and internal/trial/state.go (the transition table and the    *)
(* two predicates the services ask before they write).                     *)
(***************************************************************************)

Stages == {"preparing", "acquiring", "clustering", "reviewing", "sealed"}

\* Column value that stands for "no row in the trials table".
NoRow == "none"

Transitions ==
    { <<"preparing", "acquiring">>, <<"acquiring", "clustering">>,
      <<"clustering", "reviewing">>, <<"reviewing", "sealed">> }

\* Mutant: the table only protects the sealed state.
CanTransitionUnlessSealed(from, to) == from # "sealed"

CanTransition(from, to) == <<from, to>> \in Transitions

IsSealed(stage) == stage = "sealed"

Writable(stage) == stage \in {"preparing", "acquiring"}
=============================================================================
