------------------------------ MODULE MCTrial ------------------------------
(***************************************************************************)
(* TrialService for TLC.  Trials, fingerprints, references, channel        *)
(* indexes and handlers are interchangeable model values; the handlers are *)
(* permuted within and outside Drivers, and only in runs without a         *)
(* temporal property.                                                      *)
(***************************************************************************)
EXTENDS TrialService, FiniteSets, TLC

Symmetry ==
    Permutations(Trials) \cup Permutations(Fingerprints)
    \cup Permutations(References) \cup Permutations(Drivers)
    \cup Permutations(Handlers \ Drivers)
=============================================================================
