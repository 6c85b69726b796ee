---------------------------- MODULE MCDiagnosis ----------------------------
(***************************************************************************)
(* DiagnosisService for TLC on a cycle of eight bins.                      *)
(***************************************************************************)
EXTENDS DiagnosisService

\* One cluster of the first half cycle and of a high amplitude: a surface
\* discharge, and less surely a floating electrode.
High == BuildPRPD([k \in 1 .. 3 |-> [phase |-> 3, amp |-> 60]])

OneSpectrum == {High}

Symmetry == Permutations(Trials) \cup Permutations(Ids) \cup Permutations(Handlers)
=============================================================================
