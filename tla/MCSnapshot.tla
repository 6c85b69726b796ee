----------------------------- MODULE MCSnapshot -----------------------------
(***************************************************************************)
(* SnapshotService for TLC: ids, handlers and contents are interchangeable *)
(* model values.                                                           *)
(***************************************************************************)
EXTENDS SnapshotService, TLC

Symmetry ==
    Permutations(Trials) \cup Permutations(Snapshots)
    \cup Permutations(Handlers) \cup Permutations(Clusterings) \cup Permutations(Findings)
=============================================================================
