----------------------------- MODULE MCCluster -----------------------------
(***************************************************************************)
(* ClusterService for TLC on a cycle of twelve bins.                       *)
(***************************************************************************)
EXTENDS ClusterService

Pulses(phase, count, amp) == [k \in 1 .. count |-> [phase |-> phase, amp |-> amp]]

\* Two clusters, of which one ends with the cycle.
Wide == BuildPRPD(Pulses(7, 2, 10) \o Pulses(8, 1, 12) \o Pulses(23, 3, 60))

OneSpectrum == {Wide}

Symmetry == Permutations(Trials) \cup Permutations(Ids) \cup Permutations(Handlers)
=============================================================================
