---------------------------- MODULE Interference ----------------------------
(***************************************************************************)
(* internal/diagnosis/interference.go: windows of phase that an engineer   *)
(* has marked, as records of two phases in half bins.                      *)
(***************************************************************************)
EXTENDS PhaseClusters

Normalize(w) == [from |-> WrapPhase(w.from), to |-> WrapPhase(w.to)]

\* A window whose end is before its start goes around the zero.
Wraps(w) == Normalize(w).from > Normalize(w).to

WindowContains(w, phase) ==
    LET n == Normalize(w)
        p == WrapPhase(phase)
    IN  IF Wraps(w) THEN p >= n.from \/ p <= n.to ELSE n.from <= p /\ p <= n.to

ContainsCluster(w, cluster) == WindowContains(w, cluster.center)

\* The clusters, by their place in the list, that lie in a window.
FilterClusters(windows, clusters) ==
    {k \in DOMAIN clusters : \E i \in DOMAIN windows : ContainsCluster(windows[i], clusters[k])}

\* Mutant: the end of the later window is taken, also when it is inside.
LaterEnd(last, w) == w.to

FurtherEnd(last, w) == Max({last.to, w.to})

Absorb(merged, w) ==
    IF merged # <<>> /\ w.from <= Last(merged).to
    THEN Append(Front(merged), [Last(merged) EXCEPT !.to = FurtherEnd(Last(merged), w)])
    ELSE Append(merged, w)

\* One window is returned as it came.
MergeOverlapping(windows) ==
    IF Len(windows) <= 1 THEN windows
    ELSE LET ws == ExchangeSort([i \in DOMAIN windows |-> Normalize(windows[i])], "from")
             merged[k \in 0 .. Len(ws)] == IF k = 0 THEN <<>> ELSE Absorb(merged[k - 1], ws[k])
         IN  merged[Len(ws)]
=============================================================================
