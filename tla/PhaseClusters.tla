--------------------------- MODULE PhaseClusters ---------------------------
(***************************************************************************)
(* internal/phase/prpd.go, internal/cluster and the rule of                *)
(* internal/diagnosis/adjudicate.go.  The unit of phase is half a bin, so  *)
(* that the centres of bins and clusters are integers; the ranges of       *)
(* clusters are in bins.  Amplitudes are integers in mV, and an average is *)
(* kept as the sum it is computed from.                                    *)
(***************************************************************************)
EXTENDS Integers, Sequences, SequencesExt

CONSTANT Bins   \* bins of a cycle: 72

ASSUME BinsAssumption == Bins \in Nat \ {0}

Circle == 2 * Bins

\* 180 degrees
Half == Bins

WrapPhase(phase) == phase % Circle

-----------------------------------------------------------------------------
(* Spectra.                                                                *)

Spectrums == [0 .. Bins - 1 -> [count : Nat, sum : Nat, max : Nat]]

\* Pulses are a sequence of [phase, amp].
BuildPRPD(pulses) ==
    [b \in 0 .. Bins - 1 |->
        LET inBin == {i \in DOMAIN pulses : WrapPhase(pulses[i].phase) \div 2 = b}
        IN  [count |-> Cardinality(inBin),
             sum |-> SumFunction([i \in inBin |-> pulses[i].amp]),
             max |-> Max({0} \cup {pulses[i].amp : i \in inBin})]]

ActiveBins(spectrum, minCount) == {b \in 0 .. Bins - 1 : spectrum[b].count >= minCount}

CountIn(spectrum, bins) == SumFunction([b \in bins |-> spectrum[b].count])

\* The first of the fullest bins.
PeakBin(spectrum) ==
    CHOOSE b \in 0 .. Bins - 1 :
        \A d \in 0 .. Bins - 1 :
            /\ spectrum[d].count <= spectrum[b].count
            /\ d < b => spectrum[d].count < spectrum[b].count

\* The two numbers of pulses whose ratio HalfCycleRatio returns.
HalfCycles(spectrum) ==
    LET first == {b \in 0 .. Bins - 1 : 2 * b + 1 < Half}
    IN  [pos |-> CountIn(spectrum, first),
         neg |-> CountIn(spectrum, (0 .. Bins - 1) \ first)]

-----------------------------------------------------------------------------
(* Extraction.                                                             *)

Shapes ==
    [from : 0 .. Bins - 1, to : 1 .. Bins, center : 0 .. Circle - 1,
     count : Nat \ {0}, sum : Nat, max : Nat]

\* Two active bins with one empty bin between them belong together.
GapBins == 1

MinBinCount == 1

Active(spectrum) == ActiveBins(spectrum, MinBinCount)

\* Mutant: the gap that is allowed is one bin too short.
StartsTight(spectrum) ==
    {b \in Active(spectrum) : \A d \in 1 .. GapBins : b - d \notin Active(spectrum)}

\* Bins are scanned from 0 up, so the first and the last are never neighbours.
Starts(spectrum) ==
    {b \in Active(spectrum) : \A d \in 1 .. GapBins + 1 : b - d \notin Active(spectrum)}

\* Mutant: the end of a cluster is one bin late.
CenterLate(first, last) == first + last + 2

\* Half way between the start of the first bin and the end of the last.
Center(first, last) == first + last + 1

ClusterFrom(spectrum, first) ==
    LET last == Max({b \in Active(spectrum) :
                        b >= first /\ \A s \in Starts(spectrum) : s <= first \/ s > b})
    IN  [from |-> first, to |-> last + 1, center |-> Center(first, last),
         count |-> CountIn(spectrum, first .. last),
         sum |-> SumFunction([b \in first .. last |-> spectrum[b].sum]),
         max |-> Max({spectrum[b].max : b \in first .. last})]

\* The k-th bin that the scan starts a cluster at.
NthStart(spectrum, k) ==
    CHOOSE b \in Starts(spectrum) : Cardinality({c \in Starts(spectrum) : c < b}) = k - 1

Extract(spectrum) ==
    [k \in 1 .. Cardinality(Starts(spectrum)) |-> ClusterFrom(spectrum, NthStart(spectrum, k))]

-----------------------------------------------------------------------------
(* Merging.                                                                *)

Merge(a, b) ==
    LET lo == IF b.center < a.center THEN b ELSE a
        hi == IF b.center < a.center THEN a ELSE b
    IN  [from |-> lo.from, to |-> hi.to, center |-> WrapPhase(lo.from + hi.to),
         count |-> a.count + b.count, sum |-> a.sum + b.sum, max |-> Max({a.max, b.max})]

\* In bins, and not around the cycle.
PhaseGap(a, b) ==
    CASE a.to <= b.from -> b.from - a.to
      [] b.to <= a.from -> a.from - b.to
      [] OTHER -> 0

\* The averages differ by at most so many percent of the larger one.
AmplitudeNear(a, b, percent) ==
    LET x == a.sum * b.count
        y == b.sum * a.count
    IN  100 * (Max({x, y}) - Min({x, y})) <= percent * Max({x, y})

Mergeable(a, b, maxGap, percent) ==
    PhaseGap(a, b) <= maxGap /\ AmplitudeNear(a, b, percent)

\* Mutant: the second of two merged clusters is looked at once more.
AfterMergeAgain(i) == i + 1

AfterMerge(i) == i + 2

\* The next cluster i of a pass is merged with its neighbour or goes on alone.
PassStep(cs, maxGap, percent, pass) ==
    LET i == pass.i
    IN  CASE i > Len(cs) -> pass
          [] i < Len(cs) /\ Mergeable(cs[i], cs[i + 1], maxGap, percent) ->
                [i |-> AfterMerge(i), out |-> Append(pass.out, Merge(cs[i], cs[i + 1]))]
          [] OTHER -> [i |-> i + 1, out |-> Append(pass.out, cs[i])]

\* One pass over neighbours.
MergePass(cs, maxGap, percent) ==
    LET pass[k \in 0 .. Len(cs)] ==
            IF k = 0 THEN [i |-> 1, out |-> <<>>]
            ELSE PassStep(cs, maxGap, percent, pass[k - 1])
    IN  pass[Len(cs)].out

Exchange(s, i, j, field) ==
    IF s[j][field] < s[i][field] THEN [s EXCEPT ![i] = s[j], ![j] = s[i]] ELSE s

\* Place i against each later one in turn.
SortRound(s, i, field) ==
    LET t[j \in i .. Len(s)] == IF j = i THEN s ELSE Exchange(t[j - 1], i, j, field)
    IN  t[Len(s)]

\* The sort the code writes out.
ExchangeSort(s, field) ==
    LET t[i \in 0 .. Len(s)] == IF i = 0 THEN s ELSE SortRound(t[i - 1], i, field)
    IN  t[Len(s)]

\* A pass that merges shortens the list, and one that does not is the last.
MergeAll(cs, maxGap, percent) ==
    LET pass[n \in 0 .. Len(cs)] ==
            IF n = 0 THEN ExchangeSort(cs, "center")
            ELSE MergePass(pass[n - 1], maxGap, percent)
    IN  pass[Len(cs)]

-----------------------------------------------------------------------------
(* Stability, on sequences of centres.                                     *)

\* 10 degrees
MaxShift == 4

\* The smaller arc between two phases.
PhaseDiff(a, b) ==
    LET d == IF a >= b THEN a - b ELSE b - a
    IN  IF d > Half THEN Circle - d ELSE d

\* Mutant: an old centre may be matched more than once.
FreeRepeating(prev, used) == DOMAIN prev

Free(prev, used) == DOMAIN prev \ used

\* The first of the nearest centres of prev that are free.
Nearest(c, prev, used) ==
    CHOOSE i \in Free(prev, used) :
        \A j \in Free(prev, used) :
            \/ PhaseDiff(c, prev[i]) < PhaseDiff(c, prev[j])
            \/ PhaseDiff(c, prev[i]) = PhaseDiff(c, prev[j]) /\ i <= j

\* Compare(prev, curr).Stable: each new centre in turn takes the nearest old
\* one that is left.
Stable(prev, curr) ==
    LET match[k \in DOMAIN curr] ==
            Nearest(curr[k], prev, {match[j] : j \in 1 .. k - 1})
    IN  /\ Len(prev) = Len(curr)
        /\ \A k \in DOMAIN curr : PhaseDiff(curr[k], prev[match[k]]) <= MaxShift

-----------------------------------------------------------------------------
(* Adjudication.                                                           *)

MinPulseCount == 3

Decide(cluster, inInterference) ==
    IF inInterference \/ cluster.count < MinPulseCount THEN "rejected" ELSE "confirmed"
=============================================================================
