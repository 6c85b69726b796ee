--------------------------- MODULE Classification ---------------------------
(***************************************************************************)
(* internal/diagnosis/classify.go, the rule that picks one candidate       *)
(* (adjudicate.go) and what a snapshot says of its interpretations.        *)
(* Confidences are in thousandths.  The logarithm of the half-cycle ratio  *)
(* is rounded down to tenths: it decides how sure a surface discharge is,  *)
(* and never whether there is one.                                         *)
(***************************************************************************)
EXTENDS PhaseClusters

\* mV
HighAmp == 50

\* 1000 * e^(k/10)
ExpTenth ==
    <<1105, 1221, 1350, 1492, 1649, 1822, 2014, 2226, 2460, 2718,
      3004, 3320, 3669, 4055, 4482, 4953, 5474, 6050, 6686, 7389>>

\* Tenths in log(big / small), up to 2.
LogTenths(big, small) ==
    Cardinality({k \in DOMAIN ExpTenth : 1000 * big >= ExpTenth[k] * small})

PulsesOf(clusters) == SumFunction([i \in DOMAIN clusters |-> clusters[i].count])

\* A cluster counts for the half cycle its centre lies in.
ClusterHalves(clusters) ==
    LET first == {i \in DOMAIN clusters : clusters[i].center < Half}
        pos == SumFunction([i \in first |-> clusters[i].count])
    IN  [pos |-> pos, neg |-> PulsesOf(clusters) - pos]

\* |log(pos / neg)| < 0.35, which no ratio to 0 satisfies.
Symmetric(halves) ==
    /\ 1000000 * halves.pos < 1419068 * halves.neg
    /\ 1000000 * halves.neg < 1419068 * halves.pos

Candidate(defect, confidence) == [defect |-> defect, confidence |-> confidence]

Floating(max) ==
    IF max >= HighAmp
    THEN <<Candidate("floating_electrode", 600 + 8 * Min({HighAmp, max - HighAmp}))>>
    ELSE <<>>

\* symmetryRatio takes no pulses at all for a ratio of 1.
HalfCycleDefect(halves) ==
    CASE halves.pos + halves.neg = 0 -> <<>>
      [] halves.pos + halves.neg > 0 /\ Symmetric(halves) -> <<Candidate("internal_void", 700)>>
      [] OTHER -> <<Candidate("surface_discharge",
                              500 + 15 * LogTenths(Max({halves.pos, halves.neg}),
                                                   Min({halves.pos, halves.neg})))>>

\* Mutant: the candidates stay in the order they were found in.
Unsorted(candidates) == candidates

\* The stable sort of at most two candidates.
ByConfidence(candidates) ==
    IF Len(candidates) = 2 /\ candidates[2].confidence > candidates[1].confidence
    THEN Reverse(candidates) ELSE candidates

Classify(clusters) ==
    LET found == Floating(Max({0} \cup {clusters[i].max : i \in DOMAIN clusters}))
                    \o HalfCycleDefect(ClusterHalves(clusters))
    IN  CASE clusters = <<>> -> <<Candidate("unknown", 1000)>>
          [] clusters # <<>> /\ found = <<>> -> <<Candidate("unknown", 500)>>
          [] OTHER -> ByConfidence(found)

\* The first candidate, or interpretation, of the highest confidence.
Highest(candidates) ==
    CHOOSE i \in DOMAIN candidates :
        \A j \in DOMAIN candidates :
            /\ candidates[j].confidence <= candidates[i].confidence
            /\ j < i => candidates[j].confidence < candidates[i].confidence

ResolveInterpretation(candidates) == candidates[Highest(candidates)]

DominantDefect(interpretations) ==
    IF interpretations = <<>> THEN "unknown" ELSE interpretations[Highest(interpretations)].defect
=============================================================================
