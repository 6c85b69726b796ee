----------------------------- MODULE Algorithms -----------------------------
(***************************************************************************)
(* The pure functions of the domain packages on the inputs they can get.   *)
(* subject is one input, which the steps make longer; every property says  *)
(* what a function returns for it against a definition that does not       *)
(* follow the code.                                                        *)
(***************************************************************************)
EXTENDS Classification, Interference, Amplitudes, Periodicity

CONSTANTS
    Bursts,         \* [count, amp] of the pulses of a bin
    MaxBursts,      \* bins with pulses
    MergeGaps,      \* bins between clusters that are merged
    MergePercents,  \* tolerances of their amplitudes
    CenterPlaces,   \* centres of matched clusters
    MaxCenters,     \* clusters on each side of a match
    Gaps,           \* ns between a pulse of a channel and the next
    ChannelAmps,    \* amplitudes (mV) on a channel
    MaxPulses,      \* pulses of a channel
    Lags,           \* ns a second channel is late by, or NoStamp
    TrueLag,        \* the delay of the second channel
    NoStamp,        \* the second channel has missed the discharge
    MaxDischarges,
    Edges,          \* ends of windows
    MaxWindows,
    Amps,           \* amplitudes (mV) of a list
    MaxAmps

ASSUME LagsAssumption ==
    /\ TrueLag \in Int
    /\ NoStamp \notin Int
    /\ \A lag \in Lags : lag \in Int \/ lag = NoStamp

\* Times do not go back, amplitudes are not negative, centres are phases.
ASSUME InputsAssumption ==
    /\ Bursts \subseteq [count : Nat, amp : Nat]
    /\ CenterPlaces \subseteq 0 .. Circle - 1
    /\ Gaps \subseteq Nat /\ ChannelAmps \subseteq Nat
    /\ Edges \subseteq Int
    /\ Amps \subseteq Nat

VARIABLE subject

Init ==
    \/ subject = [kind |-> "pulses", pulses |-> <<>>, bursts |-> 0, next |-> 0]
    \/ subject = [kind |-> "matching", prev |-> <<>>, curr |-> <<>>]
    \/ subject = [kind |-> "channel", pulses |-> <<>>]
    \/ subject = [kind |-> "delay", lags |-> <<>>]
    \/ subject = [kind |-> "windows", windows |-> <<>>]
    \/ subject = [kind |-> "amplitudes", amps |-> <<>>]

\* Pulses in the middle of a bin after the last one that has some.
AddBurst ==
    /\ subject.kind = "pulses"
    /\ subject.bursts < MaxBursts
    /\ \E b \in subject.next .. Bins - 1, burst \in Bursts :
          subject' = [subject EXCEPT
              !.pulses = @ \o [k \in 1 .. burst.count |-> [phase |-> 2 * b + 1, amp |-> burst.amp]],
              !.bursts = @ + 1, !.next = b + 1]

\* BuildPRPD, Extract and MergeAll take one another's result, for the same pulses.
Build ==
    /\ subject.kind = "pulses"
    /\ subject' = [kind |-> "spectrum", pulses |-> subject.pulses,
                   spectrum |-> BuildPRPD(subject.pulses)]

ExtractClusters ==
    /\ subject.kind = "spectrum"
    /\ subject' = [kind |-> "clusters", pulses |-> subject.pulses,
                   spectrum |-> subject.spectrum, clusters |-> Extract(subject.spectrum)]

MergeClusters ==
    /\ subject.kind = "clusters"
    /\ \E maxGap \in MergeGaps, percent \in MergePercents :
          subject' = [kind |-> "merged", pulses |-> subject.pulses,
                      maxGap |-> maxGap, percent |-> percent,
                      clusters |-> MergeAll(subject.clusters, maxGap, percent)]

\* Clusters come by their centres, old ones and new ones.
AddCenter ==
    /\ subject.kind = "matching"
    /\ \E side \in {"prev", "curr"}, c \in CenterPlaces :
          /\ Len(subject[side]) < MaxCenters
          /\ side = "prev" => subject.curr = <<>>
          /\ subject[side] # <<>> => Last(subject[side]) < c
          /\ subject' = [subject EXCEPT ![side] = Append(@, c)]

AddPulse ==
    /\ subject.kind = "channel"
    /\ Len(subject.pulses) < MaxPulses
    /\ \E gap \in Gaps, amp \in ChannelAmps :
          LET time == IF subject.pulses = <<>> THEN 0 ELSE Last(subject.pulses).time + gap
          IN  subject' = [subject EXCEPT !.pulses = Append(@, [time |-> time, amp |-> amp])]

AddDischarge ==
    /\ subject.kind = "delay"
    /\ Len(subject.lags) < MaxDischarges
    /\ \E lag \in Lags : subject' = [subject EXCEPT !.lags = Append(@, lag)]

AddWindow ==
    /\ subject.kind = "windows"
    /\ Len(subject.windows) < MaxWindows
    /\ \E from, to \in Edges :
          subject' = [subject EXCEPT !.windows = Append(@, [from |-> from, to |-> to])]

AddAmplitude ==
    /\ subject.kind = "amplitudes"
    /\ Len(subject.amps) < MaxAmps
    /\ \E amp \in Amps : subject' = [subject EXCEPT !.amps = Append(@, amp)]

Next ==
    \/ AddBurst \/ Build \/ ExtractClusters \/ MergeClusters
    \/ AddCenter \/ AddPulse \/ AddDischarge \/ AddWindow \/ AddAmplitude

Spec == Init /\ [][Next]_subject

-----------------------------------------------------------------------------
(* Spectra and clusters.                                                   *)

BinsOf(cluster) == cluster.from .. cluster.to - 1

\* The clusters cs take every pulse once, and lie one after the other.
Partitions(cs, pulses) ==
    /\ PulsesOf(cs) = Len(pulses)
    /\ \A k \in DOMAIN cs :
          LET mine == {i \in DOMAIN pulses : pulses[i].phase \div 2 \in BinsOf(cs[k])}
          IN  /\ cs[k].count = Cardinality(mine)
              /\ cs[k].sum = SumFunction([i \in mine |-> pulses[i].amp])
              /\ cs[k].max = Max({pulses[i].amp : i \in mine})
              /\ k > 1 => cs[k - 1].to <= cs[k].from

\* Every pulse of a spectrum is in one cluster, clusters begin and end with
\* pulses, hold no two empty bins in a row and have at least two between them
\* (Extractor.Extract, whose scan is the hazard: a run that is open at the
\* last bin, a gap of one bin that is closed).
ExtractPartitions ==
    subject.kind = "clusters" =>
        LET cs == subject.clusters
            filled == {subject.pulses[i].phase \div 2 : i \in DOMAIN subject.pulses}
        IN  /\ Partitions(cs, subject.pulses)
            /\ \A k \in DOMAIN cs :
                  /\ {cs[k].from, cs[k].to - 1} \subseteq filled
                  /\ \A b \in BinsOf(cs[k]) : {b, b + 1} \cap filled # {}
                  /\ k > 1 => cs[k].from - cs[k - 1].to > GapBins

\* MergeAll ends with clusters of which no two neighbours can be merged, and
\* on the way neither loses a pulse nor counts one twice, whatever gap and
\* tolerance it is called with.
MergeAllSettles ==
    subject.kind = "merged" =>
        LET cs == subject.clusters
        IN  /\ Partitions(cs, subject.pulses)
            /\ \A k \in 2 .. Len(cs) :
                  ~Mergeable(cs[k - 1], cs[k], subject.maxGap, subject.percent)

\* The half cycles that Classify counts by the centres of clusters are those
\* HalfCycleRatio counts by bins, unless a cluster lies across 180 degrees.
HalvesAgree ==
    subject.kind = "clusters" =>
        LET cs == subject.clusters
        IN  (\A k \in DOMAIN cs : 2 * cs[k].to <= Half \/ Half <= 2 * cs[k].from)
              => ClusterHalves(cs) = HalfCycles(subject.spectrum)

\* Candidates exclude each other: one of void and surface when there are
\* clusters, floating with it when an amplitude is high, and nothing else;
\* and a snapshot of them shows as dominant the one that ResolveInterpretation
\* recommends and that Classify has put first.
CandidatesExclusive ==
    subject.kind \in {"clusters", "merged"} =>
        LET candidates == Classify(subject.clusters)
            found == {candidates[i].defect : i \in DOMAIN candidates}
            high == \E i \in DOMAIN subject.pulses : subject.pulses[i].amp >= HighAmp
        IN  /\ Len(candidates) = Cardinality(found)
            /\ IF subject.pulses = <<>> THEN found = {"unknown"}
               ELSE \E balance \in {"internal_void", "surface_discharge"} :
                       found = {balance} \cup (IF high THEN {"floating_electrode"} ELSE {})
            /\ ResolveInterpretation(candidates) = candidates[1]
            /\ DominantDefect(candidates) = candidates[1].defect
            /\ \A i \in DOMAIN candidates : candidates[i].confidence \in 500 .. 1000

-----------------------------------------------------------------------------
(* Matching.                                                               *)

Close(c, d) == \E shift \in -MaxShift .. MaxShift : (c + shift) % Circle = d

\* New clusters are called stable only if they can be paired with the old ones
\* at most 10 degrees away around the cycle, and are called stable if none has
\* moved (Compare, whose greedy matching may miss a pairing but not invent one).
StableMeansPaired ==
    subject.kind = "matching" =>
        LET prev == subject.prev
            curr == subject.curr
        IN  /\ Stable(prev, curr) =>
                  \E order \in SetToSeqs(DOMAIN prev) :
                      /\ Len(curr) = Len(prev)
                      /\ \A k \in DOMAIN curr : Close(curr[k], prev[order[k]])
            /\ prev = curr => Stable(prev, curr)

-----------------------------------------------------------------------------
(* Periodic interference.                                                  *)

\* The pulses i .. j are alike and equally far apart.
Train(s, i, j) ==
    LET gap == s[i + 1].time - s[i].time
    IN  /\ gap > 0
        /\ \A k \in i .. j - 1 : s[k + 1].time - s[k].time = gap /\ s[k + 1].amp = s[k].amp

\* A marked pulse has two others that are marked and of nearly its amplitude,
\* and four pulses of a train are never all missed.  Three may be: behind a pulse
\* of the same time as the first, or unlike it, the scan steps over the first.
InterferenceFound ==
    subject.kind = "channel" =>
        LET s == subject.pulses
            marked == DetectInChannel(s)
        IN  /\ \A i \in marked :
                  \E run \in kSubset(MinCount, marked) :
                      i \in run /\ \E first \in run : \A j \in run : Near(s[first].amp, s[j].amp)
            /\ \A i \in 1 .. Len(s) - 3 :
                  Train(s, i, i + 3) => marked \cap (i .. i + 3) # {}

-----------------------------------------------------------------------------
(* Delays.                                                                 *)

\* Discharges are 10000 ns apart; the reference channel has index 0.
StampsOf(lags) ==
    [key \in {<<0, n>> : n \in DOMAIN lags}
               \cup {<<1, n>> : n \in {k \in DOMAIN lags : lags[k] # NoStamp}} |->
        10000 * key[2] + IF key[1] = 0 THEN 0 ELSE lags[key[2]]]

MainsReference == [zero |-> 25000, period |-> 20000]

\* When more than half of the discharges that both channels have seen are late
\* by one delay, that delay is the estimate, however far off the others are,
\* and it takes their pulses to the phase the reference channel gives them
\* (DelayEstimator: "robust against outliers").
DelayRobust ==
    subject.kind = "delay" =>
        LET stamps == StampsOf(subject.lags)
            shared == {n \in DOMAIN subject.lags : subject.lags[n] # NoStamp}
            true == {n \in shared : subject.lags[n] = TrueLag}
            delay == DelayOf(Estimate(0, stamps), 1)
        IN  2 * Cardinality(true) > Cardinality(shared) =>
                /\ delay = 2 * TrueLag
                /\ \A n \in true :
                      Align(CompensateDelay(stamps[<<1, n>>], delay), MainsReference)
                          = Align(stamps[<<0, n>>], MainsReference)

-----------------------------------------------------------------------------
(* Windows.                                                                *)

Covered(windows) ==
    {p \in 0 .. Circle - 1 : \E i \in DOMAIN windows : WindowContains(windows[i], p)}

\* Merged windows contain the phases the marked ones did, if none goes around
\* the zero, and never more; and merging is done: no two of them meet.
WindowsCover ==
    subject.kind = "windows" =>
        LET merged == MergeOverlapping(subject.windows)
            flat == \A i \in DOMAIN subject.windows : ~Wraps(subject.windows[i])
        IN  /\ Covered(merged) \subseteq Covered(subject.windows)
            /\ flat => /\ Covered(merged) = Covered(subject.windows)
                       /\ \A i \in 2 .. Len(merged) : merged[i - 1].to < merged[i].from

-----------------------------------------------------------------------------
(* Amplitudes.                                                             *)

\* Filtering at the noise floor of a quantile discards at most that share of
\* the pulses, and a pulse above the floor can be as large as it likes without
\* moving it (EstimateNoiseFloor: a few large pulses do not raise the
\* threshold); a quantile out of range is the least or the largest amplitude,
\* and the half quantile is not above the median.
NoiseFloorRobust ==
    subject.kind = "amplitudes" /\ subject.amps # <<>> =>
        LET amps == subject.amps
            stats == Summarize(amps)
            floor(quantile) == EstimateNoiseFloor(amps, quantile)
        IN  /\ \A quantile \in {0, 10, 25, 50, 90, 100} :
                  /\ 100 * Cardinality(ClassifyBackground(amps, floor(quantile)))
                        <= quantile * Len(amps)
                  /\ \A i \in DOMAIN amps :
                        amps[i] > floor(quantile) =>
                            EstimateNoiseFloor([amps EXCEPT ![i] = @ + 100], quantile)
                                = floor(quantile)
            /\ floor(-10) = stats.min /\ floor(150) = stats.max
            /\ 2 * floor(50) <= stats.median
=============================================================================
