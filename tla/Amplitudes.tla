----------------------------- MODULE Amplitudes -----------------------------
(***************************************************************************)
(* internal/pulse/background.go: statistics of amplitudes (integers in     *)
(* mV, in a sequence) and the background threshold.  Medians are doubled   *)
(* and quantiles are in percent.                                           *)
(***************************************************************************)
EXTENDS PhaseAlign

\* Mutant: the place in the sorted amplitudes is rounded up.
RankUp(quantile, n) == (quantile * (n - 1) + 99) \div 100

Rank(quantile, n) == (quantile * (n - 1)) \div 100

\* A quantile outside 0..100 is moved to the nearer end.
EstimateNoiseFloor(amps, quantile) ==
    IF amps = <<>> THEN 0
    ELSE KthSmallest(amps, 1 + Rank(Max({0, Min({100, quantile})}), Cardinality(DOMAIN amps)))

IsBackground(amp, threshold) == amp < threshold

\* The pulses, by their place in the list.
ClassifyBackground(amps, threshold) == {i \in DOMAIN amps : IsBackground(amps[i], threshold)}

MedianAmplitude(amps) == IF amps = <<>> THEN 0 ELSE Median(amps)

Summarize(amps) ==
    LET values == {amps[i] : i \in DOMAIN amps}
    IN  IF amps = <<>>
        THEN [count |-> 0, min |-> 0, max |-> 0, sum |-> 0, median |-> 0]
        ELSE [count |-> Cardinality(DOMAIN amps), min |-> Min(values), max |-> Max(values),
              sum |-> MapThenSumSet(LAMBDA i : amps[i], DOMAIN amps),
              median |-> MedianAmplitude(amps)]
=============================================================================
