---------------------------- MODULE Periodicity ----------------------------
(***************************************************************************)
(* internal/pulse/dedup.go: which pulses of one channel are periodic       *)
(* interference, with the three parameters ApplyDedup passes.  A pulse is  *)
(* a record with a time (ns) and an amplitude (mV); amplitudes are         *)
(* integers, so that the 15% tolerance is exact.                           *)
(***************************************************************************)
EXTENDS Integers, Sequences, FiniteSets, FiniteSetsExt

MinCount == 3
IntervalTolerance == 1000

Distance(a, b) == IF a >= b THEN a - b ELSE b - a

\* |a - b| <= 0.15 * max(a, b), for amplitudes that are not negative.
Near(a, b) == 100 * Distance(a, b) <= 15 * Max({a, b})

\* The first two pulses of a run give its period.  A pair that is not apart
\* in time, or not alike, moves the start to the second of the two; the loop
\* then steps past it.
PairRejected(s, i) == s[i + 1].time <= s[i].time \/ ~Near(s[i].amp, s[i + 1].amp)

\* Pulse j lies on a multiple of the period that i and i + 1 give.
OnGrid(s, i, j) ==
    LET period == s[i + 1].time - s[i].time
        dt == s[j].time - s[i].time
        nearest == (2 * dt + period) \div (2 * period)
    IN  \/ nearest < 1
        \/ /\ Distance(dt, nearest * period) <= IntervalTolerance
           /\ Near(s[i].amp, s[j].amp)

\* The first index past the run that starts at i.
RunStop(s, i) == Min({j \in i + 2 .. Len(s) : ~OnGrid(s, i, j)} \cup {Len(s) + 1})

\* Mutant: one pulse more is asked for.
LongerRun(length) == length > MinCount

LongRun(length) == length >= MinCount

\* The indexes of the pulses of the time-sorted sequence s that are marked.
DetectInChannel(s) ==
    LET n == Len(s)
        marked[i \in 1 .. n + 2] ==
            IF i >= n THEN {}
            ELSE IF PairRejected(s, i) THEN marked[i + 2]
            ELSE IF LongRun(RunStop(s, i) - i)
                 THEN (i .. RunStop(s, i) - 1) \cup marked[RunStop(s, i)]
                 ELSE marked[i + 1]
    IN  IF n < MinCount THEN {} ELSE marked[1]
=============================================================================
