----------------------------- MODULE PhaseAlign -----------------------------
(***************************************************************************)
(* internal/phase: where in the mains cycle a pulse lies, and how much     *)
(* later than the reference channel each channel sees a discharge.  Times  *)
(* are integers in ns, as in the code; a delay is the median of integers,  *)
(* so it is kept doubled and stays an integer.  An angle is represented by *)
(* the remainder of the division by the period (0..period-1 for 0..360):   *)
(* the rounding of the division in floating point is left out.             *)
(***************************************************************************)
EXTENDS Integers, FiniteSets, FiniteSetsExt

\* math.Round of half of x: halves are rounded away from zero.
RoundHalf(x) == IF x >= 0 THEN (x + 1) \div 2 ELSE -((1 - x) \div 2)

CompensateDelay(time, delay) == time - RoundHalf(delay)

\* Mutant: math.Mod in place of the floor: the remainder has the sign of dt.
AlignTruncated(time, ref) ==
    LET dt == time - ref.zero
    IN  IF dt >= 0 THEN dt % ref.period ELSE -((-dt) % ref.period)

Align(time, ref) == (time - ref.zero) % ref.period

\* The k-th smallest of the values of f, repetitions counted.
KthSmallest(f, k) ==
    CHOOSE v \in {f[d] : d \in DOMAIN f} :
        /\ Cardinality({d \in DOMAIN f : f[d] < v}) < k
        /\ k <= Cardinality({d \in DOMAIN f : f[d] <= v})

\* Mutant: the mean, which an outlier moves.
MeanTwice(f) == (2 * MapThenSumSet(LAMBDA d : f[d], DOMAIN f)) \div Cardinality(DOMAIN f)

\* Twice the median of the values of f.
Median(f) ==
    LET n == Cardinality(DOMAIN f)
        mid == n \div 2
    IN  IF n % 2 = 0
        THEN KthSmallest(f, mid) + KthSmallest(f, mid + 1)
        ELSE 2 * KthSmallest(f, mid + 1)

\* Stamps are a function from <<channel, seq>> to time; pulses of one sequence
\* number are one discharge.  A channel that shares no discharge with the
\* reference channel gets no delay.
Estimate(refChannel, stamps) ==
    LET shared(ch) == {n \in {k[2] : k \in DOMAIN stamps} :
                          {<<ch, n>>, <<refChannel, n>>} \subseteq DOMAIN stamps}
        others == {k[1] : k \in DOMAIN stamps} \ {refChannel}
        diffs(ch) == [n \in shared(ch) |-> stamps[<<ch, n>>] - stamps[<<refChannel, n>>]]
    IN  [ch \in {refChannel} \cup {c \in others : shared(c) # {}} |->
            IF ch = refChannel THEN 0 ELSE Median(diffs(ch))]

\* Mutant: the delays are stored, and not used.
DelayOfNone(delays, ch) == 0

\* delays[ch] of a Go map: 0 for a channel that is not in it.
DelayOf(delays, ch) == IF ch \in DOMAIN delays THEN delays[ch] ELSE 0
=============================================================================
