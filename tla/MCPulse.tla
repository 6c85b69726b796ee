------------------------------ MODULE MCPulse ------------------------------
(***************************************************************************)
(* PulseService for TLC.  Channel 0 has three alike pulses at equal        *)
(* distances (a periodic run), channel 1 sees the first of them 31 ns      *)
(* later and weaker, and one pulse is submitted again with another time    *)
(* and amplitude.  One reference has its zero after the first pulses.      *)
(***************************************************************************)
EXTENDS PulseService

Pulse(ch, seq, time, amp) == [ch |-> ch, seq |-> seq, time |-> time, amp |-> amp]

a0 == Pulse(0, 0, 100, 10)
a1 == Pulse(0, 1, 10100, 10)
a2 == Pulse(0, 2, 20100, 10)
b0 == Pulse(1, 0, 131, 4)
again == Pulse(0, 0, 700, 20)

\* For two handlers on two channels.
PairArrivals == {a0, a1, b0}
PairBatches == {<<a0, a1>>, <<b0>>}

\* For one handler, a periodic run and a resubmission.
RunArrivals == {a0, a1, a2, b0, again}
RunBatches == {<<a0, a1, a2>>, <<b0, again>>}

MCReferences == {[zero |-> 0, period |-> 400], [zero |-> 400, period |-> 400]}
OneReference == {[zero |-> 400, period |-> 400]}

Symmetry == Permutations(Handlers)
=============================================================================
