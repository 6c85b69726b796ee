---------------------------- MODULE MCAlgorithms ----------------------------
(***************************************************************************)
(* Algorithms for TLC: inputs that reach every case of the functions.      *)
(***************************************************************************)
EXTENDS Algorithms

\* One pulse, and three alike or higher, so that half cycles can be in balance
\* and amplitudes near, far and above the floating threshold.
MCBursts == {[count |-> 1, amp |-> 10], [count |-> 3, amp |-> 12], [count |-> 4, amp |-> 60]}

MCMergeGaps == {0, 3, 10}

MCMergePercents == {20, 90}

MCCenters == {1, 4, 6, 9, 13, 17, 19}

\* 5900 is a period and a jitter within the tolerance; 0 repeats a time.
MCGaps == {0, 900, 5000, 5900}

MCChannelAmps == {10, 11, 20}

MCLags == {40, 41, 900, -700, NoStamp}

MCEdges == {0, 4, 9, 15, 20}

MCAmps == {1, 2, 10, 50}
=============================================================================
