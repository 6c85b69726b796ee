-------------------------- MODULE AlgorithmsProofs --------------------------
(***************************************************************************)
(* The estimate of delays for any number of discharges and any lags: the   *)
(* median of the differences is the true lag when more than half have it.  *)
(***************************************************************************)
EXTENDS Algorithms, PhaseAlignProofs, PhaseClustersProofs, SequenceTheorems

-----------------------------------------------------------------------------
(* The stamps of two channels.                                             *)

\* The discharges that both channels have seen.
Shared(lags) == {n \in DOMAIN lags : lags[n] # NoStamp}

LEMMA Stamps ==
    ASSUME NEW lags \in Seq(Lags)
    PROVE  /\ \A ch, n : <<ch, n>> \in DOMAIN StampsOf(lags) <=>
                             \/ ch = 0 /\ n \in DOMAIN lags
                             \/ ch = 1 /\ n \in Shared(lags)
           /\ \A n \in DOMAIN lags : StampsOf(lags)[<<0, n>>] = 10000 * n
           /\ \A n \in Shared(lags) : StampsOf(lags)[<<1, n>>] = 10000 * n + lags[n]
<1> DEFINE keys == {<<0, n>> : n \in DOMAIN lags} \cup {<<1, n>> : n \in Shared(lags)}
<1>1. StampsOf(lags) =
          [key \in keys |-> 10000 * key[2] + IF key[1] = 0 THEN 0 ELSE lags[key[2]]]
    BY DEF StampsOf, Shared
<1>2. DOMAIN lags \subseteq Nat /\ Shared(lags) \subseteq DOMAIN lags
    BY LenProperties DEF Shared
<1>3. \A ch, n : <<ch, n>> \in keys <=> \/ ch = 0 /\ n \in DOMAIN lags
                                        \/ ch = 1 /\ n \in Shared(lags)
    OBVIOUS
<1>4. ASSUME NEW n \in DOMAIN lags
      PROVE  StampsOf(lags)[<<0, n>>] = 10000 * n
    <2>1. <<0, n>> \in keys /\ 10000 * n \in Int
        BY <1>2
    <2>2. QED
        BY <1>1, <2>1
<1>5. ASSUME NEW n \in Shared(lags)
      PROVE  StampsOf(lags)[<<1, n>>] = 10000 * n + lags[n]
    <2>1. <<1, n>> \in keys
        OBVIOUS
    <2>2. QED
        BY <1>1, <2>1
<1>6. QED
    BY <1>1, <1>3, <1>4, <1>5

\* What the second channel is late by is what was lost in the stamps.
LEMMA Differences ==
    ASSUME NEW lags \in Seq(Lags)
    PROVE  /\ SharedWith(0, StampsOf(lags), 1) = Shared(lags)
           /\ DiffsOf(0, StampsOf(lags), 1) = [n \in Shared(lags) |-> lags[n]]
           /\ Numbers([n \in Shared(lags) |-> lags[n]])
<1> DEFINE stamps == StampsOf(lags)
<1>1. /\ DOMAIN lags = 1 .. Len(lags) /\ Len(lags) \in Nat
      /\ Shared(lags) \in SUBSET (DOMAIN lags)
    BY LenProperties DEF Shared
<1>2. \A n \in Shared(lags) : lags[n] \in Int /\ 10000 * n \in Int
    BY <1>1, ElementOfSeq, LagsAssumption DEF Shared
<1>3. SharedWith(0, stamps, 1) = Shared(lags)
    <2>1. ASSUME NEW n
          PROVE  {<<1, n>>, <<0, n>>} \subseteq DOMAIN stamps <=> n \in Shared(lags)
        BY Stamps, <1>1
    <2>2. ASSUME NEW n \in Shared(lags)
          PROVE  n \in {k[2] : k \in DOMAIN stamps}
        <3>1. <<1, n>> \in DOMAIN stamps
            BY Stamps
        <3>2. QED
            BY <3>1
    <2>3. QED
        BY <2>1, <2>2 DEF SharedWith
<1>4. ASSUME NEW n \in Shared(lags)
      PROVE  stamps[<<1, n>>] - stamps[<<0, n>>] = lags[n]
    <2>1. stamps[<<1, n>>] = 10000 * n + lags[n] /\ stamps[<<0, n>>] = 10000 * n
        BY Stamps, <1>1
    <2>2. QED
        BY <1>1, <1>2, <2>1
<1>5. DiffsOf(0, stamps, 1) = [n \in Shared(lags) |-> lags[n]]
    BY <1>3, <1>4 DEF DiffsOf
<1>6. IsFiniteSet(Shared(lags))
    <2>1. IsFiniteSet(1 .. Len(lags))
        BY <1>1, FS_Interval
    <2>2. QED
        BY <1>1, <2>1, FS_Subset
<1>7. QED
    BY <1>2, <1>3, <1>5, <1>6 DEF Numbers

\* The estimate of the second channel.
LEMMA EstimateOfMajority ==
    ASSUME NEW lags \in Seq(Lags),
           2 * Cardinality({n \in Shared(lags) : lags[n] = TrueLag}) > Cardinality(Shared(lags))
    PROVE  DelayOf(Estimate(0, StampsOf(lags)), 1) = 2 * TrueLag
<1> DEFINE stamps == StampsOf(lags)
           late == [n \in Shared(lags) |-> lags[n]]
           others == {k[1] : k \in DOMAIN stamps} \ {0}
           given == {0} \cup {c \in others : SharedWith(0, stamps, c) # {}}
<1>1. Estimate(0, stamps) =
          [ch \in given |-> IF ch = 0 THEN 0 ELSE Median(DiffsOf(0, stamps, ch))]
    BY DEF Estimate, SharedWith, DiffsOf
<1>2. Numbers(late) /\ DiffsOf(0, stamps, 1) = late /\ DOMAIN late = Shared(lags)
    BY Differences
<1>3. {n \in DOMAIN late : late[n] = TrueLag} = {n \in Shared(lags) : lags[n] = TrueLag}
    OBVIOUS
<1>4. Median(late) = 2 * TrueLag
    <2> HIDE DEF late
    <2>1. 2 * Cardinality({n \in DOMAIN late : late[n] = TrueLag}) > Cardinality(DOMAIN late)
        BY <1>2, <1>3
    <2>2. QED
        BY <1>2, <2>1, MedianOfMajority, LagsAssumption
<1>5. 1 \in given
    <2>1. Shared(lags) # {}
        <3>1. SUFFICES ASSUME Shared(lags) = {}
                       PROVE  FALSE
            OBVIOUS
        <3>2. {n \in Shared(lags) : lags[n] = TrueLag} = {}
            BY <3>1
        <3>3. Cardinality({n \in Shared(lags) : lags[n] = TrueLag}) = 0
              /\ Cardinality(Shared(lags)) = 0
            BY <3>1, <3>2, FS_EmptySet
        <3>4. QED
            BY <3>3
    <2>2. SharedWith(0, stamps, 1) # {}
        BY <2>1, Differences
    <2>3. PICK n : <<1, n>> \in DOMAIN stamps
        BY <2>2 DEF SharedWith
    <2>4. 1 \in others
        BY <2>3
    <2>5. QED
        BY <2>2, <2>4
<1>6. QED
    BY <1>1, <1>2, <1>4, <1>5 DEF DelayOf

LEMMA CompensationRestores ==
    ASSUME NEW time \in Int, NEW lag \in Int, NEW ref
    PROVE  Align(CompensateDelay(time + lag, 2 * lag), ref) = Align(time, ref)
<1>1. RoundHalf(2 * lag) = lag
    BY RoundHalfType
<1>2. CompensateDelay(time + lag, 2 * lag) = time
    BY <1>1 DEF CompensateDelay
<1>3. QED
    BY <1>2

-----------------------------------------------------------------------------
(* The inputs.                                                             *)

LagsShaped(s) == s = [kind |-> "delay", lags |-> s.lags] /\ s.lags \in Seq(Lags)

PulsesShaped(s) ==
    /\ s = [kind |-> "pulses", pulses |-> s.pulses, bursts |-> s.bursts, next |-> s.next]
    /\ s.pulses \in PulseLists /\ s.bursts \in Nat /\ s.next \in Nat

SpectrumShaped(s) == s.pulses \in PulseLists /\ s.spectrum = BuildPRPD(s.pulses)

ClustersShaped(s) == SpectrumShaped(s) /\ s.clusters = Extract(s.spectrum)

MergedShaped(s) ==
    /\ s.pulses \in PulseLists
    /\ Covers(s.clusters, s.pulses)
    /\ Settled(s.clusters, s.maxGap, s.percent)

MatchingShaped(s) ==
    /\ s = [kind |-> "matching", prev |-> s.prev, curr |-> s.curr]
    /\ s.prev \in Seq(CenterPlaces) /\ s.curr \in Seq(CenterPlaces)

\* Pulses of a channel come in the order of their times.
ByTime(s) ==
    /\ s \in Seq([time : Nat, amp : Nat])
    /\ \A i, j \in 1 .. Len(s) : i <= j => s[i].time <= s[j].time

ChannelShaped(s) ==
    /\ s = [kind |-> "channel", pulses |-> s.pulses]
    /\ ByTime(s.pulses)

WindowsShaped(s) ==
    /\ s = [kind |-> "windows", windows |-> s.windows]
    /\ s.windows \in Seq([from : Edges, to : Edges])

AmplitudesShaped(s) == s = [kind |-> "amplitudes", amps |-> s.amps] /\ s.amps \in Seq(Amps)

\* What is handed on is the result of the functions before, for the same pulses.
Shaped ==
    /\ "kind" \in DOMAIN subject
    /\ subject.kind = "delay" => LagsShaped(subject)
    /\ subject.kind = "pulses" => PulsesShaped(subject)
    /\ subject.kind = "spectrum" => SpectrumShaped(subject)
    /\ subject.kind = "clusters" => ClustersShaped(subject)
    /\ subject.kind = "merged" => MergedShaped(subject)
    /\ subject.kind = "matching" => MatchingShaped(subject)
    /\ subject.kind = "channel" => ChannelShaped(subject)
    /\ subject.kind = "windows" => WindowsShaped(subject)
    /\ subject.kind = "amplitudes" => AmplitudesShaped(subject)

LEMMA PulseAppended ==
    ASSUME NEW s, ByTime(s), NEW gap \in Nat, NEW amp \in Nat,
           NEW t, t = Append(s, [time |-> IF s = << >> THEN 0 ELSE Last(s).time + gap, amp |-> amp])
    PROVE  ByTime(t)
<1>1. PICK n \in Nat : n = Len(s) /\ DOMAIN s = 1 .. n /\ (s = << >> <=> n = 0)
    BY LenProperties, EmptySeq DEF ByTime
<1>2. /\ s \in Seq([time : Nat, amp : Nat]) /\ \A i, j \in 1 .. n : i <= j => s[i].time <= s[j].time
      /\ \A i \in 1 .. n : s[i].time \in Nat
    <2>1. s \in Seq([time : Nat, amp : Nat]) /\ \A i, j \in 1 .. n : i <= j => s[i].time <= s[j].time
        BY <1>1 DEF ByTime
    <2>2. \A i \in 1 .. n : s[i] \in [time : Nat, amp : Nat]
        BY <1>1, <2>1, ElementOfSeq
    <2>3. QED
        BY <2>1, <2>2
<1>3. PICK time \in Nat : /\ time = (IF s = << >> THEN 0 ELSE Last(s).time + gap)
                          /\ \A i \in 1 .. n : s[i].time <= time
    <2>1. CASE n = 0
        BY <1>1, <2>1
    <2>2. CASE n # 0
        <3>1. n \in 1 .. n /\ Last(s) = s[n] /\ s # << >>
            BY <1>1, <2>2 DEF Last
        <3>2. PICK last \in Nat : last = s[n].time
            BY <1>2, <3>1
        <3>3. \A i \in 1 .. n : s[i].time \in Nat /\ s[i].time <= last
            BY <1>2, <3>1, <3>2
        <3>4. last + gap \in Nat /\ \A i \in 1 .. n : s[i].time <= last + gap
            BY <3>2, <3>3
        <3>5. QED
            BY <3>1, <3>2, <3>4
    <2>3. QED
        BY <2>1, <2>2
<1>4. PICK p : p = [time |-> time, amp |-> amp] /\ p \in [time : Nat, amp : Nat] /\ p.time = time
    BY <1>3
<1>5. /\ t \in Seq([time : Nat, amp : Nat]) /\ Len(t) = n + 1
      /\ \A i \in 1 .. n : t[i] = s[i]
      /\ t[n + 1] = p
    BY <1>1, <1>2, <1>3, <1>4, AppendProperties
<1>6. ASSUME NEW i \in 1 .. n + 1, NEW j \in 1 .. n + 1, i <= j
      PROVE  t[i].time <= t[j].time
    <2>1. CASE j = n + 1 /\ i = n + 1
        BY <1>4, <1>5, <2>1
    <2>2. CASE j = n + 1 /\ i # n + 1
        <3>1. i \in 1 .. n
            BY <2>2
        <3>2. QED
            BY <1>3, <1>4, <1>5, <2>2, <3>1
    <2>3. CASE j # n + 1
        <3>1. i \in 1 .. n /\ j \in 1 .. n
            BY <1>6, <2>3
        <3>2. QED
            BY <1>2, <1>5, <1>6, <3>1
    <2>4. QED
        BY <2>1, <2>2, <2>3
<1>7. QED
    BY <1>5, <1>6 DEF ByTime

LEMMA InitShaped == Init => Shaped
<1> SUFFICES ASSUME Init
             PROVE  Shaped
    OBVIOUS
<1>1. \A S : <<>> \in Seq(S)
    BY EmptySeq
<1>2. CASE subject = [kind |-> "delay", lags |-> <<>>]
    BY <1>1, <1>2 DEF Shaped, LagsShaped
<1>3. CASE subject = [kind |-> "pulses", pulses |-> <<>>, bursts |-> 0, next |-> 0]
    BY <1>1, <1>3 DEF Shaped, PulsesShaped, PulseLists
<1>4. CASE subject = [kind |-> "matching", prev |-> <<>>, curr |-> <<>>]
    BY <1>1, <1>4 DEF Shaped, MatchingShaped
<1>5. CASE subject = [kind |-> "windows", windows |-> <<>>]
    BY <1>1, <1>5 DEF Shaped, WindowsShaped
<1>6. CASE subject = [kind |-> "amplitudes", amps |-> <<>>]
    BY <1>1, <1>6 DEF Shaped, AmplitudesShaped
<1>7. CASE subject = [kind |-> "channel", pulses |-> <<>>]
    <2>1. Len(<< >>) = 0 /\ << >> \in Seq([time : Nat, amp : Nat])
        OBVIOUS
    <2>2. ByTime(<< >>)
        BY <2>1 DEF ByTime
    <2>3. QED
        BY <1>7, <2>2 DEF Shaped, ChannelShaped
<1>8. QED
    BY <1>2, <1>3, <1>4, <1>5, <1>6, <1>7 DEF Init

\* The pulses of a burst.
LEMMA BurstIs ==
    ASSUME NEW b \in 0 .. Bins - 1, NEW burst \in Bursts
    PROVE  [k \in 1 .. burst.count |-> [phase |-> 2 * b + 1, amp |-> burst.amp]] \in PulseLists
<1>1. PICK count \in Nat, amp \in Nat : count = burst.count /\ amp = burst.amp
    <2>1. burst \in [count : Nat, amp : Nat]
        BY InputsAssumption
    <2>2. burst.count \in Nat /\ burst.amp \in Nat
        BY <2>1
    <2>3. QED
        BY <2>2
<1>2. 2 * b + 1 \in 0 .. Circle - 1
    BY BinsAssumption DEF Circle
<1>3. PICK p : p = [phase |-> 2 * b + 1, amp |-> amp]
    OBVIOUS
<1>4. p \in PulseShapes
    BY <1>2, <1>3 DEF PulseShapes
<1>5. [k \in 1 .. count |-> p] \in [1 .. count -> PulseShapes]
    BY <1>4
<1>6. [k \in 1 .. count |-> p] \in Seq(PulseShapes)
    BY <1>5
<1>7. QED
    BY <1>1, <1>3, <1>6 DEF PulseLists

LEMMA StepShaped ==
    ASSUME Shaped, [Next]_subject
    PROVE  Shaped'
<1>1. CASE AddDischarge
    <2>1. PICK lag \in Lags : subject' = [subject EXCEPT !.lags = Append(@, lag)]
        BY <1>1 DEF AddDischarge
    <2>2. PICK lags \in Seq(Lags) : subject = [kind |-> "delay", lags |-> lags]
        BY <1>1 DEF AddDischarge, Shaped, LagsShaped
    <2>3. subject' = [kind |-> "delay", lags |-> Append(lags, lag)]
        BY <2>1, <2>2
    <2>4. Append(lags, lag) \in Seq(Lags)
        BY AppendProperties
    <2>5. QED
        BY <2>3, <2>4 DEF Shaped, LagsShaped
<1>2. CASE AddBurst
    <2>1. PICK b \in subject.next .. Bins - 1, burst \in Bursts :
              subject' = [subject EXCEPT
                  !.pulses = @ \o [k \in 1 .. burst.count |-> [phase |-> 2 * b + 1, amp |-> burst.amp]],
                  !.bursts = @ + 1, !.next = b + 1]
        BY <1>2 DEF AddBurst
    <2>2. PICK pulses \in PulseLists, bursts \in Nat, next \in Nat :
              subject = [kind |-> "pulses", pulses |-> pulses, bursts |-> bursts, next |-> next]
        BY <1>2 DEF AddBurst, Shaped, PulsesShaped
    <2>3. PICK more : more = [k \in 1 .. burst.count |-> [phase |-> 2 * b + 1, amp |-> burst.amp]]
        OBVIOUS
    <2>4. b \in 0 .. Bins - 1 /\ b + 1 \in Nat
        BY <2>2, BinsAssumption
    <2>5. pulses \o more \in PulseLists
        <3>1. more \in PulseLists
            BY <2>3, <2>4, BurstIs
        <3>2. QED
            BY <3>1, ConcatProperties DEF PulseLists
    <2>6. PICK all, number, after :
              all = pulses \o more /\ (number = bursts + 1) /\ (after = b + 1) /\ number \in Nat
        <3>1. bursts + 1 \in Nat
            BY <2>2
        <3>2. QED
            BY <3>1, Zenon
    <2>7. subject' = [kind |-> "pulses", pulses |-> all, bursts |-> number, next |-> after]
        BY <2>1, <2>2, <2>3, <2>6
    <2>8. QED
        BY <2>4, <2>5, <2>6, <2>7 DEF Shaped, PulsesShaped
<1>3. CASE Build
    <2>1. PICK pulses \in PulseLists :
              subject' = [kind |-> "spectrum", pulses |-> pulses, spectrum |-> BuildPRPD(pulses)]
        BY <1>3 DEF Build, Shaped, PulsesShaped
    <2>2. QED
        BY <2>1 DEF Shaped, SpectrumShaped
<1>4. CASE ExtractClusters
    <2>1. PICK pulses, spectrum :
              /\ pulses \in PulseLists
              /\ spectrum = BuildPRPD(pulses)
              /\ subject' = [kind |-> "clusters", pulses |-> pulses,
                             spectrum |-> spectrum, clusters |-> Extract(spectrum)]
        BY <1>4 DEF ExtractClusters, Shaped, SpectrumShaped
    <2>2. QED
        BY <2>1 DEF Shaped, ClustersShaped, SpectrumShaped
<1>5. CASE MergeClusters
    <2>1. PICK pulses, cs :
              /\ pulses \in PulseLists
              /\ pulses = subject.pulses /\ cs = subject.clusters /\ Covers(cs, pulses)
        BY <1>5, ExtractCovers DEF MergeClusters, Shaped, ClustersShaped, SpectrumShaped
    <2>2. PICK maxGap, percent :
              subject' = [kind |-> "merged", pulses |-> pulses,
                          maxGap |-> maxGap, percent |-> percent,
                          clusters |-> MergeAll(cs, maxGap, percent)]
        BY <1>5, <2>1 DEF MergeClusters
    <2>3. PICK all : all = MergeAll(cs, maxGap, percent)
        OBVIOUS
    <2>4. Covers(all, pulses) /\ Settled(all, maxGap, percent)
        BY <2>1, <2>3, MergeAllCovers
    <2>5. QED
        BY <2>1, <2>2, <2>3, <2>4 DEF Shaped, MergedShaped
<1>6. CASE AddCenter
    <2>1. PICK side \in {"prev", "curr"}, c \in CenterPlaces :
              subject' = [subject EXCEPT ![side] = Append(@, c)]
        BY <1>6 DEF AddCenter
    <2>2. PICK prev \in Seq(CenterPlaces), curr \in Seq(CenterPlaces) :
              subject = [kind |-> "matching", prev |-> prev, curr |-> curr]
        BY <1>6 DEF AddCenter, Shaped, MatchingShaped
    <2>3. PICK more \in Seq(CenterPlaces), others \in Seq(CenterPlaces) :
              more = Append(prev, c) /\ others = Append(curr, c)
        BY AppendProperties
    <2>4. CASE side = "prev"
        <3>1. subject' = [kind |-> "matching", prev |-> more, curr |-> curr]
            BY <2>1, <2>2, <2>3, <2>4
        <3>2. QED
            BY <3>1 DEF Shaped, MatchingShaped
    <2>5. CASE side = "curr"
        <3>1. subject' = [kind |-> "matching", prev |-> prev, curr |-> others]
            BY <2>1, <2>2, <2>3, <2>5
        <3>2. QED
            BY <3>1 DEF Shaped, MatchingShaped
    <2>6. QED
        BY <2>4, <2>5
<1>7. CASE AddPulse
    <2>1. PICK s : subject = [kind |-> "channel", pulses |-> s] /\ ByTime(s)
        BY <1>7 DEF AddPulse, Shaped, ChannelShaped
    <2>2. PICK gap \in Gaps, amp \in ChannelAmps :
              subject' = [subject EXCEPT !.pulses =
                             Append(@, [time |-> IF s = << >> THEN 0 ELSE Last(s).time + gap,
                                        amp |-> amp])]
        BY <1>7, <2>1 DEF AddPulse
    <2>3. PICK t : t = Append(s, [time |-> IF s = << >> THEN 0 ELSE Last(s).time + gap, amp |-> amp])
        OBVIOUS
    <2>4. ByTime(t)
        BY <2>1, <2>3, PulseAppended, InputsAssumption
    <2>5. subject' = [kind |-> "channel", pulses |-> t]
        BY <2>1, <2>2, <2>3
    <2>6. QED
        BY <2>4, <2>5 DEF Shaped, ChannelShaped
<1>8. CASE AddWindow
    <2>1. PICK from \in Edges, to \in Edges :
              subject' = [subject EXCEPT !.windows = Append(@, [from |-> from, to |-> to])]
        BY <1>8 DEF AddWindow
    <2>2. PICK w \in [from : Edges, to : Edges] : w = [from |-> from, to |-> to]
        OBVIOUS
    <2>3. PICK windows \in Seq([from : Edges, to : Edges]) :
              subject = [kind |-> "windows", windows |-> windows]
        BY <1>8 DEF AddWindow, Shaped, WindowsShaped
    <2>4. PICK more : more = Append(windows, w)
        OBVIOUS
    <2>5. subject' = [kind |-> "windows", windows |-> more]
        BY <2>1, <2>2, <2>3, <2>4
    <2>6. more \in Seq([from : Edges, to : Edges])
        BY <2>4, AppendProperties
    <2>7. QED
        BY <2>5, <2>6 DEF Shaped, WindowsShaped
<1>9. CASE AddAmplitude
    <2>1. PICK amp \in Amps : subject' = [subject EXCEPT !.amps = Append(@, amp)]
        BY <1>9 DEF AddAmplitude
    <2>2. PICK amps \in Seq(Amps) : subject = [kind |-> "amplitudes", amps |-> amps]
        BY <1>9 DEF AddAmplitude, Shaped, AmplitudesShaped
    <2>3. subject' = [kind |-> "amplitudes", amps |-> Append(amps, amp)]
        BY <2>1, <2>2
    <2>4. Append(amps, amp) \in Seq(Amps)
        BY AppendProperties
    <2>5. QED
        BY <2>3, <2>4 DEF Shaped, AmplitudesShaped
<1>10. CASE UNCHANGED subject
    BY <1>10 DEF Shaped
<1>11. QED
    BY <1>1, <1>2, <1>3, <1>4, <1>5, <1>6, <1>7, <1>8, <1>9, <1>10 DEF Next

LEMMA ShapedHolds == Spec => []Shaped
BY InitShaped, StepShaped, PTL DEF Spec

-----------------------------------------------------------------------------
\* However many discharges there are, and however far off the late ones: when
\* more than half of those that both channels have seen are late by one delay,
\* that delay is the estimate, and takes them to the phases of the reference.
THEOREM DelaysRobust == Spec => []DelayRobust
<1>1. Shaped => DelayRobust
    <2> SUFFICES ASSUME Shaped, subject.kind = "delay",
                        2 * Cardinality({n \in Shared(subject.lags) : subject.lags[n] = TrueLag})
                            > Cardinality(Shared(subject.lags))
                 PROVE  LET stamps == StampsOf(subject.lags)
                            delay == DelayOf(Estimate(0, stamps), 1)
                        IN  /\ delay = 2 * TrueLag
                            /\ \A n \in Shared(subject.lags) :
                                  subject.lags[n] = TrueLag =>
                                      Align(CompensateDelay(stamps[<<1, n>>], delay), MainsReference)
                                          = Align(stamps[<<0, n>>], MainsReference)
        BY DEF DelayRobust, Shared
    <2> DEFINE lags == subject.lags
               stamps == StampsOf(lags)
               delay == DelayOf(Estimate(0, stamps), 1)
    <2>1. lags \in Seq(Lags)
        BY DEF Shaped, LagsShaped
    <2>2. delay = 2 * TrueLag
        BY <2>1, EstimateOfMajority
    <2>3. ASSUME NEW n \in Shared(lags), lags[n] = TrueLag
          PROVE  Align(CompensateDelay(stamps[<<1, n>>], delay), MainsReference)
                     = Align(stamps[<<0, n>>], MainsReference)
        <3>1. n \in DOMAIN lags /\ 10000 * n \in Int
            BY <2>1, LenProperties DEF Shared
        <3>2. stamps[<<1, n>>] = 10000 * n + TrueLag /\ stamps[<<0, n>>] = 10000 * n
            BY <2>1, <2>3, <3>1, Stamps
        <3>3. QED
            BY <2>2, <3>1, <3>2, CompensationRestores, LagsAssumption
    <2>4. QED
        BY <2>2, <2>3
<1>2. QED
    BY <1>1, ShapedHolds, PTL

-----------------------------------------------------------------------------
(* Clusters.                                                               *)

\* Clusters that cover the pulses partition them.
LEMMA CoversPartitions ==
    ASSUME NEW pulses \in PulseLists, NEW cs, Covers(cs, pulses)
    PROVE  Partitions(cs, pulses)
<1>1. DOMAIN cs = 1 .. Len(cs) /\ Len(cs) \in Nat
    BY CoveredAre
<1>2. PulsesOf(cs) = Len(pulses)
    BY CoversCount DEF PulsesOf
<1>3. ASSUME NEW k \in DOMAIN cs
      PROVE  LET mine == {i \in DOMAIN pulses : pulses[i].phase \div 2 \in BinsOf(cs[k])}
             IN  /\ cs[k].count = Cardinality(mine)
                 /\ cs[k].sum = SumFunction([i \in mine |-> pulses[i].amp])
                 /\ cs[k].max = Max({pulses[i].amp : i \in mine})
                 /\ k > 1 => cs[k - 1].to <= cs[k].from
    <2> DEFINE mine == {i \in DOMAIN pulses : pulses[i].phase \div 2 \in BinsOf(cs[k])}
               amps == [i \in mine |-> pulses[i].amp]
    <2>1. mine = Mine(pulses, Span(cs[k]))
        BY PulsesAre DEF Mine, Grouped, Span, BinsOf
    <2>2. IsFiniteSet(mine) /\ mine \subseteq DOMAIN pulses
        BY <2>1, MineFinite
    <2>3. /\ cs[k].count = Cardinality(mine) /\ cs[k].count \in Nat \ {0}
          /\ cs[k].sum = SumFunctionOnSet(AmpsIn(pulses), mine)
          /\ cs[k].max = Greatest(pulses, mine)
        <3> HIDE DEF mine
        <3>1. Gathers(cs[k], pulses) /\ cs[k] \in Shapes
            BY <1>1, CoveredAre
        <3>2. cs[k].count \in Nat \ {0}
            BY <3>1 DEF Shapes
        <3>3. QED
            BY <2>1, <3>1, <3>2 DEF Gathers
    <2>4. \A i \in mine : amps[i] = AmpsIn(pulses)[i]
        BY <2>2, PulsesAre
    <2>5. DOMAIN amps = mine
        OBVIOUS
    <2> HIDE DEF mine, amps
    <2>6. SumFunction(amps) = SumFunctionOnSet(AmpsIn(pulses), mine)
        BY <2>2, <2>4, <2>5, SumSame DEF SumFunction
    <2>7. mine # {}
        BY <2>3, FS_EmptySet
    <2>8. Max({pulses[i].amp : i \in mine}) = Greatest(pulses, mine)
        BY <2>2, <2>7, AmpsMax
    <2>9. k > 1 => cs[k - 1].to <= cs[k].from
        <3>1. SUFFICES ASSUME k > 1
                       PROVE  cs[k - 1].to <= cs[k].from
            OBVIOUS
        <3>2. k - 1 \in 1 .. Len(cs) /\ k - 1 < k
            BY <1>1, <3>1
        <3>3. QED
            BY <1>1, <3>2, CoveredAre
    <2>10. QED
        BY <2>3, <2>6, <2>8, <2>9 DEF mine, amps
<1>4. QED
    BY <1>2, <1>3 DEF Partitions

\* Every spectrum of any pulses is cut into clusters as Extract promises.
THEOREM Extracts == Spec => []ExtractPartitions
<1>1. Shaped => ExtractPartitions
    <2> SUFFICES ASSUME Shaped, subject.kind = "clusters"
                 PROVE  LET cs == subject.clusters
                            filled == {subject.pulses[i].phase \div 2 : i \in DOMAIN subject.pulses}
                        IN  /\ Partitions(cs, subject.pulses)
                            /\ \A k \in DOMAIN cs :
                                  /\ {cs[k].from, cs[k].to - 1} \subseteq filled
                                  /\ \A b \in BinsOf(cs[k]) : {b, b + 1} \cap filled # {}
                                  /\ k > 1 => cs[k].from - cs[k - 1].to > GapBins
        BY DEF ExtractPartitions
    <2>0. PICK pulses \in PulseLists :
              pulses = subject.pulses /\ subject.clusters = Extract(BuildPRPD(pulses))
        BY DEF Shaped, ClustersShaped, SpectrumShaped
    <2>1. PICK spectrum, cs :
              /\ pulses = subject.pulses /\ cs = subject.clusters
              /\ spectrum = BuildPRPD(pulses) /\ cs = Extract(spectrum)
        BY <2>0
    <2> DEFINE filled == {pulses[i].phase \div 2 : i \in DOMAIN pulses}
    <2>2. /\ Covers(cs, pulses)
          /\ \A k \in DOMAIN cs :
                /\ cs[k].from \in Active(spectrum) /\ cs[k].to - 1 \in Active(spectrum)
                /\ \A b \in Span(cs[k]) : b \in Active(spectrum) \/ b + 1 \in Active(spectrum)
          /\ \A j, k \in DOMAIN cs : j < k => cs[k].from - cs[j].to > GapBins
        BY <2>1, ExtractCovers
    <2>3. \A b : b \in Active(spectrum) <=> b \in filled
        <3>1. ASSUME NEW b
              PROVE  b \in Active(spectrum) <=> \E i \in DOMAIN pulses : BinsIn(pulses)[i] = b
            BY <2>1, ActiveIs
        <3>2. \A i \in DOMAIN pulses : BinsIn(pulses)[i] = pulses[i].phase \div 2
            BY PulsesAre
        <3>3. QED
            BY <3>1, <3>2
    <2>4. Partitions(cs, pulses)
        BY <2>2, CoversPartitions
    <2> HIDE DEF filled
    <2>5. ASSUME NEW k \in DOMAIN cs
          PROVE  /\ {cs[k].from, cs[k].to - 1} \subseteq filled
                 /\ \A b \in BinsOf(cs[k]) : {b, b + 1} \cap filled # {}
                 /\ k > 1 => cs[k].from - cs[k - 1].to > GapBins
        <3>1. cs[k].from \in filled /\ cs[k].to - 1 \in filled
            BY <2>2, <2>3
        <3>2. \A b \in BinsOf(cs[k]) : b \in filled \/ b + 1 \in filled
            BY <2>2, <2>3 DEF BinsOf, Span
        <3>3. k > 1 => k - 1 \in DOMAIN cs /\ k - 1 < k
            BY <2>2, CoveredAre
        <3>4. k > 1 => cs[k].from - cs[k - 1].to > GapBins
            BY <2>2, <3>3
        <3>5. QED
            BY <3>1, <3>2, <3>4
    <2>6. QED
        BY <2>1, <2>4, <2>5 DEF filled
<1>2. QED
    BY <1>1, ShapedHolds, PTL

\* Merging, with any gap and any tolerance, ends with clusters that partition
\* the pulses and of which no two neighbours can be merged.
THEOREM MergingSettles == Spec => []MergeAllSettles
<1>1. Shaped => MergeAllSettles
    <2> SUFFICES ASSUME Shaped, subject.kind = "merged"
                 PROVE  LET cs == subject.clusters
                        IN  /\ Partitions(cs, subject.pulses)
                            /\ \A k \in 2 .. Len(cs) :
                                  ~Mergeable(cs[k - 1], cs[k], subject.maxGap, subject.percent)
        BY DEF MergeAllSettles
    <2>0. PICK pulses \in PulseLists :
              /\ pulses = subject.pulses /\ Covers(subject.clusters, pulses)
              /\ Settled(subject.clusters, subject.maxGap, subject.percent)
        BY DEF Shaped, MergedShaped
    <2>1. PICK cs, maxGap, percent :
              /\ pulses = subject.pulses /\ cs = subject.clusters
              /\ maxGap = subject.maxGap /\ percent = subject.percent
              /\ Covers(cs, pulses) /\ Settled(cs, maxGap, percent)
        BY <2>0
    <2>2. Partitions(cs, pulses)
        BY <2>1, CoversPartitions
    <2>3. ASSUME NEW k \in 2 .. Len(cs)
          PROVE  ~Mergeable(cs[k - 1], cs[k], maxGap, percent)
        <3>1. Len(cs) \in Nat
            BY <2>1, CoveredAre
        <3>2. k - 1 \in 1 .. Len(cs) /\ k - 1 < Len(cs) /\ (k - 1) + 1 = k
            BY <3>1
        <3>3. QED
            BY <2>1, <3>2 DEF Settled
    <2>4. QED
        BY <2>1, <2>2, <2>3
<1>2. QED
    BY <1>1, ShapedHolds, PTL

\* What the bins of a spectrum count is the pulses in them.
LEMMA CountInIs ==
    ASSUME NEW pulses \in PulseLists, NEW bins, bins \subseteq 0 .. Bins - 1
    PROVE  CountIn(BuildPRPD(pulses), bins) = Cardinality(Mine(pulses, bins))
<1> DEFINE counts == [b \in bins |-> BuildPRPD(pulses)[b].count]
<1>1. IsFiniteSet(bins)
    <2>1. 0 \in Int /\ Bins - 1 \in Int
        BY BinsAssumption
    <2>2. QED
        BY <2>1, FS_Interval, FS_Subset
<1>2. ASSUME NEW b \in bins
      PROVE  counts[b] = Cardinality(Grouped(BinsIn(pulses), DOMAIN pulses, {b}))
    BY SpectrumIs DEF Mine
<1>3. DOMAIN counts = bins
    OBVIOUS
<1>4. CountIn(BuildPRPD(pulses), bins) = SumFunction(counts)
    BY DEF CountIn
<1> HIDE DEF counts
<1>5. SumFunctionOnSet(counts, bins) = Cardinality(Grouped(BinsIn(pulses), DOMAIN pulses, bins))
    <2>1. IsFiniteSet(DOMAIN pulses)
        BY PulsesAre
    <2>2. QED
        BY <1>1, <1>2, <2>1, GroupCounts
<1>6. QED
    BY <1>3, <1>4, <1>5 DEF SumFunction, Mine

\* A cluster that does not lie across 180 degrees has its centre on the side
\* of its bins.
LEMMA SideOf ==
    ASSUME NEW from \in Nat, NEW to \in Nat, NEW bin \in Nat, from <= bin, bin < to,
           2 * to <= Half \/ Half <= 2 * from
    PROVE  from + to < Half <=> 2 * bin + 1 < Half
<1>1. PICK half \in Nat : half = Half
    BY BinsAssumption DEF Half
<1>2. CASE 2 * to <= half
    <2>1. from + to < half /\ 2 * bin + 1 < half
        BY <1>2
    <2>2. QED
        BY <1>1, <2>1
<1>3. CASE half <= 2 * from
    <2>1. ~(from + to < half) /\ ~(2 * bin + 1 < half)
        BY <1>3
    <2>2. QED
        BY <1>1, <2>1
<1>4. QED
    BY <1>1, <1>2, <1>3

\* The two ways to count half cycles agree.
THEOREM HalvesMatch == Spec => []HalvesAgree
<1>1. Shaped => HalvesAgree
    <2> SUFFICES ASSUME Shaped, subject.kind = "clusters",
                        \A k \in DOMAIN subject.clusters :
                            \/ 2 * subject.clusters[k].to <= Half
                            \/ Half <= 2 * subject.clusters[k].from
                 PROVE  ClusterHalves(subject.clusters) = HalfCycles(subject.spectrum)
        BY DEF HalvesAgree
    <2>0. PICK pulses \in PulseLists :
              /\ subject.spectrum = BuildPRPD(pulses)
              /\ Covers(subject.clusters, pulses)
        BY ExtractCovers DEF Shaped, ClustersShaped, SpectrumShaped
    <2>1. PICK spectrum, cs :
              /\ spectrum = subject.spectrum /\ cs = subject.clusters
              /\ spectrum = BuildPRPD(pulses) /\ Covers(cs, pulses)
        BY <2>0
    <2> DEFINE first == {i \in DOMAIN cs : cs[i].center < Half}
               bins == {b \in 0 .. Bins - 1 : 2 * b + 1 < Half}
               rest == (0 .. Bins - 1) \ bins
               D == DOMAIN pulses
               early == Mine(pulses, bins)
               late == Mine(pulses, rest)
    <2>2. ASSUME NEW i \in D
          PROVE  BinsIn(pulses)[i] \in bins <=> \E k \in first : BinsIn(pulses)[i] \in Span(cs[k])
        <3>1. PICK bin \in 0 .. Bins - 1 : bin = BinsIn(pulses)[i]
            BY PulsesAre
        <3>2. bin \in Nat
            BY BinsAssumption
        <3>3. ASSUME NEW k \in DOMAIN cs, bin \in Span(cs[k])
              PROVE  k \in first <=> bin \in bins
            <4>1. /\ cs[k].from \in Nat /\ cs[k].to \in Nat
                  /\ cs[k].center = cs[k].from + cs[k].to
                BY <2>1, CoveredAre DEF Gathers
            <4>2. cs[k].from <= bin /\ bin < cs[k].to
                BY <3>2, <3>3, <4>1 DEF Span
            <4>3. 2 * cs[k].to <= Half \/ Half <= 2 * cs[k].from
                BY <2>1
            <4>4. cs[k].from + cs[k].to < Half <=> 2 * bin + 1 < Half
                BY <3>2, <4>1, <4>2, <4>3, SideOf
            <4>5. QED
                BY <4>1, <4>4
        <3>4. \E k \in DOMAIN cs : bin \in Span(cs[k])
            BY <2>1, <3>1 DEF Covers
        <3>5. first \subseteq DOMAIN cs
            OBVIOUS
        <3> HIDE DEF first, bins
        <3>6. QED
            BY <3>1, <3>3, <3>4, <3>5
    <2>3. early = {i \in D : \E k \in first : BinsIn(pulses)[i] \in Span(cs[k])}
        <3> HIDE DEF first, bins
        <3>1. QED
            BY <2>2 DEF Mine, Grouped
    <2>4. SumFunction([i \in first |-> cs[i].count]) = Cardinality(early)
        <3>1. first \subseteq DOMAIN cs
            OBVIOUS
        <3> HIDE DEF first, early
        <3>2. QED
            BY <2>1, <2>3, <3>1, CoversCount
    <2>5. PulsesOf(cs) = Cardinality(D)
        <3>1. PICK P : P = DOMAIN cs
            OBVIOUS
        <3>2. SumFunction([k \in P |-> cs[k].count]) = Len(pulses)
            BY <2>1, <3>1, CoversCount
        <3>3. QED
            BY <3>1, <3>2, PulsesAre DEF PulsesOf
    <2>6. CountIn(spectrum, bins) = Cardinality(early) /\ CountIn(spectrum, rest) = Cardinality(late)
        <3>1. bins \subseteq 0 .. Bins - 1 /\ rest \subseteq 0 .. Bins - 1
            OBVIOUS
        <3> HIDE DEF bins, rest
        <3>2. QED
            BY <2>1, <3>1, CountInIs
    <2>7. Cardinality(D) - Cardinality(early) = Cardinality(late)
        <3>1. early \cup late = D /\ early \cap late = {}
            BY PulsesAre DEF Mine, Grouped
        <3>2. IsFiniteSet(early) /\ IsFiniteSet(late)
            BY MineFinite
        <3> HIDE DEF early, late
        <3>3. /\ Cardinality(early) \in Nat /\ Cardinality(late) \in Nat
              /\ Cardinality(early \cap late) = 0
              /\ Cardinality(D) = Cardinality(early) + Cardinality(late) - Cardinality(early \cap late)
            BY <3>1, <3>2, FS_Union, FS_EmptySet, FS_CardinalityType
        <3>4. QED
            BY <3>3
    <2> HIDE DEF first, bins, early, late
    <2>8. ClusterHalves(cs) = [pos |-> Cardinality(early), neg |-> Cardinality(late)]
        BY <2>4, <2>5, <2>7 DEF ClusterHalves, first
    <2>9. HalfCycles(spectrum) = [pos |-> Cardinality(early), neg |-> Cardinality(late)]
        BY <2>6 DEF HalfCycles, bins
    <2>10. QED
        BY <2>1, <2>8, <2>9
<1>2. QED
    BY <1>1, ShapedHolds, PTL

-----------------------------------------------------------------------------
(* Candidates.                                                             *)

DefectsOf(candidates) == {candidates[i].defect : i \in DOMAIN candidates}

\* What is said of the candidates of any list.
Leads(candidates) ==
    /\ Len(candidates) = Cardinality(DefectsOf(candidates))
    /\ ResolveInterpretation(candidates) = candidates[1]
    /\ DominantDefect(candidates) = candidates[1].defect
    /\ \A i \in DOMAIN candidates : candidates[i].confidence \in 500 .. 1000

LEMMA OneLeads ==
    ASSUME NEW x, x.confidence \in 500 .. 1000
    PROVE  Leads(<< x >>) /\ DefectsOf(<< x >>) = {x.defect}
<1> DEFINE s == << x >>
<1>1. DOMAIN s = {1} /\ Len(s) = 1 /\ s[1] = x /\ s # << >>
    OBVIOUS
<1>2. PICK c \in Int : c = x.confidence
    OBVIOUS
<1> HIDE DEF s
<1>3. DefectsOf(s) = {x.defect}
    BY <1>1 DEF DefectsOf
<1>4. Cardinality({x.defect}) = 1
    BY FS_Singleton
<1>5. Highest(s) = 1
    <2>1. \A j \in {1} : s[j].confidence <= s[1].confidence /\ (j < 1 => FALSE)
        BY <1>1, <1>2
    <2>2. QED
        BY <1>1, <2>1 DEF Highest
<1>6. Leads(s)
    BY <1>1, <1>3, <1>4, <1>5 DEF Leads, ResolveInterpretation, DominantDefect
<1>7. QED
    BY <1>3, <1>6 DEF s

LEMMA TwoLead ==
    ASSUME NEW x, NEW y, x.confidence \in 500 .. 1000, y.confidence \in 500 .. 1000,
           x.confidence >= y.confidence, x.defect # y.defect
    PROVE  Leads(<< x, y >>) /\ DefectsOf(<< x, y >>) = {x.defect, y.defect}
<1> DEFINE s == << x, y >>
<1>1. DOMAIN s = {1, 2} /\ Len(s) = 2 /\ s[1] = x /\ s[2] = y /\ s # << >>
    OBVIOUS
<1>2. PICK c \in Int, d \in Int : c = x.confidence /\ d = y.confidence /\ c >= d
    OBVIOUS
<1> HIDE DEF s
<1>3. DefectsOf(s) = {x.defect, y.defect}
    BY <1>1 DEF DefectsOf
<1>4. Cardinality({x.defect, y.defect}) = 2
    <2>1. IsFiniteSet({x.defect}) /\ Cardinality({x.defect}) = 1 /\ y.defect \notin {x.defect}
        BY FS_Singleton
    <2>2. Cardinality({x.defect} \cup {y.defect}) = 1 + 1
        BY <2>1, FS_AddElement
    <2>3. {x.defect} \cup {y.defect} = {x.defect, y.defect}
        OBVIOUS
    <2>4. QED
        BY <2>2, <2>3
<1>5. Highest(s) = 1
    <2> DEFINE First(i) == \A j \in {1, 2} : /\ s[j].confidence <= s[i].confidence
                                             /\ j < i => s[j].confidence < s[i].confidence
    <2>1. First(1)
        BY <1>1, <1>2
    <2>2. ~First(2)
        BY <1>1, <1>2
    <2>3. Highest(s) = CHOOSE i \in {1, 2} : First(i)
        BY <1>1 DEF Highest
    <2> HIDE DEF First
    <2>4. QED
        BY <2>1, <2>2, <2>3
<1>6. Leads(s)
    BY <1>1, <1>3, <1>4, <1>5 DEF Leads, ResolveInterpretation, DominantDefect
<1>7. QED
    BY <1>3, <1>6 DEF s

LEMMA CoveredLead ==
    ASSUME NEW pulses \in PulseLists, NEW cs, Covers(cs, pulses)
    PROVE  LET candidates == Classify(cs)
               found == DefectsOf(candidates)
               high == \E i \in DOMAIN pulses : pulses[i].amp >= HighAmp
           IN  /\ Leads(candidates)
               /\ IF pulses = <<>> THEN found = {"unknown"}
                  ELSE \E balance \in {"internal_void", "surface_discharge"} :
                          found = {balance} \cup (IF high THEN {"floating_electrode"} ELSE {})
<1>1. cs \in Seq(Shapes) /\ (cs = << >> <=> pulses = << >>)
    BY CoversMax DEF Covers
<1>2. CASE pulses = << >>
    <2>1. PICK x : x = Candidate("unknown", 1000)
        OBVIOUS
    <2>2. x.defect = "unknown" /\ x.confidence \in 500 .. 1000
        BY <2>1 DEF Candidate
    <2>3. Classify(cs) = << x >>
        BY <1>1, <1>2, <2>1, NoneClassified
    <2>4. Leads(<< x >>) /\ DefectsOf(<< x >>) = {"unknown"}
        BY <2>2, OneLeads
    <2>5. QED
        BY <1>2, <2>3, <2>4
<1>3. CASE pulses # << >>
    <2>1. PICK b \in Balances, c \in BalanceSure, d \in FloatingSure :
              Finding(Classify(cs), TopOf(cs), b, c, d)
        BY <1>1, <1>3, Classified
    <2>2. PICK x, y : x = Candidate(b, c) /\ y = Candidate("floating_electrode", d)
        OBVIOUS
    <2>3. /\ x.defect = b /\ y.defect = "floating_electrode" /\ x.defect # y.defect
          /\ x.confidence = c /\ y.confidence = d
          /\ c \in 500 .. 1000 /\ d \in 500 .. 1000
          /\ b \in {"internal_void", "surface_discharge"}
        BY <2>2 DEF Candidate, Balances, BalanceSure, FloatingSure
    <2>4. PICK found :
              /\ found = Classify(cs)
              /\ \/ TopOf(cs) < HighAmp /\ found = << x >>
                 \/ TopOf(cs) >= HighAmp /\ d >= c /\ found = << y, x >>
                 \/ TopOf(cs) >= HighAmp /\ c >= d /\ found = << x, y >>
        BY <2>1, <2>2 DEF Finding
    <2> DEFINE high == \E i \in DOMAIN pulses : pulses[i].amp >= HighAmp
    <2>5. high <=> TopOf(cs) >= HighAmp
        <3>1. PICK top \in Nat : top = TopOf(cs)
            BY <1>1, TopIs
        <3>2. ASSUME NEW i \in DOMAIN pulses, pulses[i].amp >= HighAmp
              PROVE  top >= HighAmp
            <4>1. PICK k \in DOMAIN cs : pulses[i].amp <= cs[k].max
                BY CoversMax
            <4>2. cs[k].max <= top /\ cs[k].max \in Nat /\ pulses[i].amp \in Nat
                BY <1>1, <3>1, CoversMax, TopIs, PulsesAre
            <4>3. QED
                BY <3>2, <4>1, <4>2 DEF HighAmp
        <3>3. ASSUME top >= HighAmp
              PROVE  high
            <4>1. top # 0
                BY <3>3 DEF HighAmp
            <4>2. PICK k \in DOMAIN cs : cs[k].max = top
                BY <1>1, <3>1, <4>1, TopIs
            <4>3. PICK i \in DOMAIN pulses : pulses[i].amp = cs[k].max
                BY CoversMax
            <4>4. QED
                BY <3>3, <4>2, <4>3
        <3>4. QED
            BY <3>1, <3>2, <3>3
    <2> HIDE DEF high
    <2>6. CASE TopOf(cs) < HighAmp /\ found = << x >>
        <3>1. ~high
            <4>1. TopOf(cs) \in Nat
                BY <1>1, TopIs
            <4>2. QED
                BY <2>5, <2>6, <4>1 DEF HighAmp
        <3>2. Leads(<< x >>) /\ DefectsOf(<< x >>) = {b}
            BY <2>3, OneLeads
        <3>3. DefectsOf(found) = {b} \cup (IF high THEN {"floating_electrode"} ELSE {})
            BY <2>6, <3>1, <3>2
        <3>4. QED
            BY <1>3, <2>3, <2>4, <2>6, <3>2, <3>3 DEF high
    <2>7. CASE TopOf(cs) >= HighAmp /\ d >= c /\ found = << y, x >>
        <3>1. Leads(<< y, x >>) /\ DefectsOf(<< y, x >>) = {"floating_electrode", b}
            BY <2>3, <2>7, TwoLead
        <3>2. DefectsOf(found) = {b} \cup (IF high THEN {"floating_electrode"} ELSE {})
            BY <2>5, <2>7, <3>1
        <3>3. QED
            BY <1>3, <2>3, <2>4, <2>7, <3>1, <3>2 DEF high
    <2>8. CASE TopOf(cs) >= HighAmp /\ c >= d /\ found = << x, y >>
        <3>1. Leads(<< x, y >>) /\ DefectsOf(<< x, y >>) = {b, "floating_electrode"}
            BY <2>3, <2>8, TwoLead
        <3>2. DefectsOf(found) = {b} \cup (IF high THEN {"floating_electrode"} ELSE {})
            BY <2>5, <2>8, <3>1
        <3>3. QED
            BY <1>3, <2>3, <2>4, <2>8, <3>1, <3>2 DEF high
    <2>9. QED
        BY <2>4, <2>6, <2>7, <2>8
<1>4. QED
    BY <1>2, <1>3

\* CandidatesExclusive of some candidates and pulses.
Exclusive(candidates, pulses) ==
    LET found == {candidates[i].defect : i \in DOMAIN candidates}
        high == \E i \in DOMAIN pulses : pulses[i].amp >= HighAmp
    IN  /\ Len(candidates) = Cardinality(found)
        /\ IF pulses = <<>> THEN found = {"unknown"}
           ELSE \E balance \in {"internal_void", "surface_discharge"} :
                   found = {balance} \cup (IF high THEN {"floating_electrode"} ELSE {})
        /\ ResolveInterpretation(candidates) = candidates[1]
        /\ DominantDefect(candidates) = candidates[1].defect
        /\ \A i \in DOMAIN candidates : candidates[i].confidence \in 500 .. 1000

LEMMA CoveredExclude ==
    ASSUME NEW pulses \in PulseLists, NEW cs, Covers(cs, pulses)
    PROVE  Exclusive(Classify(cs), pulses)
<1>1. PICK candidates : candidates = Classify(cs)
    OBVIOUS
<1>2. /\ Leads(candidates)
      /\ IF pulses = <<>> THEN DefectsOf(candidates) = {"unknown"}
         ELSE \E balance \in {"internal_void", "surface_discharge"} :
                 DefectsOf(candidates) = {balance} \cup
                     (IF \E i \in DOMAIN pulses : pulses[i].amp >= HighAmp
                      THEN {"floating_electrode"} ELSE {})
    BY <1>1, CoveredLead
<1>3. Exclusive(candidates, pulses)
    BY <1>2, Zenon DEF Exclusive, Leads, DefectsOf
<1>4. QED
    BY <1>1, <1>3

\* Whatever the pulses, before and after merging, the candidates exclude each
\* other, and every rule that picks one picks the first.
THEOREM Excludes == Spec => []CandidatesExclusive
<1>1. Shaped => CandidatesExclusive
    <2> SUFFICES ASSUME Shaped, subject.kind \in {"clusters", "merged"}
                 PROVE  Exclusive(Classify(subject.clusters), subject.pulses)
        BY Zenon DEF CandidatesExclusive, Exclusive
    <2>1. PICK pulses, cs :
              /\ pulses \in PulseLists
              /\ pulses = subject.pulses /\ cs = subject.clusters /\ Covers(cs, pulses)
        BY ExtractCovers DEF Shaped, ClustersShaped, SpectrumShaped, MergedShaped
    <2>2. QED
        BY <2>1, CoveredExclude
<1>2. QED
    BY <1>1, ShapedHolds, PTL

-----------------------------------------------------------------------------
(* Noise floors.                                                           *)

\* Smaller ranks have smaller values.
LEMMA KthRises ==
    ASSUME NEW f, Numbers(f),
           NEW j \in 1 .. Cardinality(DOMAIN f), NEW k \in 1 .. Cardinality(DOMAIN f), j <= k
    PROVE  KthSmallest(f, j) <= KthSmallest(f, k)
<1>1. PICK v \in Int, w \in Int :
          /\ v = KthSmallest(f, j) /\ w = KthSmallest(f, k)
          /\ IsKth(f, j, v) /\ IsKth(f, k, w)
    BY KthSmallestIs
<1>2. SUFFICES ASSUME w < v
               PROVE  FALSE
    BY <1>1
<1>3. NotGreater(f, w) \subseteq Smaller(f, v)
    BY <1>2 DEF NotGreater, Smaller, Numbers
<1>4. /\ IsFiniteSet(Smaller(f, v)) /\ Cardinality(Smaller(f, v)) \in Nat
      /\ Cardinality(NotGreater(f, w)) \in Nat
    BY PartsFinite
<1>5. Cardinality(NotGreater(f, w)) <= Cardinality(Smaller(f, v))
    BY <1>3, <1>4, FS_Subset
<1>6. Cardinality(Smaller(f, v)) < j /\ k <= Cardinality(NotGreater(f, w))
    BY <1>1 DEF IsKth
<1>7. Cardinality(DOMAIN f) \in Nat
    BY FS_CardinalityType DEF Numbers
<1>8. QED
    BY <1>4, <1>5, <1>6, <1>7

\* A value that is the k-th smallest is the one KthSmallest chooses.
LEMMA KthIs ==
    ASSUME NEW f, Numbers(f), NEW k \in 1 .. Cardinality(DOMAIN f),
           NEW v \in Int, IsKth(f, k, v)
    PROVE  KthSmallest(f, k) = v
<1>1. KthSmallest(f, k) \in Int /\ IsKth(f, k, KthSmallest(f, k))
    BY KthSmallestIs
<1>2. k \in Nat
    BY FS_CardinalityType DEF Numbers
<1>3. QED
    BY <1>1, <1>2, KthUnique

\* What lists of amplitudes are.
LEMMA AmpsAre ==
    ASSUME NEW amps \in Seq(Amps), amps # << >>
    PROVE  /\ Len(amps) \in Nat \ {0} /\ DOMAIN amps = 1 .. Len(amps)
           /\ \A i \in DOMAIN amps : amps[i] \in Nat
           /\ Numbers(amps) /\ Cardinality(DOMAIN amps) = Len(amps)
<1>1. Len(amps) \in Nat \ {0} /\ DOMAIN amps = 1 .. Len(amps)
    BY LenProperties, EmptySeq
<1>2. \A i \in DOMAIN amps : amps[i] \in Nat
    BY <1>1, ElementOfSeq, InputsAssumption
<1>3. IsFiniteSet(1 .. Len(amps)) /\ Cardinality(1 .. Len(amps)) = Len(amps)
    <2>1. PICK n \in Nat \ {0} : n = Len(amps)
        BY <1>1
    <2>2. 1 \in Int /\ n \in Int /\ ~(1 > n) /\ n - 1 + 1 = n
        OBVIOUS
    <2>3. IsFiniteSet(1 .. n) /\ Cardinality(1 .. n) = IF 1 > n THEN 0 ELSE n - 1 + 1
        BY <2>2, FS_Interval
    <2>4. QED
        BY <2>1, <2>2, <2>3
<1>4. QED
    BY <1>1, <1>2, <1>3 DEF Numbers

LEMMA ClampIs ==
    ASSUME NEW q \in Int
    PROVE  Max({0, Min({100, q})}) = IF q < 0 THEN 0 ELSE IF q > 100 THEN 100 ELSE q
<1> DEFINE least == IF q < 100 THEN q ELSE 100
<1>1. Min({100, q}) = least
    <2>1. \E x \in {100, q} : \A y \in {100, q} : x <= y
        OBVIOUS
    <2>2. PICK m : m = Min({100, q})
        OBVIOUS
    <2>3. m \in {100, q} /\ m <= 100 /\ m <= q
        BY <2>1, <2>2 DEF Min
    <2>4. QED
        BY <2>2, <2>3
<1>2. Max({0, least}) = IF least < 0 THEN 0 ELSE least
    <2>1. PICK m \in Int : m = least
        OBVIOUS
    <2>2. PICK x \in {0, m} : x = (IF m < 0 THEN 0 ELSE m) /\ \A y \in {0, m} : y <= x
        OBVIOUS
    <2>3. Max({0, m}) = x
        BY <2>2, MaxOnly
    <2>4. QED
        BY <2>1, <2>2, <2>3
<1>3. QED
    BY <1>1, <1>2

\* The places of the quantiles in n sorted amplitudes.
LEMMA RankIs ==
    ASSUME NEW n \in Nat \ {0}, NEW q \in {0, 10, 25, 50, 90, 100}
    PROVE  /\ Rank(q, n) \in Nat
           /\ 1 + Rank(q, n) \in 1 .. n
           /\ q = 0 => 1 + Rank(q, n) = 1
           /\ q = 100 => 1 + Rank(q, n) = n
           /\ q = 50 => 1 + Rank(q, n) = IF n % 2 = 0 THEN n \div 2 ELSE n \div 2 + 1
<1>1. CASE q = 0
    BY <1>1 DEF Rank
<1>2. CASE q = 10
    BY <1>2 DEF Rank
<1>3. CASE q = 25
    BY <1>3 DEF Rank
<1>4. CASE q = 50
    BY <1>4 DEF Rank
<1>5. CASE q = 90
    BY <1>5 DEF Rank
<1>6. CASE q = 100
    BY <1>6 DEF Rank
<1>7. QED
    BY <1>1, <1>2, <1>3, <1>4, <1>5, <1>6

\* A quantile leaves at most its share of them below its place.
LEMMA RankShare ==
    ASSUME NEW n \in Nat \ {0}, NEW q \in {0, 10, 25, 50, 90, 100}
    PROVE  100 * Rank(q, n) <= q * n
<1>1. CASE q = 0
    BY <1>1 DEF Rank
<1>2. CASE q = 10
    BY <1>2 DEF Rank
<1>3. CASE q = 25
    BY <1>3 DEF Rank
<1>4. CASE q = 50
    BY <1>4 DEF Rank
<1>5. CASE q = 90
    BY <1>5 DEF Rank
<1>6. CASE q = 100
    BY <1>6 DEF Rank
<1>7. QED
    BY <1>1, <1>2, <1>3, <1>4, <1>5, <1>6

\* The noise floor is one of the amplitudes, by its rank.
LEMMA FloorIs ==
    ASSUME NEW amps \in Seq(Amps), amps # << >>, NEW q \in Int
    PROVE  LET r == IF q < 0 THEN 0 ELSE IF q > 100 THEN 100 ELSE q
           IN  EstimateNoiseFloor(amps, q) = KthSmallest(amps, 1 + Rank(r, Len(amps)))
BY ClampIs, AmpsAre DEF EstimateNoiseFloor

LEMMA FloorDiscards ==
    ASSUME NEW amps \in Seq(Amps), amps # << >>, NEW q \in {0, 10, 25, 50, 90, 100}
    PROVE  /\ 100 * Cardinality(ClassifyBackground(amps, EstimateNoiseFloor(amps, q))) <= q * Len(amps)
           /\ \A i \in DOMAIN amps :
                 amps[i] > EstimateNoiseFloor(amps, q) =>
                     EstimateNoiseFloor([amps EXCEPT ![i] = @ + 100], q) = EstimateNoiseFloor(amps, q)
<1>1. PICK n \in Nat \ {0} : n = Len(amps) /\ DOMAIN amps = 1 .. n
    BY AmpsAre
<1>2. q \in Int /\ ~(q < 0) /\ ~(q > 100)
    OBVIOUS
<1>3. PICK k \in 1 .. n : k = 1 + Rank(q, n) /\ 100 * (k - 1) <= q * n
    <2>1. PICK r \in Nat : r = Rank(q, n)
        BY RankIs
    <2>2. 1 + r \in 1 .. n /\ 100 * r <= q * n
        <3>1. 1 + Rank(q, n) \in 1 .. n
            BY RankIs
        <3>2. 100 * Rank(q, n) <= q * n
            BY RankShare
        <3>3. QED
            BY <2>1, <3>1, <3>2, Zenon
    <2>3. PICK k \in 1 .. n : k = 1 + r
        BY <2>2
    <2>4. k - 1 = r
        BY <2>3
    <2>5. QED
        BY <2>1, <2>2, <2>3, <2>4
<1>4. PICK v : v = EstimateNoiseFloor(amps, q)
    OBVIOUS
<1>5. v = KthSmallest(amps, k)
    BY <1>1, <1>2, <1>3, <1>4, FloorIs
<1>6. Numbers(amps) /\ Cardinality(DOMAIN amps) = n
    BY <1>1, AmpsAre
<1>7. v \in Int /\ IsKth(amps, k, v)
    BY <1>5, <1>6, KthSmallestIs
<1>8. 100 * Cardinality(ClassifyBackground(amps, v)) <= q * n
    <2>1. ClassifyBackground(amps, v) = Smaller(amps, v)
        BY DEF ClassifyBackground, IsBackground, Smaller
    <2>2. PICK c \in Nat : c = Cardinality(Smaller(amps, v))
        BY <1>6, PartsFinite
    <2>3. c < k
        BY <1>7, <2>2 DEF IsKth
    <2>4. PICK x \in Int : x = q * n
        BY <1>2
    <2>5. 100 * c <= x
        BY <1>3, <2>3, <2>4
    <2>6. QED
        BY <2>1, <2>2, <2>4, <2>5
<1>9. ASSUME NEW i \in DOMAIN amps, amps[i] > v
      PROVE  EstimateNoiseFloor([amps EXCEPT ![i] = @ + 100], q) = v
    <2>1. PICK g : g = [amps EXCEPT ![i] = @ + 100]
        OBVIOUS
    <2>2. \A j \in DOMAIN amps : amps[j] \in Nat
        BY AmpsAre
    <2>3. /\ DOMAIN g = DOMAIN amps /\ g[i] = amps[i] + 100
          /\ \A j \in DOMAIN amps : j # i => g[j] = amps[j]
        BY <2>1
    <2>4. \A j \in DOMAIN amps : g[j] \in Int
        BY <2>2, <2>3
    <2>5. Numbers(g) /\ Cardinality(DOMAIN g) = n
        BY <1>6, <2>3, <2>4 DEF Numbers
    <2>6. Smaller(g, v) = Smaller(amps, v) /\ NotGreater(g, v) = NotGreater(amps, v)
        <3>1. ASSUME NEW j \in DOMAIN amps
              PROVE  (g[j] < v <=> amps[j] < v) /\ (g[j] <= v <=> amps[j] <= v)
            <4>1. CASE j = i
                <5>1. PICK a \in Nat : a = amps[i] /\ a > v
                    BY <1>9, <2>2
                <5>2. ~(a + 100 < v) /\ ~(a < v) /\ ~(a + 100 <= v) /\ ~(a <= v)
                    BY <1>7, <5>1
                <5>3. QED
                    BY <2>3, <4>1, <5>1, <5>2
            <4>2. CASE j # i
                BY <2>3, <4>2
            <4>3. QED
                BY <4>1, <4>2
        <3>2. QED
            BY <2>3, <3>1 DEF Smaller, NotGreater
    <2>7. IsKth(g, k, v)
        BY <1>7, <2>6 DEF IsKth
    <2>8. KthSmallest(g, k) = v
        BY <1>7, <2>5, <2>7, KthIs
    <2>9. g # << >>
        BY <1>1, <2>3
    <2>10. EstimateNoiseFloor(g, q) = KthSmallest(g, k)
        BY <1>2, <1>3, <2>5, <2>9, ClampIs DEF EstimateNoiseFloor
    <2>11. QED
        BY <2>1, <2>8, <2>10
<1>10. QED
    BY <1>1, <1>4, <1>8, <1>9

LEMMA FloorEnds ==
    ASSUME NEW amps \in Seq(Amps), amps # << >>
    PROVE  LET values == {amps[i] : i \in DOMAIN amps}
           IN  /\ EstimateNoiseFloor(amps, -10) = Min(values)
               /\ EstimateNoiseFloor(amps, 150) = Max(values)
<1> DEFINE values == {amps[i] : i \in DOMAIN amps}
<1>1. PICK n \in Nat \ {0} : n = Len(amps) /\ DOMAIN amps = 1 .. n
    BY AmpsAre
<1>2. Numbers(amps) /\ Cardinality(DOMAIN amps) = n /\ \A i \in DOMAIN amps : amps[i] \in Nat
    BY <1>1, AmpsAre
<1>3. DOMAIN amps # {} /\ IsFiniteSet(DOMAIN amps) /\ \A i \in DOMAIN amps : amps[i] \in Int
    BY <1>1, <1>2 DEF Numbers
<1>4. 1 + Rank(0, n) = 1 /\ 1 + Rank(100, n) = n /\ 1 \in 1 .. n /\ n \in 1 .. n
    <2>1. 0 \in {0, 10, 25, 50, 90, 100} /\ 100 \in {0, 10, 25, 50, 90, 100}
        OBVIOUS
    <2>2. 1 + Rank(0, n) = 1
        BY <2>1, RankIs
    <2>3. 1 + Rank(100, n) = n
        BY <2>1, RankIs
    <2>4. QED
        BY <2>2, <2>3
<1>5. EstimateNoiseFloor(amps, -10) = KthSmallest(amps, 1)
    <2>1. EstimateNoiseFloor(amps, -10) = KthSmallest(amps, 1 + Rank(0, n))
        BY <1>1, FloorIs
    <2>2. QED
        BY <1>4, <2>1
<1>6. EstimateNoiseFloor(amps, 150) = KthSmallest(amps, n)
    <2>1. EstimateNoiseFloor(amps, 150) = KthSmallest(amps, 1 + Rank(100, n))
        BY <1>1, FloorIs
    <2>2. QED
        BY <1>4, <2>1
<1>7. PICK i \in DOMAIN amps : \A d \in DOMAIN amps : amps[i] <= amps[d]
    BY <1>3, LeastExists
<1>8. PICK j \in DOMAIN amps : \A d \in DOMAIN amps : amps[d] <= amps[j]
    BY <1>3, GreatestExists
<1>9. amps[i] = Min(values)
    <2>1. PICK x : x = amps[i]
        OBVIOUS
    <2>2. x \in Int /\ x \in values /\ \A y \in values : y \in Int /\ x <= y
        BY <1>3, <1>7, <2>1
    <2>3. PICK s : s = values
        OBVIOUS
    <2>4. x \in s /\ \A y \in s : x <= y
        BY <2>2, <2>3
    <2>5. Min(s) \in s /\ \A y \in s : Min(s) <= y
        BY <2>4 DEF Min
    <2>6. PICK m : m = Min(s)
        OBVIOUS
    <2>7. m \in Int /\ m <= x /\ x <= m
        BY <2>2, <2>3, <2>4, <2>5, <2>6
    <2>8. m = x
        BY <2>2, <2>7
    <2>9. QED
        BY <2>1, <2>3, <2>6, <2>8
<1>10. amps[j] = Max(values)
    <2>1. PICK x : x = amps[j]
        OBVIOUS
    <2>2. x \in values /\ \A y \in values : y \in Int /\ y <= x
        BY <1>3, <1>8, <2>1
    <2> HIDE DEF values
    <2>3. QED
        BY <2>1, <2>2, MaxOnly
<1>11. KthSmallest(amps, 1) = amps[i]
    <2>1. amps[i] \in Int
        BY <1>3
    <2>2. Smaller(amps, amps[i]) = {}
        BY <1>3, <1>7 DEF Smaller
    <2>3. i \in NotGreater(amps, amps[i])
        BY <1>3 DEF NotGreater
    <2>4. PICK s, t : s = Smaller(amps, amps[i]) /\ t = NotGreater(amps, amps[i])
        OBVIOUS
    <2>5. IsFiniteSet(t) /\ Cardinality(t) \in Nat
        BY <1>2, <2>4, PartsFinite
    <2>6. Cardinality(s) = 0 /\ Cardinality(t) # 0
        BY <2>2, <2>3, <2>4, <2>5, FS_EmptySet
    <2>7. IsKth(amps, 1, amps[i])
        BY <2>4, <2>5, <2>6 DEF IsKth
    <2>8. QED
        BY <1>2, <1>4, <2>1, <2>7, KthIs
<1>12. KthSmallest(amps, n) = amps[j]
    <2>1. amps[j] \in Int
        BY <1>3
    <2>2. NotGreater(amps, amps[j]) = DOMAIN amps
        BY <1>3, <1>8 DEF NotGreater
    <2>3. j \notin Smaller(amps, amps[j]) /\ Smaller(amps, amps[j]) \subseteq DOMAIN amps
        BY <2>1 DEF Smaller
    <2>4. PICK s, d : s = Smaller(amps, amps[j]) /\ d = DOMAIN amps
        OBVIOUS
    <2>5. IsFiniteSet(d) /\ Cardinality(d) = n /\ s \subseteq d /\ s # d
        BY <1>2, <1>3, <2>3, <2>4
    <2>6. Cardinality(s) < n
        <3>1. s \in SUBSET d
            BY <2>5
        <3>2. IsFiniteSet(s) /\ Cardinality(s) <= Cardinality(d) /\ Cardinality(s) # Cardinality(d)
            BY <2>5, <3>1, FS_Subset
        <3>3. PICK c \in Nat : c = Cardinality(s)
            BY <3>2, FS_CardinalityType
        <3>4. QED
            BY <2>5, <3>2, <3>3
    <2>7. IsKth(amps, n, amps[j])
        BY <1>2, <2>2, <2>4, <2>6 DEF IsKth
    <2>8. QED
        BY <1>2, <1>4, <2>1, <2>7, KthIs
<1>13. QED
    BY <1>5, <1>6, <1>9, <1>10, <1>11, <1>12

LEMMA FloorBelowMedian ==
    ASSUME NEW amps \in Seq(Amps), amps # << >>
    PROVE  2 * EstimateNoiseFloor(amps, 50) <= Median(amps)
<1>1. PICK n \in Nat \ {0} : n = Len(amps) /\ Numbers(amps) /\ Cardinality(DOMAIN amps) = n
    BY AmpsAre
<1>2. PICK mid \in Nat : mid = n \div 2
    BY Ranks
<1>3. EstimateNoiseFloor(amps, 50) = KthSmallest(amps, IF n % 2 = 0 THEN mid ELSE mid + 1)
    <2>1. EstimateNoiseFloor(amps, 50) = KthSmallest(amps, 1 + Rank(50, n))
        BY <1>1, FloorIs
    <2>2. QED
        BY <1>2, <2>1, RankIs
<1>4. CASE n % 2 = 0
    <2>1. mid \in 1 .. n /\ mid + 1 \in 1 .. n
        BY <1>2, <1>4, Ranks
    <2>2. Median(amps) = KthSmallest(amps, mid) + KthSmallest(amps, mid + 1)
        BY <1>1, <1>2, <1>4 DEF Median
    <2>3. PICK k : k = mid + 1 /\ k \in 1 .. n /\ mid <= k
        BY <2>1
    <2>4. KthSmallest(amps, mid) <= KthSmallest(amps, k)
        BY <1>1, <2>1, <2>3, KthRises
    <2>5. PICK v \in Int, w \in Int : v = KthSmallest(amps, mid) /\ w = KthSmallest(amps, k)
        BY <1>1, <2>1, <2>3, KthSmallestIs
    <2>6. 2 * v <= v + w
        BY <2>4, <2>5
    <2>7. QED
        BY <1>3, <1>4, <2>2, <2>3, <2>5, <2>6
<1>5. CASE n % 2 # 0
    <2>1. mid + 1 \in 1 .. n
        BY <1>2, <1>5, Ranks
    <2>2. PICK k : k = mid + 1
        OBVIOUS
    <2>3. PICK v \in Int : v = KthSmallest(amps, k)
        BY <1>1, <2>1, <2>2, KthSmallestIs
    <2>4. Median(amps) = 2 * v
        BY <1>1, <1>2, <1>5, <2>2, <2>3 DEF Median
    <2>5. QED
        BY <1>3, <1>5, <2>2, <2>3, <2>4
<1>6. QED
    BY <1>4, <1>5

\* What the property says of a list of amplitudes.
Robust(amps) ==
    LET stats == Summarize(amps)
        floor(quantile) == EstimateNoiseFloor(amps, quantile)
    IN  /\ \A quantile \in {0, 10, 25, 50, 90, 100} :
              /\ 100 * Cardinality(ClassifyBackground(amps, floor(quantile)))
                    <= quantile * Len(amps)
              /\ \A i \in DOMAIN amps :
                    amps[i] > floor(quantile) =>
                        EstimateNoiseFloor([amps EXCEPT ![i] = @ + 100], quantile)
                            = floor(quantile)
        /\ floor(-10) = stats.min /\ floor(150) = stats.max
        /\ 2 * floor(50) <= stats.median

LEMMA FloorRobust ==
    ASSUME NEW amps \in Seq(Amps), amps # << >>
    PROVE  Robust(amps)
<1>1. PICK least, most, mid :
          /\ least = Min({amps[i] : i \in DOMAIN amps})
          /\ most = Max({amps[i] : i \in DOMAIN amps})
          /\ mid = Median(amps)
    OBVIOUS
<1>2. /\ Summarize(amps).min = least /\ Summarize(amps).max = most
      /\ Summarize(amps).median = mid
    BY <1>1 DEF Summarize, MedianAmplitude
<1>3. /\ EstimateNoiseFloor(amps, -10) = least /\ EstimateNoiseFloor(amps, 150) = most
      /\ 2 * EstimateNoiseFloor(amps, 50) <= mid
    BY <1>1, FloorEnds, FloorBelowMedian
<1>4. ASSUME NEW quantile \in {0, 10, 25, 50, 90, 100}
      PROVE  /\ 100 * Cardinality(ClassifyBackground(amps, EstimateNoiseFloor(amps, quantile)))
                    <= quantile * Len(amps)
             /\ \A i \in DOMAIN amps :
                   amps[i] > EstimateNoiseFloor(amps, quantile) =>
                       EstimateNoiseFloor([amps EXCEPT ![i] = @ + 100], quantile)
                           = EstimateNoiseFloor(amps, quantile)
    BY FloorDiscards
<1>5. QED
    BY <1>2, <1>3, <1>4, Zenon DEF Robust

\* The floor of a quantile discards at most that share of any amplitudes, and
\* does not move with a pulse above it.
THEOREM FloorsHold == Spec => []NoiseFloorRobust
<1>1. Shaped => NoiseFloorRobust
    <2> SUFFICES ASSUME Shaped, subject.kind = "amplitudes", subject.amps # <<>>
                 PROVE  Robust(subject.amps)
        BY Zenon DEF NoiseFloorRobust, Robust
    <2>1. subject.amps \in Seq(Amps)
        BY DEF Shaped, AmplitudesShaped
    <2>2. QED
        BY <2>1, FloorRobust
<1>2. QED
    BY <1>1, ShapedHolds, PTL

-----------------------------------------------------------------------------
(* Sorting.                                                                *)

Contents(s) == {s[k] : k \in 1 .. Len(s)}

\* The lists of the same values, with repetitions of their own.
Rearranged(s) == {t \in [1 .. Len(s) -> Contents(s)] : {t[k] : k \in 1 .. Len(s)} = Contents(s)}

LEMMA ExchangeIs ==
    ASSUME NEW s, Len(s) \in Nat, NEW field, NEW t \in Rearranged(s),
           NEW i \in 1 .. Len(s), NEW j \in 1 .. Len(s), i < j
    PROVE  LET u == Exchange(t, i, j, field)
           IN  /\ u \in Rearranged(s)
               /\ \A k \in 1 .. Len(s) : k # i /\ k # j => u[k] = t[k]
               /\ \/ ~(t[j][field] < t[i][field]) /\ u[i] = t[i] /\ u[j] = t[j]
                  \/ t[j][field] < t[i][field] /\ u[i] = t[j] /\ u[j] = t[i]
<1> DEFINE D == 1 .. Len(s)
           u == [t EXCEPT ![i] = t[j], ![j] = t[i]]
<1>1. t \in [D -> Contents(s)] /\ {t[k] : k \in D} = Contents(s)
    BY DEF Rearranged
<1>2. CASE ~(t[j][field] < t[i][field])
    BY <1>2 DEF Exchange
<1>3. CASE t[j][field] < t[i][field]
    <2>1. Exchange(t, i, j, field) = u
        BY <1>3 DEF Exchange
    <2>2. i # j
        OBVIOUS
    <2>3. /\ u \in [D -> Contents(s)] /\ u[i] = t[j] /\ u[j] = t[i]
          /\ \A k \in D : k # i /\ k # j => u[k] = t[k]
        BY <1>1, <2>2
    <2> HIDE DEF u
    <2>4. {u[k] : k \in D} = {t[k] : k \in D}
        <3>1. ASSUME NEW k \in D
              PROVE  \E l \in D : u[k] = t[l]
            BY <2>3
        <3>2. ASSUME NEW k \in D
              PROVE  \E l \in D : t[k] = u[l]
            BY <2>3
        <3> HIDE DEF D
        <3>3. QED
            BY <3>1, <3>2
    <2>5. QED
        BY <1>1, <1>3, <2>1, <2>3, <2>4 DEF Rearranged
<1>4. QED
    BY <1>2, <1>3

LEMMA RearrangedAre ==
    ASSUME NEW s, Len(s) \in Nat, NEW t \in Rearranged(s)
    PROVE  /\ t \in Seq(Contents(s)) /\ Len(t) = Len(s) /\ DOMAIN t = 1 .. Len(s)
           /\ \A k \in 1 .. Len(s) : t[k] \in Contents(s)
<1>1. PICK n \in Nat : n = Len(s)
    OBVIOUS
<1>2. t \in [1 .. n -> Contents(s)]
    BY <1>1 DEF Rearranged
<1>3. t \in Seq(Contents(s))
    BY <1>2
<1>4. QED
    BY <1>1, <1>2, <1>3, LenProperties

\* What t is after round i has compared the places up to j: nothing before i has
\* moved, the least value up to j is at i, and what is from i on was there.
Rounded(s, t, u, i, j, field) ==
    /\ u \in Rearranged(s)
    /\ \A k \in 1 .. i - 1 : u[k] = t[k]
    /\ \A k \in i .. j : u[i][field] <= u[k][field]
    /\ \A k \in i .. Len(s) : \E l \in i .. Len(s) : u[k] = t[l]

LEMMA RoundStep ==
    ASSUME NEW s, Len(s) \in Nat, NEW field, \A k \in 1 .. Len(s) : s[k][field] \in Int,
           NEW t \in Rearranged(s), NEW i \in 1 .. Len(s), NEW j \in i .. Len(s) - 1,
           NEW u, Rounded(s, t, u, i, j, field)
    PROVE  Rounded(s, t, Exchange(u, i, j + 1, field), i, j + 1, field)
<1>1. PICK n, e, v :
          /\ n \in Nat /\ n = Len(s) /\ e \in 1 .. n /\ e = j + 1 /\ i < e
          /\ v = Exchange(u, i, e, field)
    OBVIOUS
<1>2. /\ u \in Rearranged(s) /\ v \in Rearranged(s)
      /\ \A k \in 1 .. n : k # i /\ k # e => v[k] = u[k]
      /\ \/ ~(u[e][field] < u[i][field]) /\ v[i] = u[i] /\ v[e] = u[e]
         \/ u[e][field] < u[i][field] /\ v[i] = u[e] /\ v[e] = u[i]
    BY <1>1, ExchangeIs DEF Rounded
<1>3. \A k \in 1 .. n : u[k][field] \in Int /\ v[k][field] \in Int
    <2>1. \A x \in Contents(s) : x[field] \in Int
        BY DEF Contents
    <2>2. QED
        BY <1>1, <1>2, <2>1, RearrangedAre
<1>4. /\ i \in Int /\ j \in Int /\ e = j + 1 /\ i <= j /\ i \in 1 .. n
      /\ \A k \in 1 .. i - 1 : k \in 1 .. n /\ k # i /\ k # e
      /\ \A k \in i .. n : k \in 1 .. n
      /\ \A k \in i .. e : k \in i .. j \/ k = e
      /\ \A k \in i .. j : k \in 1 .. n /\ k # e
    BY <1>1
<1>5. /\ \A k \in 1 .. i - 1 : u[k] = t[k]
      /\ \A k \in i .. j : u[i][field] <= u[k][field]
      /\ \A k \in i .. n : \E l \in i .. n : u[k] = t[l]
    BY <1>1 DEF Rounded
<1>6. \A k \in 1 .. i - 1 : v[k] = t[k]
    BY <1>2, <1>4, <1>5
<1>7. \A k \in i .. e : v[i][field] <= v[k][field]
    <2>1. ASSUME NEW k \in i .. e
          PROVE  v[i][field] <= v[k][field]
        <3>1. PICK x, y, z :
                  /\ x \in Int /\ x = u[i][field]
                  /\ y \in Int /\ y = u[e][field]
                  /\ z \in Int /\ z = v[i][field] /\ z <= x /\ z <= y
            <4>1. u[i][field] \in Int /\ u[e][field] \in Int /\ v[i][field] \in Int
                BY <1>1, <1>3
            <4>2. \/ ~(u[e][field] < u[i][field]) /\ v[i][field] = u[i][field]
                  \/ u[e][field] < u[i][field] /\ v[i][field] = u[e][field]
                BY <1>2
            <4>3. QED
                BY <4>1, <4>2
        <3>2. CASE k = e
            <4>1. v[k] = u[i] \/ v[k] = u[e]
                BY <1>2, <3>2
            <4>2. QED
                BY <3>1, <4>1
        <3>3. CASE k # e /\ k = i
            BY <3>1, <3>3
        <3>4. CASE k # e /\ k # i
            <4>1. k \in i .. j /\ k \in 1 .. n
                BY <1>4, <3>4
            <4>2. v[k] = u[k] /\ x <= u[k][field] /\ u[k][field] \in Int
                BY <1>2, <1>3, <1>5, <3>1, <3>4, <4>1
            <4>3. QED
                BY <3>1, <4>2
        <3>5. QED
            BY <3>2, <3>3, <3>4
    <2>2. QED
        BY <2>1
<1>8. \A k \in i .. n : \E l \in i .. n : v[k] = t[l]
    <2>1. ASSUME NEW k \in i .. n
          PROVE  \E l \in i .. n : v[k] = u[l]
        <3>1. i \in i .. n /\ e \in i .. n
            BY <1>1, <1>4
        <3>2. QED
            BY <1>2, <1>4, <3>1
    <2>2. ASSUME NEW k \in i .. n
          PROVE  \E l \in i .. n : v[k] = t[l]
        <3>1. PICK l \in i .. n : v[k] = u[l]
            BY <2>1
        <3>2. PICK m \in i .. n : u[l] = t[m]
            BY <1>5
        <3>3. QED
            BY <3>1, <3>2
    <2>3. QED
        BY <2>2
<1>9. QED
    BY <1>1, <1>2, <1>6, <1>7, <1>8 DEF Rounded

LEMMA RoundIs ==
    ASSUME NEW s, Len(s) \in Nat, NEW field, \A k \in 1 .. Len(s) : s[k][field] \in Int,
           NEW t \in Rearranged(s), NEW i \in 1 .. Len(s)
    PROVE  Rounded(s, t, SortRound(t, i, field), i, Len(s), field)
<1> DEFINE n == Len(s)
           IsRound(r) == r = [j \in i .. n |-> IF j = i THEN t ELSE Exchange(r[j - 1], i, j, field)]
           r == CHOOSE r : IsRound(r)
           V == Rearranged(s)
           F == [p \in V \X (i + 1 .. n) |-> Exchange(p[1], i, p[2], field)]
           P == {j \in i .. n : Rounded(s, t, r[j], i, j, field)}
<1>1. i \in Int /\ n \in Int /\ i <= n
    OBVIOUS
<1>2. ASSUME NEW v \in V, NEW j \in i + 1 .. n
      PROVE  F[<<v, j>>] = Exchange(v, i, j, field) /\ F[<<v, j>>] \in V
    <2>1. F[<<v, j>>] = Exchange(v, i, j, field)
        OBVIOUS
    <2>2. j \in 1 .. Len(s) /\ i < j
        BY <1>1
    <2>3. Exchange(v, i, j, field) \in V
        BY <2>2, ExchangeIs
    <2>4. QED
        BY <2>1, <2>3
<1>3. PICK f \in [i .. n -> V] : Recursion(f, i, n, t, F)
    <2> HIDE DEF F, V, n
    <2>1. t \in V
        BY DEF V
    <2>2. QED
        BY <1>1, <1>2, <2>1, RecursionExists
<1>4. IsRound(f)
    <2>1. ASSUME NEW j \in i .. n
          PROVE  (IF j = i THEN t ELSE F[<<f[j - 1], j>>])
                     = IF j = i THEN t ELSE Exchange(f[j - 1], i, j, field)
        <3>1. CASE j = i
            BY <3>1
        <3>2. CASE j # i
            <4>1. j \in i + 1 .. n /\ j - 1 \in i .. n
                BY <1>1, <3>2
            <4> HIDE DEF F, V, n
            <4>2. f[j - 1] \in V
                BY <1>3, <4>1
            <4>3. QED
                BY <1>2, <3>2, <4>1, <4>2
        <3>3. QED
            BY <3>1, <3>2
    <2>2. f = [j \in i .. n |-> IF j = i THEN t ELSE F[<<f[j - 1], j>>]]
        BY <1>3 DEF Recursion
    <2> HIDE DEF F, V, n
    <2>3. QED
        BY <2>1, <2>2, Zenon
<1>5. IsRound(r)
    <2> HIDE DEF IsRound
    <2>1. QED
        BY <1>4
<1>6. SortRound(t, i, field) = r[n]
    BY RearrangedAre DEF SortRound
<1> HIDE DEF r
<1>7. \A j \in i .. n : r[j] = IF j = i THEN t ELSE Exchange(r[j - 1], i, j, field)
    BY <1>5, Zenon
<1>8. i \in P
    <2>1. r[i] = t
        BY <1>1, <1>7
    <2>2. t \in V /\ \A k \in i .. i : k = i
        BY <1>1
    <2>3. t[i][field] \in Int
        <3>1. t[i] \in Contents(s)
            BY RearrangedAre
        <3>2. QED
            BY <3>1 DEF Contents
    <2>4. QED
        BY <1>1, <2>1, <2>2, <2>3 DEF Rounded
<1>9. ASSUME NEW j \in i .. n - 1, j \in P
      PROVE  j + 1 \in P
    <2>1. j + 1 \in i .. n /\ j + 1 # i /\ j + 1 - 1 = j
        BY <1>1
    <2>2. r[j + 1] = Exchange(r[j], i, j + 1, field)
        BY <1>7, <2>1
    <2>3. Rounded(s, t, Exchange(r[j], i, j + 1, field), i, j + 1, field)
        BY <1>9, RoundStep
    <2>4. QED
        BY <2>1, <2>2, <2>3
<1> HIDE DEF P
<1>10. \A j \in i .. n : j \in P
    BY <1>1, <1>8, <1>9, Ascend
<1>11. QED
    BY <1>1, <1>6, <1>10 DEF P

\* What ExchangeSort returns: the same values, and none before a smaller one.
SortedBy(s, t, field) ==
    /\ t \in Rearranged(s)
    /\ \A j, k \in 1 .. Len(s) : j < k => t[j][field] <= t[k][field]

\* After i rounds the first i places are as they will be.
InOrder(s, t, i, field) ==
    /\ t \in Rearranged(s)
    /\ \A j \in 1 .. i, k \in 1 .. Len(s) : j < k => t[j][field] <= t[k][field]

LEMMA RoundsOrder ==
    ASSUME NEW s, Len(s) \in Nat, NEW field, \A k \in 1 .. Len(s) : s[k][field] \in Int,
           NEW i \in 0 .. Len(s) - 1, NEW t, InOrder(s, t, i, field)
    PROVE  InOrder(s, SortRound(t, i + 1, field), i + 1, field)
<1>1. PICK n, e, u :
          /\ n \in Nat /\ n = Len(s) /\ e \in 1 .. n /\ e = i + 1
          /\ u = SortRound(t, e, field)
    OBVIOUS
<1>2. t \in Rearranged(s)
    BY DEF InOrder
<1>3. Rounded(s, t, u, e, n, field)
    BY <1>1, <1>2, RoundIs
<1>4. ASSUME NEW j \in 1 .. e, NEW k \in 1 .. n, j < k
      PROVE  u[j][field] <= u[k][field]
    <2>1. CASE j = e
        <3>1. k \in e .. n
            BY <1>1, <1>4, <2>1
        <3>2. QED
            BY <1>3, <2>1, <3>1 DEF Rounded
    <2>2. CASE j # e
        <3>1. j \in 1 .. i /\ j \in 1 .. e - 1
            BY <1>1, <2>2
        <3>2. u[j] = t[j]
            BY <1>3, <3>1 DEF Rounded
        <3>3. PICK l \in 1 .. n : j < l /\ u[k] = t[l]
            <4>1. CASE k < e
                <5>1. k \in 1 .. e - 1
                    BY <4>1, <1>1
                <5>2. QED
                    BY <1>3, <1>4, <5>1 DEF Rounded
            <4>2. CASE ~(k < e)
                <5>1. k \in e .. n
                    BY <1>1, <4>2
                <5>2. PICK l \in e .. n : u[k] = t[l]
                    BY <1>1, <1>3, <5>1 DEF Rounded
                <5>3. l \in 1 .. n /\ j < l
                    BY <1>1, <3>1, <5>2
                <5>4. QED
                    BY <5>2, <5>3
            <4>3. QED
                BY <4>1, <4>2
        <3>4. t[j][field] <= t[l][field]
            BY <1>1, <3>1, <3>3 DEF InOrder
        <3>5. QED
            BY <3>2, <3>3, <3>4
    <2>3. QED
        BY <2>1, <2>2
<1>5. u \in Rearranged(s)
    BY <1>3 DEF Rounded
<1>6. QED
    BY <1>1, <1>4, <1>5 DEF InOrder

LEMMA SortSorts ==
    ASSUME NEW s, Len(s) \in Nat, DOMAIN s = 1 .. Len(s), NEW field,
           s = [k \in 1 .. Len(s) |-> s[k]], \A k \in 1 .. Len(s) : s[k][field] \in Int
    PROVE  SortedBy(s, ExchangeSort(s, field), field)
<1> DEFINE n == Len(s)
           IsSort(r) == r = [i \in 0 .. n |-> IF i = 0 THEN s ELSE SortRound(r[i - 1], i, field)]
           r == CHOOSE r : IsSort(r)
           V == Rearranged(s)
           F == [p \in V \X (0 + 1 .. n) |-> SortRound(p[1], p[2], field)]
           P == {i \in 0 .. n : InOrder(s, r[i], i, field)}
<1>1. 0 \in Int /\ n \in Int /\ 0 <= n /\ n \in Nat
    OBVIOUS
<1>2. ASSUME NEW v \in V, NEW i \in 0 + 1 .. n
      PROVE  F[<<v, i>>] = SortRound(v, i, field) /\ F[<<v, i>>] \in V
    <2>1. F[<<v, i>>] = SortRound(v, i, field)
        OBVIOUS
    <2>2. i \in 1 .. Len(s)
        BY <1>1
    <2>3. SortRound(v, i, field) \in V
        BY <2>2, RoundIs DEF Rounded
    <2>4. QED
        BY <2>1, <2>3
<1>3. s \in V
    BY DEF Rearranged, Contents
<1>4. PICK f \in [0 .. n -> V] : Recursion(f, 0, n, s, F)
    <2> HIDE DEF F, V, n
    <2>1. QED
        BY <1>1, <1>2, <1>3, RecursionExists
<1>5. IsSort(f)
    <2>1. ASSUME NEW i \in 0 .. n
          PROVE  (IF i = 0 THEN s ELSE F[<<f[i - 1], i>>])
                     = IF i = 0 THEN s ELSE SortRound(f[i - 1], i, field)
        <3>1. CASE i = 0
            BY <3>1
        <3>2. CASE i # 0
            <4>1. i \in 0 + 1 .. n /\ i - 1 \in 0 .. n
                BY <1>1, <3>2
            <4> HIDE DEF F, V, n
            <4>2. f[i - 1] \in V
                BY <1>4, <4>1
            <4>3. QED
                BY <1>2, <3>2, <4>1, <4>2
        <3>3. QED
            BY <3>1, <3>2
    <2>2. f = [i \in 0 .. n |-> IF i = 0 THEN s ELSE F[<<f[i - 1], i>>]]
        BY <1>4 DEF Recursion
    <2> HIDE DEF F, V, n
    <2>3. QED
        BY <2>1, <2>2, Zenon
<1>6. IsSort(r)
    <2> HIDE DEF IsSort
    <2>1. QED
        BY <1>5
<1>7. ExchangeSort(s, field) = r[n]
    BY DEF ExchangeSort
<1> HIDE DEF r
<1>8. \A i \in 0 .. n : r[i] = IF i = 0 THEN s ELSE SortRound(r[i - 1], i, field)
    BY <1>6, Zenon
<1>9. 0 \in P
    BY <1>1, <1>3, <1>8 DEF InOrder
<1>10. ASSUME NEW i \in 0 .. n - 1, i \in P
      PROVE  i + 1 \in P
    <2>1. i + 1 \in 0 .. n /\ i + 1 # 0 /\ i + 1 - 1 = i
        BY <1>1
    <2>2. r[i + 1] = SortRound(r[i], i + 1, field)
        BY <1>8, <2>1
    <2>3. InOrder(s, SortRound(r[i], i + 1, field), i + 1, field)
        BY <1>10, RoundsOrder
    <2>4. QED
        BY <2>1, <2>2, <2>3
<1> HIDE DEF P
<1>11. \A i \in 0 .. n : i \in P
    BY <1>1, <1>9, <1>10, Ascend
<1>12. InOrder(s, r[n], n, field)
    BY <1>1, <1>11 DEF P
<1>13. QED
    BY <1>7, <1>12 DEF InOrder, SortedBy

-----------------------------------------------------------------------------
(* Windows.                                                                *)

\* Windows with phases within the cycle.
Arcs == [from : 0 .. Circle - 1, to : 0 .. Circle - 1]

\* An arc contains a phase of the cycle.
Holds(w, p) == IF w.from > w.to THEN p >= w.from \/ p <= w.to ELSE w.from <= p /\ p <= w.to

LEMMA WrapPhaseOf ==
    ASSUME NEW p \in 0 .. Circle - 1
    PROVE  WrapPhase(p) = p
<1>1. PICK c \in Nat \ {0} : c = Circle
    BY BinsAssumption DEF Circle
<1>2. p % c = p
    BY <1>1
<1>3. QED
    BY <1>1, <1>2 DEF WrapPhase

LEMMA NormalizeIs ==
    ASSUME NEW w, w.from \in Int, w.to \in Int
    PROVE  /\ Normalize(w) \in Arcs
           /\ w \in Arcs => Normalize(w) = w
           /\ Wraps(w) <=> Normalize(w).from > Normalize(w).to
           /\ \A p \in 0 .. Circle - 1 : WindowContains(w, p) <=> Holds(Normalize(w), p)
<1>1. WrapPhase(w.from) \in 0 .. Circle - 1 /\ WrapPhase(w.to) \in 0 .. Circle - 1
    BY WrapPhaseType
<1>2. Normalize(w) \in Arcs
    BY <1>1 DEF Normalize, Arcs
<1>3. ASSUME w \in Arcs
      PROVE  Normalize(w) = w
    <2>1. w.from \in 0 .. Circle - 1 /\ w.to \in 0 .. Circle - 1 /\ w = [from |-> w.from, to |-> w.to]
        BY <1>3 DEF Arcs
    <2>2. QED
        BY <2>1, WrapPhaseOf DEF Normalize
<1>4. ASSUME NEW p \in 0 .. Circle - 1
      PROVE  WindowContains(w, p) <=> Holds(Normalize(w), p)
    <2>1. WrapPhase(p) = p
        BY WrapPhaseOf
    <2>2. QED
        BY <2>1 DEF WindowContains, Wraps, Holds
<1>5. QED
    BY <1>2, <1>3, <1>4 DEF Wraps

LEMMA ArcIs ==
    ASSUME NEW w \in Arcs
    PROVE  w.from \in Int /\ w.to \in Int /\ w = [from |-> w.from, to |-> w.to]
<1>1. PICK c \in Int : c = Circle
    BY BinsAssumption DEF Circle
<1>2. QED
    BY <1>1 DEF Arcs

LEMMA LargerIs ==
    ASSUME NEW x \in Int, NEW y \in Int
    PROVE  Max({x, y}) = IF x < y THEN y ELSE x
<1>1. PICK z \in {x, y} : z = (IF x < y THEN y ELSE x) /\ \A v \in {x, y} : v <= z
    OBVIOUS
<1>2. Max({x, y}) = z
    BY <1>1, MaxOnly
<1>3. QED
    BY <1>1, <1>2

\* The two ways to take in the next window.
LEMMA AbsorbIs ==
    ASSUME NEW m \in Seq(Arcs), NEW w \in Arcs
    PROVE  LET a == Absorb(m, w)
               n == Len(m)
           IN  /\ a \in Seq(Arcs) /\ a # << >>
               /\ \/ /\ n # 0 /\ w.from <= m[n].to
                     /\ Len(a) = n
                     /\ \A k \in 1 .. n - 1 : a[k] = m[k]
                     /\ a[n].from = m[n].from
                     /\ a[n].to = IF m[n].to < w.to THEN w.to ELSE m[n].to
                  \/ /\ n # 0 => ~(w.from <= m[n].to)
                     /\ Len(a) = n + 1
                     /\ \A k \in 1 .. n : a[k] = m[k]
                     /\ a[n + 1] = w
<1>1. PICK n \in Nat : n = Len(m) /\ DOMAIN m = 1 .. n /\ (m = << >> <=> n = 0)
    BY LenProperties, EmptySeq
<1>2. \A k \in 1 .. n : m[k] \in Arcs
    BY <1>1, ElementOfSeq
<1>3. CASE n # 0 /\ w.from <= m[n].to
    <2>1. n \in 1 .. n /\ Last(m) = m[n] /\ n - 1 \in Nat
        BY <1>1, <1>3 DEF Last
    <2>2. m[n] \in Arcs
        BY <1>2, <2>1
    <2>3. PICK f \in Seq(Arcs) : f = Front(m) /\ Len(f) = n - 1 /\ \A k \in 1 .. n - 1 : f[k] = m[k]
        <3>1. /\ SubSeq(m, 1, n - 1) \in Seq(Arcs) /\ Len(SubSeq(m, 1, n - 1)) = n - 1
              /\ \A k \in 1 .. n - 1 : SubSeq(m, 1, n - 1)[k] = m[k]
            BY <1>1, <2>1
        <3>2. QED
            BY <1>1, <3>1 DEF Front
    <2>4. PICK x, y : /\ x = m[n].to /\ x \in Int /\ y = w.to /\ y \in Int
                      /\ x \in 0 .. Circle - 1 /\ y \in 0 .. Circle - 1
        BY <2>2, ArcIs DEF Arcs
    <2>5. Max({x, y}) = IF x < y THEN y ELSE x
        BY <2>4, LargerIs
    <2>6. PICK v : /\ v = [m[n] EXCEPT !.to = FurtherEnd(m[n], w)] /\ v \in Arcs
                   /\ v.from = m[n].from /\ v.to = IF x < y THEN y ELSE x
        <3>1. FurtherEnd(m[n], w) = IF x < y THEN y ELSE x
            BY <2>4, <2>5 DEF FurtherEnd
        <3>2. PICK u, z : /\ u = m[n] /\ u \in Arcs /\ z = FurtherEnd(m[n], w)
                          /\ z \in 0 .. Circle - 1
            BY <2>2, <2>4, <3>1
        <3>3. /\ [u EXCEPT !.to = z] \in Arcs /\ [u EXCEPT !.to = z].from = u.from
              /\ [u EXCEPT !.to = z].to = z
            BY <3>2 DEF Arcs
        <3>4. QED
            BY <3>1, <3>2, <3>3
    <2>7. Absorb(m, w) = Append(f, v)
        BY <1>1, <1>3, <2>1, <2>3, <2>6 DEF Absorb
    <2>8. /\ Append(f, v) \in Seq(Arcs) /\ Len(Append(f, v)) = n
          /\ \A k \in 1 .. n - 1 : Append(f, v)[k] = f[k]
          /\ Append(f, v)[n] = v
        <3>1. Len(f) + 1 = n
            BY <1>1, <2>3
        <3>2. QED
            BY <2>3, <2>6, <3>1, AppendProperties
    <2>9. Append(f, v) # << >>
        BY <1>3, <2>8, EmptySeq
    <2>10. QED
        BY <1>1, <1>3, <2>3, <2>4, <2>6, <2>7, <2>8, <2>9
<1>4. CASE ~(n # 0 /\ w.from <= m[n].to)
    <2>1. Absorb(m, w) = Append(m, w)
        BY <1>1, <1>4 DEF Absorb, Last
    <2>2. /\ Append(m, w) \in Seq(Arcs) /\ Len(Append(m, w)) = n + 1
          /\ \A k \in 1 .. n : Append(m, w)[k] = m[k]
          /\ Append(m, w)[n + 1] = w
        BY <1>1, AppendProperties
    <2>3. Append(m, w) # << >>
        BY <1>1, <2>2
    <2>4. QED
        BY <1>1, <1>4, <2>1, <2>2, <2>3
<1>5. QED
    BY <1>3, <1>4

\* What is left of the first k of the arcs ws, which come by their start.
Absorbed(ws, m, k) ==
    /\ m \in Seq(Arcs) /\ (k # 0 => Len(m) # 0)
    /\ \A i \in 1 .. Len(m), p \in 0 .. Circle - 1 :
          Holds(m[i], p) => \E j \in 1 .. k : Holds(ws[j], p)
    /\ Len(m) # 0 => \E j \in 1 .. k : m[Len(m)].from = ws[j].from

\* The same when none of them goes around the zero.
AbsorbedFlat(ws, m, k) ==
    /\ \A j \in 1 .. k, p \in 0 .. Circle - 1 :
          Holds(ws[j], p) => \E i \in 1 .. Len(m) : Holds(m[i], p)
    /\ \A i \in 1 .. Len(m) : m[i].from <= m[i].to
    /\ \A i \in 2 .. Len(m) : m[i - 1].to < m[i].from

ByStart(ws) ==
    /\ ws \in Seq(Arcs)
    /\ \A j, k \in 1 .. Len(ws) : j < k => ws[j].from <= ws[k].from

\* A phase of the larger end is in the arc that was there or in the new one.
LEMMA EitherHolds ==
    ASSUME NEW last \in Arcs, NEW w \in Arcs, NEW v \in Arcs,
           last.from <= w.from, w.from <= last.to, v.from = last.from,
           v.to = IF last.to < w.to THEN w.to ELSE last.to,
           NEW p \in 0 .. Circle - 1
    PROVE  /\ last.from <= last.to /\ v.from <= v.to
           /\ Holds(v, p) => Holds(last, p) \/ Holds(w, p)
           /\ Holds(last, p) => Holds(v, p)
           /\ w.from <= w.to => (Holds(w, p) => Holds(v, p))
<1>1. PICK a, b, c, d, x :
          /\ a \in Int /\ a = last.from /\ b \in Int /\ b = last.to
          /\ c \in Int /\ c = w.from /\ d \in Int /\ d = w.to
          /\ x \in Int /\ x = v.to
    BY ArcIs
<1>2. a <= c /\ c <= b /\ v.from = a /\ x = IF b < d THEN d ELSE b
    BY <1>1
<1>3. p \in Int
    BY BinsAssumption DEF Circle
<1>4. QED
    BY <1>1, <1>2, <1>3 DEF Holds

LEMMA AbsorbHolds ==
    ASSUME NEW ws, ByStart(ws), NEW k \in 0 .. Len(ws) - 1, NEW m, Absorbed(ws, m, k)
    PROVE  /\ Absorbed(ws, Absorb(m, ws[k + 1]), k + 1)
           /\ (\A j \in 1 .. Len(ws) : ws[j].from <= ws[j].to) /\ AbsorbedFlat(ws, m, k)
                 => AbsorbedFlat(ws, Absorb(m, ws[k + 1]), k + 1)
<1>1. PICK n, l, e, w, a :
          /\ n \in Nat /\ n = Len(ws) /\ l \in Nat /\ l = Len(m)
          /\ e = k + 1 /\ e \in 1 .. n /\ w = ws[e] /\ a = Absorb(m, w)
          /\ k \in Nat
    <2>1. Len(ws) \in Nat /\ Len(m) \in Nat
        BY LenProperties DEF ByStart, Absorbed
    <2>2. PICK n, l : n \in Nat /\ n = Len(ws) /\ l \in Nat /\ l = Len(m)
        BY <2>1
    <2>3. PICK e : e = k + 1 /\ e \in 1 .. n /\ k \in Nat
        BY <2>2
    <2>4. QED
        BY <2>2, <2>3, Zenon
<1>2. w \in Arcs /\ \A j \in 1 .. n : ws[j] \in Arcs
    BY <1>1, ElementOfSeq, LenProperties DEF ByStart
<1>3. \A i \in 1 .. l : m[i] \in Arcs
    BY <1>1, ElementOfSeq, LenProperties DEF Absorbed
<1>4. /\ \A i \in 1 .. l, p \in 0 .. Circle - 1 :
            Holds(m[i], p) => \E j \in 1 .. k : Holds(ws[j], p)
      /\ l # 0 => \E j \in 1 .. k : m[l].from = ws[j].from
      /\ k # 0 => l # 0
    BY <1>1 DEF Absorbed
<1>5. l # 0 => m[l].from <= w.from
    <2>1. SUFFICES ASSUME l # 0
                   PROVE  m[l].from <= w.from
        OBVIOUS
    <2>2. PICK j \in 1 .. k : m[l].from = ws[j].from
        BY <1>4, <2>1
    <2>3. j \in 1 .. n /\ j < e
        BY <1>1
    <2>4. ws[j].from <= ws[e].from
        BY <1>1, <2>3 DEF ByStart
    <2>5. QED
        BY <1>1, <2>2, <2>4
<1>6. a \in Seq(Arcs) /\ a # << >>
    BY <1>1, <1>2, AbsorbIs DEF Absorbed
<1>7. \A j \in 1 .. e : j \in 1 .. k \/ j = e
    BY <1>1
<1>8. 1 .. k \subseteq 1 .. e /\ e \in 1 .. e
    BY <1>1
<1>9. CASE /\ l # 0 /\ w.from <= m[l].to
           /\ Len(a) = l
           /\ \A i \in 1 .. l - 1 : a[i] = m[i]
           /\ a[l].from = m[l].from
           /\ a[l].to = IF m[l].to < w.to THEN w.to ELSE m[l].to
    <2>1. l \in 1 .. l /\ \A i \in 1 .. l : i \in 1 .. l - 1 \/ i = l
        BY <1>1, <1>9
    <2>2. a[l] \in Arcs
        BY <1>6, <1>9, <2>1, ElementOfSeq, LenProperties
    <2>3. ASSUME NEW p \in 0 .. Circle - 1
          PROVE  /\ m[l].from <= m[l].to /\ a[l].from <= a[l].to
                 /\ Holds(a[l], p) => Holds(m[l], p) \/ Holds(w, p)
                 /\ Holds(m[l], p) => Holds(a[l], p)
                 /\ w.from <= w.to => (Holds(w, p) => Holds(a[l], p))
        BY <1>2, <1>3, <1>5, <1>9, <2>1, <2>2, EitherHolds
    <2>4. ASSUME NEW i \in 1 .. l, NEW p \in 0 .. Circle - 1, Holds(a[i], p)
          PROVE  \E j \in 1 .. e : Holds(ws[j], p)
        <3>1. Holds(m[i], p) \/ Holds(w, p)
            BY <1>9, <2>1, <2>3, <2>4
        <3>2. QED
            BY <1>1, <1>4, <1>8, <3>1
    <2>5. \E j \in 1 .. e : a[l].from = ws[j].from
        BY <1>4, <1>8, <1>9
    <2>6. Absorbed(ws, a, e)
        BY <1>6, <1>9, <2>4, <2>5 DEF Absorbed
    <2>7. ASSUME \A j \in 1 .. n : ws[j].from <= ws[j].to, AbsorbedFlat(ws, m, k)
          PROVE  AbsorbedFlat(ws, a, e)
        <3>1. /\ \A j \in 1 .. k, p \in 0 .. Circle - 1 :
                    Holds(ws[j], p) => \E i \in 1 .. l : Holds(m[i], p)
              /\ \A i \in 1 .. l : m[i].from <= m[i].to
              /\ \A i \in 2 .. l : m[i - 1].to < m[i].from
            BY <1>1, <2>7 DEF AbsorbedFlat
        <3>2. w.from <= w.to
            BY <1>1, <2>7
        <3>3. ASSUME NEW j \in 1 .. e, NEW p \in 0 .. Circle - 1, Holds(ws[j], p)
              PROVE  \E i \in 1 .. l : Holds(a[i], p)
            <4>1. CASE j = e
                BY <1>1, <2>1, <2>3, <3>2, <3>3, <4>1
            <4>2. CASE j # e
                <5>1. PICK i \in 1 .. l : Holds(m[i], p)
                    BY <1>7, <3>1, <3>3, <4>2
                <5>2. QED
                    BY <1>9, <2>1, <2>3, <5>1
            <4>3. QED
                BY <4>1, <4>2
        <3>4. ASSUME NEW i \in 1 .. l
              PROVE  a[i].from <= a[i].to
            <4>1. 0 \in 0 .. Circle - 1
                BY BinsAssumption DEF Circle
            <4>2. QED
                BY <1>9, <2>1, <2>3, <3>1, <4>1
        <3>5. ASSUME NEW i \in 2 .. l
              PROVE  a[i - 1].to < a[i].from
            <4>1. i - 1 \in 1 .. l - 1 /\ i \in 1 .. l
                BY <1>1
            <4>2. a[i - 1] = m[i - 1] /\ a[i].from = m[i].from
                BY <1>9, <2>1, <4>1
            <4>3. QED
                BY <3>1, <4>2
        <3>6. QED
            BY <1>9, <3>3, <3>4, <3>5 DEF AbsorbedFlat
    <2>8. QED
        BY <1>1, <2>6, <2>7
<1>10. CASE /\ l # 0 => ~(w.from <= m[l].to)
            /\ Len(a) = l + 1
            /\ \A i \in 1 .. l : a[i] = m[i]
            /\ a[l + 1] = w
    <2>1. l + 1 \in 1 .. l + 1 /\ \A i \in 1 .. l + 1 : i \in 1 .. l \/ i = l + 1
        BY <1>1
    <2>2. ASSUME NEW i \in 1 .. l + 1, NEW p \in 0 .. Circle - 1, Holds(a[i], p)
          PROVE  \E j \in 1 .. e : Holds(ws[j], p)
        BY <1>1, <1>4, <1>8, <1>10, <2>1, <2>2
    <2>3. Absorbed(ws, a, e)
        BY <1>1, <1>6, <1>8, <1>10, <2>2 DEF Absorbed
    <2>4. ASSUME \A j \in 1 .. n : ws[j].from <= ws[j].to, AbsorbedFlat(ws, m, k)
          PROVE  AbsorbedFlat(ws, a, e)
        <3>1. /\ \A j \in 1 .. k, p \in 0 .. Circle - 1 :
                    Holds(ws[j], p) => \E i \in 1 .. l : Holds(m[i], p)
              /\ \A i \in 1 .. l : m[i].from <= m[i].to
              /\ \A i \in 2 .. l : m[i - 1].to < m[i].from
            BY <1>1, <2>4 DEF AbsorbedFlat
        <3>2. w.from <= w.to
            BY <1>1, <2>4
        <3>3. ASSUME NEW j \in 1 .. e, NEW p \in 0 .. Circle - 1, Holds(ws[j], p)
              PROVE  \E i \in 1 .. l + 1 : Holds(a[i], p)
            <4>1. CASE j = e
                BY <1>1, <1>10, <2>1, <3>3, <4>1
            <4>2. CASE j # e
                <5>1. PICK i \in 1 .. l : Holds(m[i], p)
                    BY <1>7, <3>1, <3>3, <4>2
                <5>2. i \in 1 .. l + 1 /\ a[i] = m[i]
                    BY <1>1, <1>10
                <5>3. QED
                    BY <5>1, <5>2
            <4>3. QED
                BY <4>1, <4>2
        <3>4. ASSUME NEW i \in 1 .. l + 1
              PROVE  a[i].from <= a[i].to
            BY <1>10, <2>1, <3>1, <3>2
        <3>5. ASSUME NEW i \in 2 .. l + 1
              PROVE  a[i - 1].to < a[i].from
            <4>1. CASE i = l + 1
                <5>1. l # 0 /\ l \in 1 .. l /\ i - 1 = l
                    BY <1>1, <4>1
                <5>2. m[l].to \in Int /\ w.from \in Int
                    BY <1>2, <1>3, <5>1, ArcIs
                <5>3. QED
                    BY <1>10, <4>1, <5>1, <5>2
            <4>2. CASE i # l + 1
                <5>1. i \in 2 .. l /\ i \in 1 .. l /\ i - 1 \in 1 .. l
                    BY <1>1, <4>2
                <5>2. QED
                    BY <1>10, <3>1, <5>1
            <4>3. QED
                BY <4>1, <4>2
        <3>6. QED
            BY <1>10, <3>3, <3>4, <3>5 DEF AbsorbedFlat
    <2>5. QED
        BY <1>1, <2>3, <2>4
<1>11. QED
    <2>1. m \in Seq(Arcs)
        BY DEF Absorbed
    <2>2. \/ /\ l # 0 /\ w.from <= m[l].to
             /\ Len(a) = l
             /\ \A i \in 1 .. l - 1 : a[i] = m[i]
             /\ a[l].from = m[l].from
             /\ a[l].to = IF m[l].to < w.to THEN w.to ELSE m[l].to
          \/ /\ l # 0 => ~(w.from <= m[l].to)
             /\ Len(a) = l + 1
             /\ \A i \in 1 .. l : a[i] = m[i]
             /\ a[l + 1] = w
        <3>1. a = Absorb(m, w) /\ l = Len(m)
            BY <1>1
        <3>2. QED
            BY <1>2, <2>1, <3>1, AbsorbIs, Zenon
    <2>3. QED
        BY <1>9, <1>10, <2>2, Zenon

\* What merging the arcs ws returns.
Merged(ws, m) ==
    /\ m \in Seq(Arcs)
    /\ \A i \in 1 .. Len(m), p \in 0 .. Circle - 1 :
          Holds(m[i], p) => \E j \in 1 .. Len(ws) : Holds(ws[j], p)
    /\ (\A j \in 1 .. Len(ws) : ws[j].from <= ws[j].to)
          => /\ \A j \in 1 .. Len(ws), p \in 0 .. Circle - 1 :
                   Holds(ws[j], p) => \E i \in 1 .. Len(m) : Holds(m[i], p)
             /\ \A i \in 2 .. Len(m) : m[i - 1].to < m[i].from

LEMMA ArcsMerged ==
    ASSUME NEW ws, ByStart(ws)
    PROVE  LET merged[k \in 0 .. Len(ws)] ==
                   IF k = 0 THEN <<>> ELSE Absorb(merged[k - 1], ws[k])
           IN  Merged(ws, merged[Len(ws)])
<1> DEFINE n == Len(ws)
           Is(r) == r = [k \in 0 .. n |-> IF k = 0 THEN << >> ELSE Absorb(r[k - 1], ws[k])]
           r == CHOOSE r : Is(r)
           V == Seq(Arcs)
           F == [p \in V \X (0 + 1 .. n) |-> Absorb(p[1], ws[p[2]])]
           flat == \A j \in 1 .. n : ws[j].from <= ws[j].to
           P == {k \in 0 .. n : Absorbed(ws, r[k], k) /\ (flat => AbsorbedFlat(ws, r[k], k))}
<1>1. n \in Nat /\ 0 \in Int /\ n \in Int /\ 0 <= n
    BY LenProperties DEF ByStart
<1>2. \A k \in 1 .. n : ws[k] \in Arcs
    BY ElementOfSeq, LenProperties DEF ByStart
<1>3. ASSUME NEW v \in V, NEW k \in 0 + 1 .. n
      PROVE  F[<<v, k>>] = Absorb(v, ws[k]) /\ F[<<v, k>>] \in V
    <2>1. F[<<v, k>>] = Absorb(v, ws[k])
        OBVIOUS
    <2>2. k \in 1 .. n
        BY <1>1
    <2>3. Absorb(v, ws[k]) \in V
        BY <1>2, <2>2, AbsorbIs
    <2>4. QED
        BY <2>1, <2>3
<1>4. << >> \in V
    OBVIOUS
<1>5. PICK f \in [0 .. n -> V] : Recursion(f, 0, n, << >>, F)
    <2> HIDE DEF F, V, n
    <2>1. QED
        BY <1>1, <1>3, <1>4, RecursionExists
<1>6. Is(f)
    <2>1. ASSUME NEW k \in 0 .. n
          PROVE  (IF k = 0 THEN << >> ELSE F[<<f[k - 1], k>>])
                     = IF k = 0 THEN << >> ELSE Absorb(f[k - 1], ws[k])
        <3>1. CASE k = 0
            BY <3>1
        <3>2. CASE k # 0
            <4>1. k \in 0 + 1 .. n /\ k - 1 \in 0 .. n
                BY <1>1, <3>2
            <4> HIDE DEF F, V, n
            <4>2. f[k - 1] \in V
                BY <1>5, <4>1
            <4>3. QED
                BY <1>3, <3>2, <4>1, <4>2
        <3>3. QED
            BY <3>1, <3>2
    <2>2. f = [k \in 0 .. n |-> IF k = 0 THEN << >> ELSE F[<<f[k - 1], k>>]]
        BY <1>5 DEF Recursion
    <2> HIDE DEF F, V, n
    <2>3. QED
        BY <2>1, <2>2, Zenon
<1>7. Is(r)
    <2> HIDE DEF Is
    <2>1. QED
        BY <1>6
<1> HIDE DEF r
<1>8. \A k \in 0 .. n : r[k] = IF k = 0 THEN << >> ELSE Absorb(r[k - 1], ws[k])
    BY <1>7, Zenon
<1>9. 0 \in P
    <2>1. r[0] = << >> /\ 0 \in 0 .. n
        BY <1>1, <1>8
    <2>2. Len(<< >>) = 0 /\ << >> \in Seq(Arcs)
        OBVIOUS
    <2>3. Absorbed(ws, << >>, 0)
        BY <2>2 DEF Absorbed
    <2>4. AbsorbedFlat(ws, << >>, 0)
        BY <2>2 DEF AbsorbedFlat
    <2>5. QED
        BY <2>1, <2>3, <2>4
<1>10. ASSUME NEW k \in 0 .. n - 1, k \in P
       PROVE  k + 1 \in P
    <2>1. k + 1 \in 0 .. n /\ k + 1 # 0 /\ k + 1 - 1 = k
        BY <1>1
    <2>2. r[k + 1] = Absorb(r[k], ws[k + 1])
        BY <1>8, <2>1
    <2>3. PICK m : m = r[k] /\ Absorbed(ws, m, k) /\ (flat => AbsorbedFlat(ws, m, k))
        BY <1>10
    <2>4. /\ Absorbed(ws, Absorb(m, ws[k + 1]), k + 1)
          /\ flat /\ AbsorbedFlat(ws, m, k) => AbsorbedFlat(ws, Absorb(m, ws[k + 1]), k + 1)
        BY <2>3, AbsorbHolds
    <2> HIDE DEF flat
    <2>5. QED
        BY <2>1, <2>2, <2>3, <2>4
<1>11. n \in P
    <2> HIDE DEF P
    <2>1. \A k \in 0 .. n : k \in P
        BY <1>1, <1>9, <1>10, Ascend
    <2>2. QED
        BY <1>1, <2>1
<1>12. Merged(ws, r[n])
    BY <1>11 DEF Merged, Absorbed, AbsorbedFlat
<1>13. QED
    BY <1>12 DEF r

\* What the property says of a list of windows.
Covering(windows) ==
    LET merged == MergeOverlapping(windows)
        flat == \A i \in DOMAIN windows : ~Wraps(windows[i])
    IN  /\ Covered(merged) \subseteq Covered(windows)
        /\ flat => /\ Covered(merged) = Covered(windows)
                   /\ \A i \in 2 .. Len(merged) : merged[i - 1].to < merged[i].from

\* The windows within the cycle, in the order in which they are merged.
LEMMA SortedWindows ==
    ASSUME NEW windows \in Seq([from : Edges, to : Edges]),
           NEW s, s = [i \in DOMAIN windows |-> Normalize(windows[i])],
           NEW ws, ws = ExchangeSort(s, "from")
    PROVE  /\ ByStart(ws) /\ Len(ws) = Len(windows)
           /\ \A p \in 0 .. Circle - 1 :
                 (\E j \in 1 .. Len(ws) : Holds(ws[j], p))
                     <=> \E i \in DOMAIN windows : WindowContains(windows[i], p)
           /\ (\A i \in DOMAIN windows : ~Wraps(windows[i]))
                 => \A j \in 1 .. Len(ws) : ws[j].from <= ws[j].to
<1>1. PICK n \in Nat : n = Len(windows) /\ DOMAIN windows = 1 .. n
    BY LenProperties
<1>2. ASSUME NEW i \in 1 .. n
      PROVE  windows[i].from \in Int /\ windows[i].to \in Int
    <2>1. windows[i] \in [from : Edges, to : Edges]
        BY <1>1, ElementOfSeq
    <2>2. windows[i].from \in Edges /\ windows[i].to \in Edges
        BY <2>1
    <2>3. QED
        BY <2>2, InputsAssumption
<1>3. ASSUME NEW i \in 1 .. n
      PROVE  /\ s[i] \in Arcs /\ (Wraps(windows[i]) <=> s[i].from > s[i].to)
             /\ \A p \in 0 .. Circle - 1 : WindowContains(windows[i], p) <=> Holds(s[i], p)
    <2>1. s[i] = Normalize(windows[i])
        BY <1>1
    <2>2. QED
        BY <1>2, <2>1, NormalizeIs
<1>4. s \in Seq(Arcs) /\ Len(s) = n /\ DOMAIN s = 1 .. n /\ s = [k \in 1 .. n |-> s[k]]
    <2>1. s \in [1 .. n -> Arcs] /\ s = [k \in 1 .. n |-> s[k]]
        BY <1>1, <1>3
    <2>2. s \in Seq(Arcs)
        BY <2>1
    <2>3. QED
        BY <2>1, <2>2, LenProperties
<1>5. \A k \in 1 .. n : s[k]["from"] \in Int
    <2>1. ASSUME NEW k \in 1 .. n
          PROVE  s[k]["from"] \in Int
        <3>1. s[k] \in Arcs
            BY <1>3
        <3>2. s[k].from \in Int
            BY <3>1, ArcIs
        <3>3. QED
            BY <3>2
    <2>2. QED
        BY <2>1
<1>6. SortedBy(s, ws, "from")
    BY <1>1, <1>4, <1>5, SortSorts
<1>7. /\ Len(ws) = n /\ DOMAIN ws = 1 .. n
      /\ {ws[k] : k \in 1 .. n} = {s[k] : k \in 1 .. n}
    <2>1. ws \in Rearranged(s) /\ Len(s) = n
        BY <1>4, <1>6 DEF SortedBy
    <2>2. Len(ws) = n /\ DOMAIN ws = 1 .. n
        BY <2>1, RearrangedAre
    <2>3. {ws[k] : k \in 1 .. n} = {s[k] : k \in 1 .. n}
        BY <2>1 DEF Rearranged, Contents
    <2>4. QED
        BY <2>2, <2>3
<1>8. ASSUME NEW j \in 1 .. n
      PROVE  \E i \in 1 .. n : ws[j] = s[i]
    <2>1. ws[j] \in {ws[k] : k \in 1 .. n}
        OBVIOUS
    <2>2. ws[j] \in {s[k] : k \in 1 .. n}
        BY <1>7, <2>1
    <2>3. QED
        BY <2>2
<1>9. ASSUME NEW i \in 1 .. n
      PROVE  \E j \in 1 .. n : s[i] = ws[j]
    <2>1. s[i] \in {s[k] : k \in 1 .. n}
        OBVIOUS
    <2>2. s[i] \in {ws[k] : k \in 1 .. n}
        BY <1>7, <2>1
    <2>3. QED
        BY <2>2
<1>10. ByStart(ws)
    <2>1. \A j \in 1 .. n : ws[j] \in Arcs
        BY <1>3, <1>8
    <2>2. ws \in [1 .. n -> Contents(s)]
        BY <1>4, <1>6 DEF SortedBy, Rearranged
    <2>3. ws \in [1 .. n -> Arcs]
        BY <2>1, <2>2
    <2>4. ws \in Seq(Arcs)
        BY <2>3
    <2>5. \A j, k \in 1 .. n : j < k => ws[j]["from"] <= ws[k]["from"]
        BY <1>4, <1>6 DEF SortedBy
    <2>6. \A j, k \in 1 .. n : j < k => ws[j].from <= ws[k].from
        BY <2>5
    <2>7. QED
        BY <1>7, <2>4, <2>6 DEF ByStart
<1>11. ASSUME NEW p \in 0 .. Circle - 1
       PROVE  (\E j \in 1 .. n : Holds(ws[j], p)) <=> \E i \in 1 .. n : WindowContains(windows[i], p)
    <2>1. ASSUME NEW j \in 1 .. n, Holds(ws[j], p)
          PROVE  \E i \in 1 .. n : WindowContains(windows[i], p)
        BY <1>3, <1>8, <2>1
    <2>2. ASSUME NEW i \in 1 .. n, WindowContains(windows[i], p)
          PROVE  \E j \in 1 .. n : Holds(ws[j], p)
        BY <1>3, <1>9, <2>2
    <2>3. QED
        BY <2>1, <2>2
<1>12. ASSUME \A i \in 1 .. n : ~Wraps(windows[i]), NEW j \in 1 .. n
       PROVE  ws[j].from <= ws[j].to
    <2>1. PICK i \in 1 .. n : ws[j] = s[i]
        BY <1>8
    <2>2. s[i] \in Arcs /\ ~(s[i].from > s[i].to)
        BY <1>3, <1>12
    <2>3. s[i].from \in Int /\ s[i].to \in Int
        BY <2>2, ArcIs
    <2>4. QED
        BY <2>1, <2>2, <2>3
<1>13. QED
    BY <1>1, <1>7, <1>10, <1>11, <1>12

LEMMA WindowsMerged ==
    ASSUME NEW windows \in Seq([from : Edges, to : Edges])
    PROVE  Covering(windows)
<1>1. PICK n \in Nat : n = Len(windows)
    BY LenProperties
<1>2. CASE n <= 1
    <2>1. MergeOverlapping(windows) = windows
        BY <1>1, <1>2 DEF MergeOverlapping
    <2>2. 2 .. n = {}
        BY <1>2
    <2>3. QED
        BY <1>1, <2>1, <2>2 DEF Covering
<1>3. CASE ~(n <= 1)
    <2>1. PICK s : s = [i \in DOMAIN windows |-> Normalize(windows[i])]
        OBVIOUS
    <2>2. PICK ws : ws = ExchangeSort(s, "from")
        OBVIOUS
    <2>3. PICK m : m = MergeOverlapping(windows)
        OBVIOUS
    <2>4. ByStart(ws)
        BY <2>1, <2>2, SortedWindows
    <2>5. Merged(ws, m)
        <3>1. m = LET merged[k \in 0 .. Len(ws)] ==
                          IF k = 0 THEN <<>> ELSE Absorb(merged[k - 1], ws[k])
                  IN  merged[Len(ws)]
            BY <1>1, <1>3, <2>1, <2>2, <2>3, Zenon DEF MergeOverlapping
        <3>2. QED
            BY <2>4, <3>1, ArcsMerged, Zenon
    <2>6. PICK l \in Nat : l = Len(m) /\ DOMAIN m = 1 .. l
        BY <2>5, LenProperties DEF Merged
    <2>7. ASSUME NEW i \in 1 .. l, NEW p \in 0 .. Circle - 1
          PROVE  WindowContains(m[i], p) <=> Holds(m[i], p)
        <3>1. m[i] \in Arcs
            BY <2>5, <2>6, ElementOfSeq DEF Merged
        <3>2. QED
            BY <3>1, ArcIs, NormalizeIs
    <2>8. ASSUME NEW p \in 0 .. Circle - 1, NEW i \in DOMAIN m, WindowContains(m[i], p)
          PROVE  \E j \in DOMAIN windows : WindowContains(windows[j], p)
        <3>1. Holds(m[i], p)
            BY <2>6, <2>7, <2>8
        <3>2. \E j \in 1 .. Len(ws) : Holds(ws[j], p)
            BY <2>5, <2>6, <3>1 DEF Merged
        <3>3. QED
            BY <2>1, <2>2, <3>2, SortedWindows
    <2>9. Covered(m) \subseteq Covered(windows)
        BY <2>8 DEF Covered
    <2>10. ASSUME \A i \in DOMAIN windows : ~Wraps(windows[i])
           PROVE  /\ Covered(windows) \subseteq Covered(m)
                  /\ \A i \in 2 .. l : m[i - 1].to < m[i].from
        <3>1. \A j \in 1 .. Len(ws) : ws[j].from <= ws[j].to
            BY <2>1, <2>2, <2>10, SortedWindows
        <3>2. /\ \A j \in 1 .. Len(ws), p \in 0 .. Circle - 1 :
                    Holds(ws[j], p) => \E i \in 1 .. l : Holds(m[i], p)
              /\ \A i \in 2 .. l : m[i - 1].to < m[i].from
            BY <2>5, <2>6, <3>1 DEF Merged
        <3>3. ASSUME NEW p \in 0 .. Circle - 1, NEW i \in DOMAIN windows, WindowContains(windows[i], p)
              PROVE  \E j \in DOMAIN m : WindowContains(m[j], p)
            <4>1. \E j \in 1 .. Len(ws) : Holds(ws[j], p)
                BY <2>1, <2>2, <3>3, SortedWindows
            <4>2. PICK j \in 1 .. l : Holds(m[j], p)
                BY <3>2, <4>1
            <4>3. QED
                BY <2>6, <2>7, <4>2
        <3>4. Covered(windows) \subseteq Covered(m)
            BY <3>3 DEF Covered
        <3>5. QED
            BY <3>2, <3>4
    <2>11. QED
        BY <2>3, <2>6, <2>9, <2>10, Zenon DEF Covering
<1>4. QED
    BY <1>2, <1>3

\* Merging windows keeps what they cover, and ends with windows apart, if none
\* goes around the zero; it never adds.
THEOREM WindowsKept == Spec => []WindowsCover
<1>1. Shaped => WindowsCover
    <2> SUFFICES ASSUME Shaped, subject.kind = "windows"
                 PROVE  Covering(subject.windows)
        BY Zenon DEF WindowsCover, Covering
    <2>1. subject.windows \in Seq([from : Edges, to : Edges])
        BY DEF Shaped, WindowsShaped
    <2>2. QED
        BY <2>1, WindowsMerged
<1>2. QED
    BY <1>1, ShapedHolds, PTL

-----------------------------------------------------------------------------
(* Matching.                                                               *)

\* The image of a finite set is not larger.
LEMMA ImageCount ==
    ASSUME NEW S, IsFiniteSet(S), NEW f
    PROVE  /\ IsFiniteSet({f[x] : x \in S})
           /\ Cardinality({f[x] : x \in S}) <= Cardinality(S)
<1>1. [x \in S |-> f[x]] \in Surjection(S, {f[x] : x \in S})
    BY DEF Surjection
<1>2. QED
    BY <1>1, FS_Surjection

LEMMA IntervalCount ==
    ASSUME NEW n \in Nat
    PROVE  IsFiniteSet(1 .. n) /\ Cardinality(1 .. n) = n
<1>1. 1 \in Int /\ n \in Int /\ n - 1 + 1 = n /\ (1 > n => n = 0)
    OBVIOUS
<1>2. IsFiniteSet(1 .. n) /\ Cardinality(1 .. n) = IF 1 > n THEN 0 ELSE n - 1 + 1
    BY <1>1, FS_Interval
<1>3. QED
    BY <1>1, <1>2

\* The places that the first of the new centres have taken.
Used(match, k) == {match[j] : j \in 1 .. k - 1}

\* The recursion of Stable, for the first n of the new centres.
Matching(match, prev, curr, n) ==
    match = [k \in 1 .. n |-> Nearest(curr[k], prev, Used(match, k))]

LEMMA MatchingExists ==
    ASSUME NEW prev, NEW curr, NEW n \in Nat
    PROVE  \E match : Matching(match, prev, curr, n)
<1> DEFINE P == {m \in 0 .. n : \E match : Matching(match, prev, curr, m)}
<1>1. 0 \in Int /\ n \in Int /\ 0 <= n
    OBVIOUS
<1>2. 0 \in P
    <2>1. 1 .. 0 = {}
        OBVIOUS
    <2>2. [k \in 1 .. 0 |-> 0] = [k \in 1 .. 0 |-> Nearest(curr[k], prev, Used([l \in 1 .. 0 |-> 0], k))]
        BY <2>1
    <2>3. Matching([k \in 1 .. 0 |-> 0], prev, curr, 0)
        BY <2>2 DEF Matching
    <2>4. QED
        BY <1>1, <2>3
<1>3. ASSUME NEW m \in 0 .. n - 1, m \in P
      PROVE  m + 1 \in P
    <2>1. PICK f : Matching(f, prev, curr, m)
        BY <1>3
    <2>2. PICK last : last = Nearest(curr[m + 1], prev, Used(f, m + 1))
        OBVIOUS
    <2> DEFINE g == [k \in 1 .. m + 1 |-> IF k = m + 1 THEN last ELSE f[k]]
    <2>3. /\ \A k \in 1 .. m : k \in 1 .. m + 1 /\ k # m + 1
          /\ \A k \in 1 .. m + 1 : k = m + 1 \/ k \in 1 .. m
          /\ m + 1 \in 1 .. m + 1
        OBVIOUS
    <2>4. (\A k \in 1 .. m : g[k] = f[k]) /\ g[m + 1] = last
        BY <2>3
    <2>5. ASSUME NEW k \in 1 .. m + 1
          PROVE  Used(g, k) = Used(f, k)
        <3>1. \A j \in 1 .. k - 1 : j \in 1 .. m
            OBVIOUS
        <3>2. \A j \in 1 .. k - 1 : g[j] = f[j]
            BY <2>4, <3>1
        <3> HIDE DEF g
        <3>3. QED
            BY <3>2 DEF Used
    <2>6. \A k \in 1 .. m : f[k] = Nearest(curr[k], prev, Used(f, k))
        BY <2>1, Zenon DEF Matching
    <2>7. ASSUME NEW k \in 1 .. m + 1
          PROVE  g[k] = Nearest(curr[k], prev, Used(g, k))
        <3> HIDE DEF g
        <3>1. QED
            BY <2>2, <2>3, <2>4, <2>5, <2>6
    <2>8. g = [k \in 1 .. m + 1 |-> g[k]]
        OBVIOUS
    <2>9. Matching(g, prev, curr, m + 1)
        <3> HIDE DEF g
        <3>1. QED
            BY <2>7, <2>8, Zenon DEF Matching
    <2>10. QED
        BY <2>9
<1>4. n \in P
    <2> HIDE DEF P
    <2>1. \A m \in 0 .. n : m \in P
        BY <1>1, <1>2, <1>3, Ascend
    <2>2. QED
        BY <1>1, <2>1
<1>5. QED
    BY <1>4

\* What Stable asks, of a recursion that has values.
LEMMA StableIs ==
    ASSUME NEW prev, NEW curr, NEW n \in Nat, DOMAIN curr = 1 .. n
    PROVE  \E f : /\ Matching(f, prev, curr, n)
                  /\ Stable(prev, curr)
                        <=> /\ Len(prev) = Len(curr)
                            /\ \A k \in 1 .. n : PhaseDiff(curr[k], prev[f[k]]) <= MaxShift
<1> DEFINE match == CHOOSE f : Matching(f, prev, curr, n)
<1>1. Matching(match, prev, curr, n)
    BY MatchingExists
<1>2. match = CHOOSE f : f = [k \in DOMAIN curr |->
                                 Nearest(curr[k], prev, {f[j] : j \in 1 .. k - 1})]
    BY Zenon DEF Matching, Used
<1>3. Stable(prev, curr) <=> /\ Len(prev) = Len(curr)
                             /\ \A k \in 1 .. n : PhaseDiff(curr[k], prev[match[k]]) <= MaxShift
    <2> HIDE DEF match
    <2>1. QED
        BY <1>2, Zenon DEF Stable
<1>4. QED
    BY <1>1, <1>3

\* The centres are phases.
Phases == 0 .. Circle - 1

LEMMA PhaseDiffType ==
    ASSUME NEW a \in Phases, NEW b \in Phases
    PROVE  /\ a \in Int /\ b \in Int /\ PhaseDiff(a, b) \in Nat
           /\ a = b <=> PhaseDiff(a, b) = 0
           /\ a = b => PhaseDiff(a, b) <= MaxShift
<1>1. PICK h : h \in Nat /\ h = Half /\ h # 0 /\ Circle = 2 * h
    BY BinsAssumption DEF Half, Circle
<1>2. a \in 0 .. 2 * h - 1 /\ b \in 0 .. 2 * h - 1
    BY <1>1 DEF Phases
<1>3. PICK d : d \in Nat /\ d = (IF a >= b THEN a - b ELSE b - a) /\ d < 2 * h /\ (d = 0 <=> a = b)
    BY <1>1, <1>2
<1>4. PhaseDiff(a, b) = IF d > h THEN 2 * h - d ELSE d
    BY <1>1, <1>3 DEF PhaseDiff
<1>5. QED
    BY <1>1, <1>2, <1>3, <1>4 DEF MaxShift

LEMMA RemainderShifts ==
    ASSUME NEW c \in Nat \ {0}, NEW x \in 0 .. c - 1
    PROVE  x % c = x /\ (x + c) % c = x /\ (x - c) % c = x
<1>1. x % c = x
    OBVIOUS
<1>2. (x + c) % c = x
    OBVIOUS
<1>3. (x - c) % c = x
    OBVIOUS
<1>4. QED
    BY <1>1, <1>2, <1>3

\* The smaller arc is the shift that Close asks for.
LEMMA NearIsClose ==
    ASSUME NEW a \in Phases, NEW b \in Phases, PhaseDiff(a, b) <= MaxShift
    PROVE  Close(a, b)
<1>1. PICK h, c : /\ h \in Nat /\ h = Half /\ h # 0 /\ Circle = c
                  /\ c = 2 * h /\ c \in Nat \ {0}
    BY BinsAssumption DEF Half, Circle
<1>2. a \in 0 .. c - 1 /\ b \in 0 .. c - 1
    BY <1>1 DEF Phases
<1>3. PICK d : d \in Nat /\ d = (IF a >= b THEN a - b ELSE b - a)
    BY <1>2
<1>4. (IF d > h THEN c - d ELSE d) <= 4
    BY <1>1, <1>3 DEF PhaseDiff, MaxShift
<1>5. PICK s \in -4 .. 4 : a + s = b \/ a + s = b + c \/ a + s = b - c
    <2>1. CASE d > h
        <3>1. CASE a >= b
            <4>1. c - d \in -4 .. 4 /\ a + (c - d) = b + c
                BY <1>1, <1>2, <1>3, <1>4, <2>1, <3>1
            <4>2. QED
                BY <4>1
        <3>2. CASE ~(a >= b)
            <4>1. d - c \in -4 .. 4 /\ a + (d - c) = b - c
                BY <1>1, <1>2, <1>3, <1>4, <2>1, <3>2
            <4>2. QED
                BY <4>1
        <3>3. QED
            BY <3>1, <3>2
    <2>2. CASE ~(d > h)
        <3>1. b - a \in -4 .. 4 /\ a + (b - a) = b
            BY <1>1, <1>2, <1>3, <1>4, <2>2
        <3>2. QED
            BY <3>1
    <2>3. QED
        BY <2>1, <2>2
<1>6. (a + s) % c = b
    BY <1>1, <1>2, <1>5, RemainderShifts
<1>7. QED
    BY <1>1, <1>5, <1>6 DEF Close, MaxShift

\* The nearest free centre is free and the nearest.
LEMMA NearestIs ==
    ASSUME NEW prev, IsFiniteSet(DOMAIN prev), \A i \in DOMAIN prev : i \in Int /\ prev[i] \in Phases,
           NEW c \in Phases, NEW used, Free(prev, used) # {}
    PROVE  /\ Nearest(c, prev, used) \in Free(prev, used)
           /\ \A j \in Free(prev, used) :
                 PhaseDiff(c, prev[Nearest(c, prev, used)]) <= PhaseDiff(c, prev[j])
<1> DEFINE free == Free(prev, used)
           far == [i \in free |-> PhaseDiff(c, prev[i])]
           IsNearest(i) == \A j \in free : far[i] < far[j] \/ (far[i] = far[j] /\ i <= j)
<1>1. free \in SUBSET DOMAIN prev /\ IsFiniteSet(free)
    BY FS_Subset DEF Free
<1>2. ASSUME NEW i \in free
      PROVE  far[i] = PhaseDiff(c, prev[i]) /\ far[i] \in Int /\ i \in Int
    <2>1. i \in Int /\ prev[i] \in Phases
        BY <1>1
    <2>2. PhaseDiff(c, prev[i]) \in Int
        BY <2>1, PhaseDiffType
    <2>3. QED
        BY <2>1, <2>2
<1>3. PICK m \in free : \A i \in free : far[m] <= far[i]
    <2> HIDE DEF free, far
    <2>1. free # {}
        BY DEF free
    <2>2. QED
        BY <1>1, <1>2, <2>1, LeastExists
<1> DEFINE near == {i \in free : far[i] = far[m]}
           self == [i \in near |-> i]
<1>4. PICK i \in near : \A j \in near : i <= j
    <2>1. near \in SUBSET free /\ m \in near
        BY <1>3
    <2>2. IsFiniteSet(near)
        BY <1>1, <2>1, FS_Subset
    <2>3. \A j \in near : self[j] \in Int /\ self[j] = j
        BY <1>2
    <2> HIDE DEF near, self
    <2>4. PICK i \in near : \A j \in near : self[i] <= self[j]
        BY <2>1, <2>2, <2>3, LeastExists
    <2>5. QED
        BY <2>3, <2>4
<1>5. i \in free /\ IsNearest(i)
    <2>1. i \in free /\ far[i] = far[m]
        OBVIOUS
    <2>2. ASSUME NEW j \in free
          PROVE  far[i] < far[j] \/ (far[i] = far[j] /\ i <= j)
        <3>1. CASE far[j] = far[m]
            <4>1. i <= j
                BY <1>4, <3>1
            <4>2. QED
                BY <2>1, <3>1, <4>1
        <3>2. CASE far[j] # far[m]
            <4>1. far[m] <= far[j] /\ far[m] \in Int /\ far[j] \in Int
                BY <1>2, <1>3
            <4> HIDE DEF far
            <4>2. QED
                BY <2>1, <3>2, <4>1
        <3>3. QED
            BY <3>1, <3>2
    <2>3. QED
        BY <2>1, <2>2
<1>6. Nearest(c, prev, used) = CHOOSE k \in free : IsNearest(k)
    <2>1. Nearest(c, prev, used) =
              CHOOSE k \in free :
                  \A j \in free :
                      \/ PhaseDiff(c, prev[k]) < PhaseDiff(c, prev[j])
                      \/ PhaseDiff(c, prev[k]) = PhaseDiff(c, prev[j]) /\ k <= j
        BY DEF Nearest
    <2> DEFINE Q(k) == \A j \in free :
                           \/ PhaseDiff(c, prev[k]) < PhaseDiff(c, prev[j])
                           \/ PhaseDiff(c, prev[k]) = PhaseDiff(c, prev[j]) /\ k <= j
    <2>2. ASSUME NEW k \in free
          PROVE  Q(k) <=> IsNearest(k)
        <3> HIDE DEF free, far
        <3>1. QED
            BY <1>2
    <2>3. (CHOOSE k \in free : Q(k)) = CHOOSE k \in free : IsNearest(k)
        <3> HIDE DEF Q, IsNearest, free, far
        <3>1. QED
            BY <2>2
    <2>4. QED
        BY <2>1, <2>3
<1>7. PICK k : k = Nearest(c, prev, used) /\ k \in free /\ IsNearest(k)
    <2> HIDE DEF IsNearest, free, far
    <2>1. QED
        BY <1>5, <1>6
<1>8. ASSUME NEW j \in free
      PROVE  PhaseDiff(c, prev[k]) <= PhaseDiff(c, prev[j])
    <2>1. far[k] < far[j] \/ far[k] = far[j]
        BY <1>7
    <2>2. /\ far[k] \in Int /\ far[j] \in Int
          /\ far[k] = PhaseDiff(c, prev[k]) /\ far[j] = PhaseDiff(c, prev[j])
        BY <1>2, <1>7
    <2> HIDE DEF far
    <2>3. QED
        BY <2>1, <2>2
<1>9. QED
    BY <1>7, <1>8

\* As long as the new centres are no more than the old, each takes another one.
LEMMA MatchingTakes ==
    ASSUME NEW n \in Nat, NEW prev, DOMAIN prev = 1 .. n, \A i \in 1 .. n : prev[i] \in Phases,
           NEW curr, \A i \in 1 .. n : curr[i] \in Phases,
           NEW match, Matching(match, prev, curr, n), NEW k \in 1 .. n
    PROVE  /\ match[k] \in 1 .. n /\ match[k] \notin Used(match, k)
           /\ \A i \in 1 .. n : i \notin Used(match, k) =>
                 PhaseDiff(curr[k], prev[match[k]]) <= PhaseDiff(curr[k], prev[i])
<1>1. PICK c, used : c = curr[k] /\ c \in Phases /\ used = Used(match, k)
    OBVIOUS
<1>2. match[k] = Nearest(c, prev, used)
    BY <1>1, Zenon DEF Matching
<1>3. IsFiniteSet(1 .. n) /\ Cardinality(1 .. n) = n
    BY IntervalCount
<1>4. IsFiniteSet(used) /\ Cardinality(used) <= k - 1 /\ Cardinality(used) \in Nat
    <2>1. k - 1 \in Nat
        OBVIOUS
    <2>2. IsFiniteSet(1 .. k - 1) /\ Cardinality(1 .. k - 1) = k - 1
        BY <2>1, IntervalCount
    <2>3. QED
        BY <1>1, <2>2, ImageCount, FS_CardinalityType DEF Used
<1>5. ~(1 .. n \subseteq used)
    <2>1. SUFFICES ASSUME 1 .. n \in SUBSET used
                   PROVE  FALSE
        OBVIOUS
    <2>2. Cardinality(1 .. n) <= Cardinality(used)
        BY <1>4, <2>1, FS_Subset
    <2>3. QED
        BY <1>3, <1>4, <2>2
<1>6. Free(prev, used) # {} /\ \A i : i \in Free(prev, used) <=> i \in 1 .. n /\ i \notin used
    BY <1>5 DEF Free
<1>7. /\ Nearest(c, prev, used) \in Free(prev, used)
      /\ \A j \in Free(prev, used) :
            PhaseDiff(c, prev[Nearest(c, prev, used)]) <= PhaseDiff(c, prev[j])
    <2>1. \A i \in DOMAIN prev : i \in Int /\ prev[i] \in Phases
        OBVIOUS
    <2>2. IsFiniteSet(DOMAIN prev)
        BY <1>3
    <2>3. QED
        BY <1>1, <1>6, <2>1, <2>2, NearestIs
<1>8. QED
    BY <1>1, <1>2, <1>6, <1>7

\* Places that are taken twice would not be free the second time.
LEMMA MatchingOrders ==
    ASSUME NEW n \in Nat, NEW prev, DOMAIN prev = 1 .. n, \A i \in 1 .. n : prev[i] \in Phases,
           NEW curr, \A i \in 1 .. n : curr[i] \in Phases,
           NEW match, Matching(match, prev, curr, n)
    PROVE  match \in SetToSeqs(DOMAIN prev)
<1>1. \A k \in 1 .. n : match[k] \in 1 .. n /\ match[k] \notin Used(match, k)
    BY MatchingTakes
<1>2. match = [k \in 1 .. n |-> match[k]]
    BY Zenon DEF Matching
<1>3. match \in [1 .. n -> 1 .. n]
    BY <1>1, <1>2
<1>4. ASSUME NEW i \in 1 .. n, NEW j \in 1 .. n, i < j
      PROVE  match[i] # match[j]
    <2>1. i \in 1 .. j - 1
        BY <1>4
    <2>2. match[i] \in Used(match, j)
        BY <2>1 DEF Used
    <2>3. QED
        BY <1>1, <2>2
<1>5. ASSUME NEW i \in 1 .. n, NEW j \in 1 .. n, i # j
      PROVE  match[i] # match[j]
    <2>1. i < j \/ j < i
        BY <1>5
    <2>2. QED
        BY <1>4, <2>1
<1>6. Cardinality(DOMAIN prev) = n
    BY IntervalCount
<1>7. QED
    BY <1>3, <1>5, <1>6 DEF SetToSeqs

\* Where nothing has moved, there is always an old centre left that is the same:
\* those that are as many as the new ones that are the same.
LEMMA UnmovedStays ==
    ASSUME NEW n \in Nat, NEW prev, DOMAIN prev = 1 .. n, \A i \in 1 .. n : prev[i] \in Phases,
           NEW match, Matching(match, prev, prev, n),
           NEW k \in 1 .. n, \A j \in 1 .. k - 1 : prev[match[j]] = prev[j]
    PROVE  prev[match[k]] = prev[k]
<1>1. PICK c : c = prev[k] /\ c \in Phases
    OBVIOUS
<1> DEFINE same == {i \in 1 .. n : prev[i] = c}
           before == {j \in 1 .. k - 1 : prev[j] = c}
           image == {match[j] : j \in before}
<1>2. before \in SUBSET same /\ k \in same /\ k \notin before
    BY <1>1
<1>3. IsFiniteSet(same)
    <2>1. same \in SUBSET (1 .. n)
        OBVIOUS
    <2> HIDE DEF same
    <2>2. QED
        BY <2>1, IntervalCount, FS_Subset
<1>4. /\ IsFiniteSet(before) /\ Cardinality(before) \in Nat /\ Cardinality(same) \in Nat
      /\ Cardinality(before) < Cardinality(same)
    <2> HIDE DEF same, before
    <2>1. /\ IsFiniteSet(before) /\ Cardinality(before) <= Cardinality(same)
          /\ Cardinality(before) # Cardinality(same)
        BY <1>2, <1>3, FS_Subset
    <2>2. Cardinality(before) \in Nat /\ Cardinality(same) \in Nat
        BY <1>3, <2>1, FS_CardinalityType
    <2>3. QED
        BY <2>1, <2>2
<1>5. IsFiniteSet(image) /\ Cardinality(image) <= Cardinality(before) /\ Cardinality(image) \in Nat
    <2> HIDE DEF before
    <2>1. QED
        BY <1>4, ImageCount, FS_CardinalityType
<1>6. ~(same \subseteq image)
    <2> HIDE DEF same, before, image
    <2>1. SUFFICES ASSUME same \in SUBSET image
                   PROVE  FALSE
        OBVIOUS
    <2>2. Cardinality(same) <= Cardinality(image)
        BY <1>5, <2>1, FS_Subset
    <2>3. QED
        BY <1>4, <1>5, <2>2
<1>7. PICK i \in 1 .. n : prev[i] = c /\ i \notin image
    BY <1>6
<1>8. i \notin Used(match, k)
    <2>1. ASSUME NEW j \in 1 .. k - 1, match[j] = i
          PROVE  FALSE
        <3>1. prev[j] = c
            BY <1>7, <2>1
        <3>2. QED
            BY <1>7, <2>1, <3>1
    <2>2. QED
        BY <2>1 DEF Used
<1>9. match[k] \in 1 .. n /\ PhaseDiff(c, prev[match[k]]) <= PhaseDiff(c, prev[i])
    BY <1>1, <1>8, MatchingTakes
<1>10. PICK b : b = prev[match[k]] /\ b \in Phases
    BY <1>9
<1>11. PhaseDiff(c, prev[i]) = 0
    BY <1>1, <1>7, PhaseDiffType
<1>12. PhaseDiff(c, b) \in Nat /\ (c = b <=> PhaseDiff(c, b) = 0)
    BY <1>1, <1>10, PhaseDiffType
<1>13. QED
    BY <1>1, <1>9, <1>10, <1>11, <1>12

\* What the property says of two lists of centres.
Paired(prev, curr) ==
    /\ Stable(prev, curr) =>
          \E order \in SetToSeqs(DOMAIN prev) :
              /\ Len(curr) = Len(prev)
              /\ \A k \in DOMAIN curr : Close(curr[k], prev[order[k]])
    /\ prev = curr => Stable(prev, curr)

LEMMA CentresPaired ==
    ASSUME NEW prev \in Seq(CenterPlaces), NEW curr \in Seq(CenterPlaces)
    PROVE  Paired(prev, curr)
<1>1. PICK n \in Nat : n = Len(curr) /\ DOMAIN curr = 1 .. n
    BY LenProperties
<1>2. \A i \in 1 .. n : curr[i] \in Phases
    BY <1>1, ElementOfSeq, InputsAssumption DEF Phases
<1>3. DOMAIN prev = 1 .. Len(prev) /\ \A i \in DOMAIN prev : prev[i] \in Phases
    BY ElementOfSeq, LenProperties, InputsAssumption DEF Phases
<1>4. PICK match :
          /\ Matching(match, prev, curr, n)
          /\ Stable(prev, curr)
                <=> /\ Len(prev) = n
                    /\ \A k \in 1 .. n : PhaseDiff(curr[k], prev[match[k]]) <= MaxShift
    BY <1>1, StableIs
<1>5. ASSUME Stable(prev, curr)
      PROVE  \E order \in SetToSeqs(DOMAIN prev) :
                 /\ Len(curr) = Len(prev)
                 /\ \A k \in DOMAIN curr : Close(curr[k], prev[order[k]])
    <2>1. DOMAIN prev = 1 .. n /\ Len(prev) = n
        BY <1>3, <1>4, <1>5
    <2>2. match \in SetToSeqs(DOMAIN prev)
        BY <1>2, <1>3, <1>4, <2>1, MatchingOrders
    <2>3. ASSUME NEW k \in 1 .. n
          PROVE  Close(curr[k], prev[match[k]])
        <3>1. match[k] \in 1 .. n
            BY <1>2, <1>3, <1>4, <2>1, MatchingTakes
        <3>2. curr[k] \in Phases /\ prev[match[k]] \in Phases
            BY <1>2, <1>3, <2>1, <3>1
        <3>3. PhaseDiff(curr[k], prev[match[k]]) <= MaxShift
            BY <1>4, <1>5
        <3>4. QED
            BY <3>2, <3>3, NearIsClose
    <2>4. QED
        BY <1>1, <2>1, <2>2, <2>3
<1>6. ASSUME prev = curr
      PROVE  Stable(prev, curr)
    <2>1. DOMAIN prev = 1 .. n /\ Len(prev) = n /\ Matching(match, prev, prev, n)
          /\ \A i \in 1 .. n : prev[i] \in Phases
        BY <1>1, <1>2, <1>4, <1>6
    <2> DEFINE P == {k \in 0 .. n : \A j \in 1 .. k : prev[match[j]] = prev[j]}
    <2>2. 0 \in Int /\ n \in Int /\ 0 <= n /\ 0 \in P
        OBVIOUS
    <2>3. ASSUME NEW k \in 0 .. n - 1, k \in P
          PROVE  k + 1 \in P
        <3>1. PICK l : l \in 1 .. n /\ l = k + 1 /\ l - 1 = k
            OBVIOUS
        <3>2. \A j \in 1 .. l - 1 : prev[match[j]] = prev[j]
            BY <2>3, <3>1
        <3>3. prev[match[l]] = prev[l]
            BY <2>1, <3>1, <3>2, UnmovedStays
        <3>4. \A j \in 1 .. l : j \in 1 .. l - 1 \/ j = l
            BY <3>1
        <3>5. l \in 0 .. n
            BY <3>1
        <3>6. QED
            BY <3>1, <3>2, <3>3, <3>4, <3>5
    <2>4. n \in P
        <3> HIDE DEF P
        <3>1. \A k \in 0 .. n : k \in P
            BY <2>2, <2>3, Ascend
        <3>2. QED
            BY <2>2, <3>1
    <2>5. ASSUME NEW k \in 1 .. n
          PROVE  PhaseDiff(curr[k], prev[match[k]]) <= MaxShift
        <3>1. prev[match[k]] = curr[k] /\ curr[k] \in Phases
            BY <1>2, <1>6, <2>4
        <3>2. QED
            BY <3>1, PhaseDiffType
    <2>6. QED
        BY <1>4, <2>1, <2>5
<1>7. QED
    BY <1>5, <1>6 DEF Paired

\* Clusters that are called stable can be paired with the old ones, and are
\* called so if none has moved.
THEOREM StabilityHolds == Spec => []StableMeansPaired
<1>1. Shaped => StableMeansPaired
    <2> SUFFICES ASSUME Shaped, subject.kind = "matching"
                 PROVE  Paired(subject.prev, subject.curr)
        BY Zenon DEF StableMeansPaired, Paired
    <2>1. subject.prev \in Seq(CenterPlaces) /\ subject.curr \in Seq(CenterPlaces)
        BY DEF Shaped, MatchingShaped
    <2>2. QED
        BY <2>1, CentresPaired
<1>2. QED
    BY <1>1, ShapedHolds, PTL

-----------------------------------------------------------------------------
(* Periodic interference.                                                  *)

LEMMA ByTimeIs ==
    ASSUME NEW s, ByTime(s)
    PROVE  /\ Len(s) \in Nat /\ DOMAIN s = 1 .. Len(s)
           /\ \A i \in 1 .. Len(s) : s[i].time \in Nat /\ s[i].amp \in Nat
           /\ \A i, j \in 1 .. Len(s) : i <= j => s[i].time <= s[j].time
<1>1. Len(s) \in Nat /\ DOMAIN s = 1 .. Len(s)
    BY LenProperties DEF ByTime
<1>2. \A i \in 1 .. Len(s) : s[i] \in [time : Nat, amp : Nat]
    BY <1>1, ElementOfSeq DEF ByTime
<1>3. QED
    BY <1>1, <1>2 DEF ByTime

LEMMA AlikeNear ==
    ASSUME NEW a \in Nat
    PROVE  Near(a, a)
<1>1. Max({a, a}) = a
    BY LargerIs
<1>2. Distance(a, a) = 0
    BY DEF Distance
<1>3. QED
    BY <1>1, <1>2 DEF Near

\* How far RunStop looks, and what is on the way.
LEMMA RunStopIs ==
    ASSUME NEW s, NEW n \in Nat, n = Len(s), NEW i \in 1 .. n - 1
    PROVE  /\ RunStop(s, i) \in i + 2 .. n + 1
           /\ \A j \in i + 2 .. RunStop(s, i) - 1 : OnGrid(s, i, j)
           /\ RunStop(s, i) <= n => ~OnGrid(s, i, RunStop(s, i))
<1> DEFINE stops == {j \in i + 2 .. n : ~OnGrid(s, i, j)} \cup {n + 1}
<1>1. \A x \in stops : x \in Nat /\ x \in i + 2 .. n + 1
    OBVIOUS
<1>2. PICK m \in stops : \A x \in stops : m <= x
    <2>1. stops # {} /\ \A x \in stops : x \in Nat
        BY <1>1
    <2> HIDE DEF stops
    <2>2. QED
        BY <2>1, LeastNat
<1>3. RunStop(s, i) = m
    <2>1. RunStop(s, i) = Min(stops)
        BY DEF RunStop
    <2>2. Min(stops) = CHOOSE x \in stops : \A y \in stops : x <= y
        BY DEF Min
    <2> HIDE DEF stops
    <2>3. \A x \in stops : (\A y \in stops : x <= y) => x = m
        BY <1>1, <1>2
    <2>4. QED
        BY <1>2, <2>1, <2>2, <2>3
<1>4. m \in i + 2 .. n + 1
    BY <1>1
<1>5. ASSUME NEW j \in i + 2 .. m - 1
      PROVE  OnGrid(s, i, j)
    <2>1. j \in i + 2 .. n /\ ~(m <= j)
        BY <1>4
    <2>2. j \notin stops
        BY <1>2, <2>1
    <2>3. QED
        BY <2>1, <2>2
<1>6. m <= n => ~OnGrid(s, i, m)
    BY <1>4
<1>7. QED
    BY <1>3, <1>4, <1>5, <1>6

\* One step of the scan at place i, given what it marks from later places on.
ScanStep(s, later, i) ==
    IF i >= Len(s) THEN {}
    ELSE IF PairRejected(s, i) THEN later[i + 2]
    ELSE IF LongRun(RunStop(s, i) - i)
         THEN (i .. RunStop(s, i) - 1) \cup later[RunStop(s, i)]
         ELSE later[i + 1]

\* The scan from place m on.
Scan(s, m, marked) == marked = [i \in m .. Len(s) + 2 |-> ScanStep(s, marked, i)]

LEMMA ScanStepLooks ==
    ASSUME NEW s, Len(s) \in Nat, NEW m \in 1 .. Len(s) + 2, NEW i \in m .. Len(s) + 2,
           NEW f, NEW g, \A j \in m + 1 .. Len(s) + 2 : f[j] = g[j]
    PROVE  ScanStep(s, f, i) = ScanStep(s, g, i)
<1>1. PICK n \in Nat : n = Len(s)
    OBVIOUS
<1>2. CASE i >= Len(s)
    BY <1>2 DEF ScanStep
<1>3. CASE ~(i >= Len(s))
    <2>1. i \in 1 .. n - 1
        BY <1>1, <1>3
    <2>2. RunStop(s, i) \in i + 2 .. n + 1
        BY <1>1, <2>1, RunStopIs
    <2>3. /\ i + 1 \in m + 1 .. n + 2 /\ i + 2 \in m + 1 .. n + 2
          /\ RunStop(s, i) \in m + 1 .. n + 2
        BY <1>1, <2>1, <2>2
    <2>4. f[i + 1] = g[i + 1] /\ f[i + 2] = g[i + 2] /\ f[RunStop(s, i)] = g[RunStop(s, i)]
        BY <1>1, <2>3
    <2>5. QED
        BY <2>4 DEF ScanStep
<1>4. QED
    BY <1>2, <1>3

\* What holds from each place to the last, when it holds of the last and goes
\* from every place to the one before.
LEMMA Descend ==
    ASSUME NEW n \in Nat, NEW P, n \in P, \A k \in 2 .. n : k \in P => k - 1 \in P
    PROVE  \A k \in 1 .. n : k \in P
<1> DEFINE Q == {d \in 0 .. n - 1 : n - d \in P}
<1>1. SUFFICES ASSUME n # 0
               PROVE  \A k \in 1 .. n : k \in P
    OBVIOUS
<1>2. 0 \in Int /\ n - 1 \in Int /\ 0 \in Q
    BY <1>1
<1>3. ASSUME NEW d \in 0 .. n - 1 - 1, d \in Q
      PROVE  d + 1 \in Q
    <2>1. n - d \in 2 .. n /\ n - d \in P /\ n - d - 1 = n - (d + 1) /\ d + 1 \in 0 .. n - 1
        BY <1>3
    <2>2. QED
        BY <2>1
<1>4. \A d \in 0 .. n - 1 : d \in Q
    <2> HIDE DEF Q
    <2>1. QED
        BY <1>2, <1>3, Ascend
<1>5. ASSUME NEW k \in 1 .. n
      PROVE  k \in P
    <2>1. n - k \in 0 .. n - 1 /\ n - (n - k) = k
        OBVIOUS
    <2>2. n - k \in Q
        BY <1>4, <2>1
    <2>3. QED
        BY <2>1, <2>2
<1>6. QED
    BY <1>5

LEMMA ScanExists ==
    ASSUME NEW s, Len(s) \in Nat
    PROVE  \E marked : Scan(s, 1, marked)
<1> DEFINE e == Len(s) + 2
           P == {m \in 1 .. e : \E f : Scan(s, m, f)}
<1>1. e \in Nat /\ e \in 1 .. e /\ 1 \in 1 .. e /\ \A i \in e .. e : i = e
    OBVIOUS
<1>2. e \in P
    <2>1. PICK f : f = [i \in e .. e |-> {}]
        OBVIOUS
    <2>2. \A i \in e .. e : ScanStep(s, f, i) = {}
        BY DEF ScanStep
    <2>3. Scan(s, e, f)
        BY <2>1, <2>2, Zenon DEF Scan
    <2>4. QED
        BY <1>1, <2>3
<1>3. ASSUME NEW k \in 2 .. e, k \in P
      PROVE  k - 1 \in P
    <2>1. PICK m : m = k - 1 /\ m + 1 = k /\ m \in 1 .. e
        OBVIOUS
    <2>2. PICK f : Scan(s, k, f)
        BY <1>3
    <2> DEFINE g == [i \in m .. e |-> IF i = m THEN ScanStep(s, f, m) ELSE f[i]]
    <2>3. /\ \A i \in k .. e : i \in m .. e /\ i # m
          /\ \A i \in m .. e : i = m \/ i \in k .. e
          /\ m \in m .. e
        BY <2>1
    <2>4. (\A i \in k .. e : f[i] = g[i]) /\ g[m] = ScanStep(s, f, m)
        BY <2>3
    <2>5. ASSUME NEW i \in m .. e
          PROVE  ScanStep(s, f, i) = ScanStep(s, g, i)
        <3> HIDE DEF g
        <3>1. QED
            BY <2>1, <2>4, ScanStepLooks
    <2>6. \A i \in k .. e : f[i] = ScanStep(s, f, i)
        BY <2>2, Zenon DEF Scan
    <2>7. ASSUME NEW i \in m .. e
          PROVE  g[i] = ScanStep(s, g, i)
        <3> HIDE DEF g
        <3>1. QED
            BY <2>3, <2>4, <2>5, <2>6
    <2>8. g = [i \in m .. e |-> g[i]]
        OBVIOUS
    <2>9. Scan(s, m, g)
        <3> HIDE DEF g
        <3>1. QED
            BY <2>7, <2>8, Zenon DEF Scan
    <2>10. QED
        BY <2>1, <2>9
<1>4. 1 \in P
    <2> HIDE DEF P, e
    <2>1. \A m \in 1 .. e : m \in P
        BY <1>1, <1>2, <1>3, Descend
    <2>2. QED
        BY <1>1, <2>1
<1>5. QED
    BY <1>4

\* DetectInChannel marks what a scan from the first place marks.
LEMMA DetectIs ==
    ASSUME NEW s, Len(s) \in Nat, ~(Len(s) < MinCount)
    PROVE  \E f : Scan(s, 1, f) /\ DetectInChannel(s) = f[1]
<1> DEFINE marked == CHOOSE f : Scan(s, 1, f)
<1>1. Scan(s, 1, marked)
    BY ScanExists
<1>2. DetectInChannel(s) = marked[1]
    BY Zenon DEF DetectInChannel, Scan, ScanStep
<1>3. QED
    BY <1>1, <1>2

\* Half a period and more rounds up.
LEMMA GridPlaces ==
    ASSUME NEW p \in Nat \ {0}, NEW dt \in Nat, p <= dt
    PROVE  /\ (2 * dt + p) \div (2 * p) >= 1
           /\ dt = 2 * p => (2 * dt + p) \div (2 * p) = 2
           /\ dt = 3 * p => (2 * dt + p) \div (2 * p) = 3
<1>1. PICK c \in Nat \ {0}, x \in Nat : c = 2 * p /\ x = 2 * dt + p /\ c <= x
    OBVIOUS
<1>2. PICK q \in Int, r \in 0 .. c - 1 : q = x \div c /\ x = c * q + r
    OBVIOUS
<1>3. q >= 1
    BY <1>1, <1>2
<1>4. ASSUME dt = 2 * p
      PROVE  q = 2
    <2>1. 5 * p = 2 * p * q + r /\ r < 2 * p
        BY <1>1, <1>2, <1>4
    <2>2. QED
        BY <1>2, <2>1
<1>5. ASSUME dt = 3 * p
      PROVE  q = 3
    <2>1. 7 * p = 2 * p * q + r /\ r < 2 * p
        BY <1>1, <1>2, <1>5
    <2>2. QED
        BY <1>2, <2>1
<1>6. QED
    BY <1>1, <1>2, <1>3, <1>4, <1>5

\* The pulses of a run are alike its first.
LEMMA RunAlike ==
    ASSUME NEW s, ByTime(s), NEW a \in 1 .. Len(s) - 1, ~PairRejected(s, a),
           NEW j \in a .. RunStop(s, a) - 1
    PROVE  Near(s[a].amp, s[j].amp)
<1>1. PICK n \in Nat : n = Len(s) /\ a \in 1 .. n - 1 /\ a \in 1 .. n /\ a + 1 \in 1 .. n
    BY ByTimeIs
<1>2. RunStop(s, a) \in a + 2 .. n + 1 /\ j \in 1 .. n
    BY <1>1, RunStopIs
<1>3. CASE j = a
    BY <1>1, <1>3, ByTimeIs, AlikeNear
<1>4. CASE j = a + 1
    BY <1>4 DEF PairRejected
<1>5. CASE j # a /\ j # a + 1
    <2>1. j \in a + 2 .. RunStop(s, a) - 1
        BY <1>1, <1>2, <1>5
    <2>2. OnGrid(s, a, j)
        BY <1>1, <2>1, RunStopIs
    <2>3. PICK t \in Nat, u \in Nat, v \in Nat :
              t = s[a].time /\ u = s[a + 1].time /\ v = s[j].time /\ t < u /\ u <= v
        <3>1. s[a].time \in Nat /\ s[a + 1].time \in Nat /\ s[j].time \in Nat
            BY <1>1, <1>2, ByTimeIs
        <3>2. ~(s[a + 1].time <= s[a].time)
            BY DEF PairRejected
        <3>3. a + 1 <= j
            BY <1>1, <2>1
        <3>4. s[a + 1].time <= s[j].time
            BY <1>1, <1>2, <3>3, ByTimeIs
        <3>5. QED
            BY <3>1, <3>2, <3>4
    <2>4. PICK p \in Nat \ {0}, d \in Nat : p = u - t /\ d = v - t /\ p <= d
        <3>1. t < u /\ u <= v
            BY <2>3
        <3>2. u - t \in Nat \ {0} /\ v - t \in Nat /\ u - t <= v - t
            BY <3>1
        <3>3. QED
            BY <3>2, Zenon
    <2>5. (2 * d + p) \div (2 * p) >= 1 /\ (2 * d + p) \div (2 * p) \in Int
        BY <2>4, GridPlaces
    <2>6. ~((2 * d + p) \div (2 * p) < 1)
        BY <2>5
    <2>7. QED
        BY <2>2, <2>3, <2>4, <2>6 DEF OnGrid
<1>6. QED
    BY <1>3, <1>4, <1>5

\* Whatever is marked is in a long run that is marked.
InRuns(s, m) ==
    \A x \in m : \E a \in 1 .. Len(s) - 1 :
        /\ ~PairRejected(s, a) /\ LongRun(RunStop(s, a) - a)
        /\ x \in a .. RunStop(s, a) - 1 /\ a .. RunStop(s, a) - 1 \subseteq m

LEMMA ScanInRuns ==
    ASSUME NEW s, Len(s) \in Nat, NEW marked, Scan(s, 1, marked)
    PROVE  InRuns(s, marked[1])
<1> DEFINE e == Len(s) + 2
           P == {m \in 1 .. e : \A i \in m .. e : InRuns(s, marked[i])}
<1>1. PICK n \in Nat : n = Len(s) /\ e = n + 2
    OBVIOUS
<1>2. \A i \in 1 .. e : marked[i] = ScanStep(s, marked, i)
    BY Zenon DEF Scan
<1>3. InRuns(s, {})
    BY DEF InRuns
<1>4. ASSUME NEW i \in 1 .. e, \A j \in i + 1 .. e : InRuns(s, marked[j])
      PROVE  InRuns(s, marked[i])
    <2>1. CASE i >= n
        BY <1>1, <1>2, <1>3, <2>1 DEF ScanStep
    <2>2. CASE ~(i >= n)
        <3>1. i \in 1 .. n - 1
            BY <1>1, <2>2
        <3>2. PICK stop : stop = RunStop(s, i) /\ stop \in i + 2 .. n + 1
            BY <1>1, <3>1, RunStopIs
        <3>3. i + 1 \in i + 1 .. e /\ i + 2 \in i + 1 .. e /\ stop \in i + 1 .. e
            BY <1>1, <3>1, <3>2
        <3>4. CASE PairRejected(s, i) \/ ~LongRun(stop - i)
            <4>1. marked[i] = marked[i + 1] \/ marked[i] = marked[i + 2]
                BY <1>1, <1>2, <2>2, <3>2, <3>4 DEF ScanStep
            <4>2. QED
                BY <1>4, <3>3, <4>1
        <3>5. CASE ~PairRejected(s, i) /\ LongRun(stop - i)
            <4>1. marked[i] = (i .. stop - 1) \cup marked[stop]
                BY <1>1, <1>2, <2>2, <3>2, <3>5 DEF ScanStep
            <4>2. InRuns(s, marked[stop])
                BY <1>4, <3>3
            <4>3. ASSUME NEW x \in marked[i]
                  PROVE  \E a \in 1 .. n - 1 :
                            /\ ~PairRejected(s, a) /\ LongRun(RunStop(s, a) - a)
                            /\ x \in a .. RunStop(s, a) - 1
                            /\ a .. RunStop(s, a) - 1 \subseteq marked[i]
                <5>1. CASE x \in i .. stop - 1
                    BY <3>1, <3>2, <3>5, <4>1, <5>1
                <5>2. CASE x \in marked[stop]
                    <6>1. PICK a \in 1 .. n - 1 :
                              /\ ~PairRejected(s, a) /\ LongRun(RunStop(s, a) - a)
                              /\ x \in a .. RunStop(s, a) - 1
                              /\ a .. RunStop(s, a) - 1 \subseteq marked[stop]
                        BY <1>1, <4>2, <5>2 DEF InRuns
                    <6>2. QED
                        BY <4>1, <6>1
                <5>3. QED
                    BY <4>1, <4>3, <5>1, <5>2
            <4>4. QED
                BY <1>1, <4>3 DEF InRuns
        <3>6. QED
            BY <3>4, <3>5
    <2>3. QED
        BY <2>1, <2>2
<1>5. e \in Nat /\ e \in 1 .. e /\ 1 \in 1 .. e
    OBVIOUS
<1>6. e \in P
    <2>1. \A i \in e .. e : i = e
        OBVIOUS
    <2>2. \A j \in e + 1 .. e : InRuns(s, marked[j])
        OBVIOUS
    <2>3. InRuns(s, marked[e])
        BY <1>4, <1>5, <2>2
    <2>4. QED
        BY <1>5, <2>1, <2>3
<1>7. ASSUME NEW k \in 2 .. e, k \in P
      PROVE  k - 1 \in P
    <2>1. PICK m : m = k - 1 /\ m + 1 = k /\ m \in 1 .. e
        OBVIOUS
    <2>2. \A j \in m + 1 .. e : InRuns(s, marked[j])
        BY <1>7, <2>1
    <2>3. InRuns(s, marked[m])
        BY <1>4, <2>1, <2>2
    <2>4. \A i \in m .. e : i = m \/ i \in m + 1 .. e
        BY <2>1
    <2>5. QED
        BY <2>1, <2>2, <2>3, <2>4
<1>8. 1 \in P
    <2> HIDE DEF P, e
    <2>1. \A m \in 1 .. e : m \in P
        BY <1>5, <1>6, <1>7, Descend
    <2>2. QED
        BY <1>5, <2>1
<1>9. QED
    BY <1>5, <1>8

LEMMA TripleCount ==
    ASSUME NEW a, NEW b, NEW c, a # b, a # c, b # c
    PROVE  Cardinality({a, b, c}) = 3
<1>1. IsFiniteSet({}) /\ Cardinality({}) = 0
    BY FS_EmptySet
<1>2. IsFiniteSet({} \cup {a}) /\ Cardinality({} \cup {a}) = 1
    BY <1>1, FS_AddElement
<1>3. PICK x : x = {} \cup {a} /\ b \notin x
    <2>1. b \notin {} \cup {a}
        OBVIOUS
    <2>2. QED
        BY <2>1, Zenon
<1>4. IsFiniteSet(x \cup {b}) /\ Cardinality(x \cup {b}) = 2
    BY <1>2, <1>3, FS_AddElement
<1>5. PICK y : y = x \cup {b} /\ c \notin y
    <2>1. c \notin x \cup {b}
        BY <1>3
    <2>2. QED
        BY <2>1, Zenon
<1>6. Cardinality(y \cup {c}) = 3
    BY <1>4, <1>5, FS_AddElement
<1>7. y \cup {c} = {a, b, c}
    BY <1>3, <1>5
<1>8. QED
    BY <1>6, <1>7

\* Each marked pulse has its run's first two, or two more of it, besides it.
LEMMA MarkedTogether ==
    ASSUME NEW s, ByTime(s), NEW m, InRuns(s, m), NEW i \in m
    PROVE  \E run \in kSubset(MinCount, m) :
               i \in run /\ \E first \in run : \A j \in run : Near(s[first].amp, s[j].amp)
<1>1. PICK n \in Nat : n = Len(s)
    BY ByTimeIs
<1>2. PICK a \in 1 .. n - 1 :
          /\ ~PairRejected(s, a) /\ LongRun(RunStop(s, a) - a)
          /\ i \in a .. RunStop(s, a) - 1 /\ a .. RunStop(s, a) - 1 \subseteq m
    BY <1>1 DEF InRuns
<1>3. PICK stop : stop = RunStop(s, a) /\ stop \in a + 2 .. n + 1
    BY <1>1, RunStopIs
<1>4. stop >= a + 3
    BY <1>2, <1>3 DEF LongRun, MinCount
<1>5. PICK b \in a + 1 .. stop - 1 : b # a + 1 /\ (i = a \/ i = a + 1 \/ i = b)
    <2>1. CASE i = a \/ i = a + 1
        <3>1. a + 2 \in a + 1 .. stop - 1 /\ a + 2 # a + 1
            BY <1>3, <1>4
        <3>2. QED
            BY <2>1, <3>1
    <2>2. CASE ~(i = a \/ i = a + 1)
        <3>1. i \in a + 1 .. stop - 1
            BY <1>2, <1>3, <2>2
        <3>2. QED
            BY <2>2, <3>1
    <2>3. QED
        BY <2>1, <2>2
<1>6. PICK run : run = {a, a + 1, b}
    OBVIOUS
<1>7. a # a + 1 /\ a # b /\ a + 1 # b
    BY <1>5
<1>8. Cardinality(run) = MinCount
    BY <1>6, <1>7, TripleCount DEF MinCount
<1>9. run \subseteq a .. stop - 1 /\ i \in run /\ a \in run
    BY <1>3, <1>4, <1>5, <1>6
<1>10. run \in kSubset(MinCount, m)
    BY <1>2, <1>3, <1>8, <1>9 DEF kSubset
<1>11. \A j \in run : Near(s[a].amp, s[j].amp)
    BY <1>1, <1>2, <1>3, <1>9, RunAlike
<1>12. QED
    BY <1>9, <1>10, <1>11

\* A scan that comes to a place from which three pulses are a train marks them.
LEMMA TrainMarked ==
    ASSUME NEW s, ByTime(s), NEW n \in Nat, n = Len(s),
           NEW a \in 1 .. n - 2, NEW gap \in Nat \ {0},
           \A k \in a .. a + 1 : s[k + 1].time - s[k].time = gap /\ s[k + 1].amp = s[k].amp,
           NEW marked, Scan(s, 1, marked)
    PROVE  a \in marked[a]
<1>1. a \in 1 .. n - 1 /\ a \in a .. a + 1 /\ a + 1 \in a .. a + 1 /\ a + 1 + 1 = a + 2
    OBVIOUS
<1>2. PICK t, x : /\ t \in Nat /\ t = s[a].time /\ x \in Nat /\ x = s[a].amp
                  /\ s[a + 1].time = t + gap /\ s[a + 1].amp = x
                  /\ s[a + 2].time = t + 2 * gap /\ s[a + 2].amp = x
    <2>1. a \in 1 .. n /\ a + 1 \in 1 .. n /\ a + 2 \in 1 .. n
        BY <1>1
    <2>2. PICK t \in Nat, u \in Nat, v \in Nat :
              t = s[a].time /\ u = s[a + 1].time /\ v = s[a + 2].time
        <3>1. s[a].time \in Nat /\ s[a + 1].time \in Nat /\ s[a + 2].time \in Nat
            BY <2>1, ByTimeIs
        <3>2. QED
            BY <3>1
    <2>3. u - t = gap /\ v - u = gap /\ s[a + 1].amp = s[a].amp /\ s[a + 2].amp = s[a + 1].amp
        BY <1>1, <2>2
    <2>4. u = t + gap /\ v = t + 2 * gap
        <3>1. u - t = gap /\ v - u = gap
            BY <2>3
        <3>2. QED
            BY <3>1
    <2>5. s[a].amp \in Nat
        BY <2>1, ByTimeIs
    <2>6. QED
        BY <2>2, <2>3, <2>4, <2>5
<1>3. Near(x, x)
    BY <1>2, AlikeNear
<1>4. ~PairRejected(s, a)
    <2>1. ~(s[a + 1].time <= s[a].time)
        BY <1>2
    <2>2. QED
        BY <1>2, <1>3, <2>1 DEF PairRejected
<1>5. OnGrid(s, a, a + 2)
    <2>1. s[a + 1].time - s[a].time = gap /\ s[a + 2].time - s[a].time = 2 * gap
        BY <1>2
    <2>2. PICK d \in Nat : d = 2 * gap /\ gap <= d
        OBVIOUS
    <2>3. (2 * d + gap) \div (2 * gap) = 2
        BY <2>2, GridPlaces
    <2>4. Distance(d, 2 * gap) <= IntervalTolerance
        BY <2>2 DEF Distance, IntervalTolerance
    <2>5. QED
        BY <1>2, <1>3, <2>1, <2>2, <2>3, <2>4 DEF OnGrid
<1>6. PICK stop : stop = RunStop(s, a) /\ stop \in a + 3 .. n + 1
    <2>1. PICK stop : /\ stop = RunStop(s, a) /\ stop \in a + 2 .. n + 1
                      /\ stop <= n => ~OnGrid(s, a, stop)
        BY <1>1, RunStopIs
    <2>2. stop # a + 2
        BY <1>1, <1>5, <2>1
    <2>3. QED
        BY <2>1, <2>2
<1>7. LongRun(stop - a)
    BY <1>6 DEF LongRun, MinCount
<1>8. marked[a] = (a .. stop - 1) \cup marked[stop]
    <2>1. a \in 1 .. Len(s) + 2 /\ ~(a >= Len(s))
        BY <1>1
    <2>2. marked[a] = ScanStep(s, marked, a)
        BY <2>1, Zenon DEF Scan
    <2>3. QED
        BY <1>4, <1>6, <1>7, <2>1, <2>2 DEF ScanStep
<1>9. QED
    BY <1>6, <1>8
\* Four pulses of a train are not all missed by a scan from any place.
FirstFour(s, i) ==
    /\ i \in 1 .. Len(s) - 3
    /\ \E gap \in Nat \ {0} :
          \A k \in i .. i + 2 : s[k + 1].time - s[k].time = gap /\ s[k + 1].amp = s[k].amp

LEMMA FourMet ==
    ASSUME NEW s, ByTime(s), NEW n \in Nat, n = Len(s), NEW i, FirstFour(s, i),
           NEW marked, Scan(s, 1, marked)
    PROVE  \E x \in i .. i + 3 : x \in marked[1]
<1> DEFINE Met(m) == \E x \in i .. i + 3 : x \in m
           P == {k \in 1 .. i + 1 : \A p \in k .. i + 1 : Met(marked[p])}
<1>1. i \in 1 .. n - 3 /\ i + 1 \in 1 .. n - 2 /\ i \in 1 .. n - 2 /\ i \in i .. i + 3
          /\ i + 1 \in i .. i + 3 /\ i \in Nat
    BY DEF FirstFour
<1>2. PICK gap \in Nat \ {0} :
          \A k \in i .. i + 2 : s[k + 1].time - s[k].time = gap /\ s[k + 1].amp = s[k].amp
    BY DEF FirstFour
<1>3. i \in marked[i] /\ i + 1 \in marked[i + 1]
    <2>1. \A k \in i .. i + 1 : k \in i .. i + 2
        BY <1>1
    <2>2. \A k \in i + 1 .. i + 1 + 1 : k \in i .. i + 2
        BY <1>1
    <2>3. \A k \in i .. i + 1 : s[k + 1].time - s[k].time = gap /\ s[k + 1].amp = s[k].amp
        BY <1>2, <2>1
    <2>4. \A k \in i + 1 .. i + 1 + 1 : s[k + 1].time - s[k].time = gap /\ s[k + 1].amp = s[k].amp
        BY <1>2, <2>2
    <2>5. i \in marked[i]
        BY <1>1, <2>3, TrainMarked
    <2>6. i + 1 \in marked[i + 1]
        BY <1>1, <2>4, TrainMarked
    <2>7. QED
        BY <2>5, <2>6
<1>4. Met(marked[i]) /\ Met(marked[i + 1])
    BY <1>1, <1>3
<1>5. ASSUME NEW p \in 1 .. i - 1, \A q \in p + 1 .. i + 1 : Met(marked[q])
      PROVE  Met(marked[p])
    <2>1. p \in 1 .. n - 1 /\ p \in 1 .. n + 2 /\ ~(p >= n)
        BY <1>1
    <2>2. marked[p] = ScanStep(s, marked, p)
        BY <2>1, Zenon DEF Scan
    <2>3. PICK stop : stop = RunStop(s, p) /\ stop \in p + 2 .. n + 1
        BY <2>1, RunStopIs
    <2>4. \/ marked[p] = marked[p + 1] \/ marked[p] = marked[p + 2]
          \/ marked[p] = (p .. stop - 1) \cup marked[stop]
        <3> HIDE DEF Met, P
        <3>1. QED
            BY <2>1, <2>2, <2>3 DEF ScanStep
    <2>5. p + 1 \in p + 1 .. i + 1 /\ p + 2 \in p + 1 .. i + 1
        BY <1>1
    <2>6. stop \in p + 1 .. i + 1 \/ i \in p .. stop - 1
        BY <1>1, <2>3
    <2>7. Met(marked[p + 1]) /\ Met(marked[p + 2])
        BY <1>5, <2>5
    <2>8. CASE marked[p] = (p .. stop - 1) \cup marked[stop]
        <3>1. CASE stop \in p + 1 .. i + 1
            <4>1. Met(marked[stop])
                BY <1>5, <3>1
            <4>2. QED
                BY <2>8, <4>1
        <3>2. CASE i \in p .. stop - 1
            BY <1>1, <2>8, <3>2
        <3>3. QED
            BY <2>6, <3>1, <3>2
    <2>9. QED
        BY <2>4, <2>7, <2>8
<1>6. i + 1 \in Nat /\ i + 1 \in P /\ 1 \in 1 .. i + 1
    <2>1. i + 1 \in 1 .. i + 1 /\ \A p \in i + 1 .. i + 1 : p = i + 1
        BY <1>1
    <2>2. QED
        BY <1>1, <1>4, <2>1
<1>7. ASSUME NEW k \in 2 .. i + 1, k \in P
      PROVE  k - 1 \in P
    <2>1. PICK m : m = k - 1 /\ m + 1 = k /\ m \in 1 .. i + 1 /\ (m = i \/ m \in 1 .. i - 1)
        BY <1>1
    <2>2. \A q \in m + 1 .. i + 1 : Met(marked[q])
        BY <1>7, <2>1
    <2>3. Met(marked[m])
        <3> HIDE DEF Met, P
        <3>1. QED
            BY <1>4, <1>5, <2>1, <2>2
    <2>4. \A p \in m .. i + 1 : p = m \/ p \in m + 1 .. i + 1
        BY <1>1, <2>1
    <2>5. QED
        <3> HIDE DEF Met
        <3>1. QED
            BY <2>1, <2>2, <2>3, <2>4
<1>8. 1 \in P
    <2> HIDE DEF P, Met
    <2>1. \A k \in 1 .. i + 1 : k \in P
        BY <1>6, <1>7, Descend
    <2>2. QED
        BY <1>6, <2>1
<1>9. 1 \in 1 .. i + 1
    BY <1>6
<1>10. Met(marked[1])
    BY <1>8, <1>9
<1>11. QED
    BY <1>10

\* What InterferenceFound says of the pulses of a channel.
Found(s) ==
    LET marked == DetectInChannel(s)
    IN  /\ \A i \in marked :
              \E run \in kSubset(MinCount, marked) :
                  i \in run /\ \E first \in run : \A j \in run : Near(s[first].amp, s[j].amp)
        /\ \A i \in 1 .. Len(s) - 3 :
              Train(s, i, i + 3) => marked \cap (i .. i + 3) # {}

\* A train of four is what FourMet takes.
LEMMA TrainIs ==
    ASSUME NEW s, ByTime(s), NEW n \in Nat, n = Len(s), NEW i \in 1 .. n - 3, Train(s, i, i + 3)
    PROVE  FirstFour(s, i)
<1>1. PICK gap : gap = s[i + 1].time - s[i].time
    OBVIOUS
<1>2. gap > 0 /\ \A k \in i .. i + 3 - 1 : s[k + 1].time - s[k].time = gap
                                          /\ s[k + 1].amp = s[k].amp
    BY <1>1 DEF Train
<1>3. gap \in Int
    <2>1. i \in 1 .. n /\ i + 1 \in 1 .. n
        OBVIOUS
    <2>2. s[i].time \in Nat /\ s[i + 1].time \in Nat
        BY <2>1, ByTimeIs
    <2>3. QED
        BY <1>1, <2>2
<1>4. gap \in Nat \ {0}
    BY <1>2, <1>3
<1>5. i + 3 - 1 = i + 2
    OBVIOUS
<1>6. \A k \in i .. i + 2 : s[k + 1].time - s[k].time = gap /\ s[k + 1].amp = s[k].amp
    BY <1>2, <1>5
<1>7. QED
    BY <1>4, <1>6 DEF FirstFour

LEMMA ChannelFound ==
    ASSUME NEW s, ByTime(s)
    PROVE  Found(s)
<1>1. PICK n \in Nat : n = Len(s)
    BY ByTimeIs
<1>2. CASE n < MinCount
    <2>1. DetectInChannel(s) = {}
        BY <1>1, <1>2 DEF DetectInChannel
    <2>2. \A i \in 1 .. Len(s) - 3 : FALSE
        BY <1>1, <1>2 DEF MinCount
    <2>3. QED
        BY <2>1, <2>2 DEF Found
<1>3. CASE ~(n < MinCount)
    <2>1. PICK f : Scan(s, 1, f) /\ DetectInChannel(s) = f[1]
        BY <1>1, <1>3, DetectIs
    <2>2. PICK m : m = f[1]
        OBVIOUS
    <2>3. InRuns(s, m)
        BY <1>1, <2>1, <2>2, ScanInRuns
    <2>4. \A i \in m : \E run \in kSubset(MinCount, m) :
              i \in run /\ \E first \in run : \A j \in run : Near(s[first].amp, s[j].amp)
        BY <2>3, MarkedTogether
    <2>5. ASSUME NEW i \in 1 .. Len(s) - 3, Train(s, i, i + 3)
          PROVE  m \cap (i .. i + 3) # {}
        <3>1. FirstFour(s, i)
            BY <1>1, <2>5, TrainIs
        <3>2. \E x \in i .. i + 3 : x \in m
            BY <1>1, <2>1, <2>2, <3>1, FourMet
        <3>3. QED
            BY <3>2
    <2>6. QED
        BY <2>1, <2>2, <2>4, <2>5 DEF Found
<1>4. QED
    BY <1>2, <1>3

\* A pulse that is marked as interference has two others beside it, and four
\* pulses of a train are never all missed, for every channel of pulses in the
\* order of their time: interference.go, markPeriodicInterference.
THEOREM InterferenceHolds == Spec => []InterferenceFound
<1>1. Shaped => InterferenceFound
    <2> SUFFICES ASSUME Shaped, subject.kind = "channel"
                 PROVE  Found(subject.pulses)
        BY Zenon DEF InterferenceFound, Found
    <2>1. ByTime(subject.pulses)
        BY DEF Shaped, ChannelShaped
    <2>2. QED
        BY <2>1, ChannelFound
<1>2. QED
    BY <1>1, ShapedHolds, PTL
=============================================================================
