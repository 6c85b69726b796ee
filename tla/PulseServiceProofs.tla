------------------------- MODULE PulseServiceProofs -------------------------
(***************************************************************************)
(* PulseService for every set of arrivals, batches, channels, references   *)
(* and handlers.  The tables only grow, and keep what pulses came with; so *)
(* what a request has read of them stays true until it writes.             *)
(***************************************************************************)
EXTENDS PulseService, PhaseAlignProofs, SequenceTheorems

-----------------------------------------------------------------------------
(* The tables.                                                             *)

GoodPhase(phase) == phase # Uncalibrated => \E r \in References : phase < r.period

\* A pulse came in on a channel that was there, and channels are never removed.
Tables ==
    /\ status \in Stages
    /\ reference \in References \cup {NoReference}
    /\ delay \in [Indexes -> Int \cup {NoChannel}]
    /\ pulses \in [Keys -> PulseRows \cup {NoPulse}]
    /\ \A k \in Stored : GoodPhase(pulses[k].phase)
    /\ \A k \in Stored : k[1] \in Channels
    /\ IsFiniteSet(Stored)

\* What PulsesKept says of a step.
RowsKept ==
    \A k \in Stored :
        /\ pulses'[k] # NoPulse
        /\ pulses'[k].time = pulses[k].time
        /\ pulses'[k].amp = pulses[k].amp
        /\ pulses[k].status # "uncalibrated" => pulses'[k].status # "uncalibrated"
        /\ pulses[k].phase # Uncalibrated => pulses'[k].phase # Uncalibrated

Grown ==
    /\ RowsKept
    /\ Channels \subseteq Channels'
    /\ ~Writable(status) => ~Writable(status)'

LEMMA RowFields ==
    ASSUME NEW row \in PulseRows
    PROVE  /\ row.time \in Nat /\ row.amp \in Nat /\ row.phase \in Nat \cup {Uncalibrated}
           /\ row.status \in PulseStatuses /\ row.reason \in {"", "low", "periodic"}
           /\ row # NoPulse
BY PulseAssumption DEF PulseRows

LEMMA StillTables ==
    ASSUME Tables, UNCHANGED <<status, reference, delay, pulses>>
    PROVE  Tables' /\ Grown
<1>1. Stored' = Stored /\ Channels' = Channels
    BY DEF Stored, Channels
<1>2. Tables'
    BY <1>1 DEF Tables
<1>3. RowsKept
    BY DEF RowsKept, Stored
<1>4. QED
    BY <1>1, <1>2, <1>3 DEF Grown

\* A stored row is changed, and keeps what it came with.
LEMMA RowWritten ==
    ASSUME Tables, NEW k \in Stored, NEW row \in PulseRows,
           pulses' = [pulses EXCEPT ![k] = row], UNCHANGED <<status, reference, delay>>,
           row.time = pulses[k].time, row.amp = pulses[k].amp,
           row.status # "uncalibrated",
           pulses[k].phase # Uncalibrated => row.phase # Uncalibrated,
           GoodPhase(row.phase)
    PROVE  Tables' /\ Grown
<1>1. /\ pulses' \in [Keys -> PulseRows \cup {NoPulse}]
      /\ pulses'[k] = row
      /\ \A l \in Keys \ {k} : pulses'[l] = pulses[l]
    BY DEF Tables, Stored
<1>2. row # NoPulse
    BY RowFields
<1>3. Stored' = Stored /\ Channels' = Channels
    BY <1>1, <1>2 DEF Stored, Channels
<1>4. \A l \in Stored : GoodPhase(pulses'[l].phase)
    BY <1>1, <1>3 DEF Tables, Stored
<1>5. Tables'
    BY <1>1, <1>3, <1>4 DEF Tables, GoodPhase
<1>6. RowsKept
    BY <1>1, <1>2 DEF RowsKept, Stored
<1>7. QED
    BY <1>3, <1>5, <1>6 DEF Grown

LEMMA NewPulseType ==
    ASSUME NEW a \in Arrivals
    PROVE  NewPulse(a) \in PulseRows /\ NewPulse(a).phase = Uncalibrated
BY PulseAssumption DEF NewPulse, PulseRows, PulseStatuses

LEMMA InsertTables ==
    ASSUME Tables, NEW a \in Arrivals, a.ch \in Channels, InsertPulse(a),
           UNCHANGED <<status, reference, delay>>
    PROVE  /\ Tables' /\ Grown
           /\ \A k \in Stored : pulses'[k] = pulses[k]
<1> DEFINE key == <<a.ch, a.seq>>
<1>1. key \in Keys /\ key[1] = a.ch
    BY DEF Keys
<1> HIDE DEF key
<1>2. /\ pulses'[key] = IF pulses[key] = NoPulse THEN NewPulse(a) ELSE pulses[key]
      /\ \A l \in Keys \ {key} : pulses'[l] = pulses[l]
      /\ pulses' \in [Keys -> PulseRows \cup {NoPulse}]
    BY <1>1, NewPulseType DEF InsertPulse, Tables, key
<1>3. \A k \in Stored : k \in Keys /\ pulses'[k] = pulses[k] /\ k \in Stored'
    BY <1>1, <1>2 DEF Stored
<1>4. Stored' \subseteq Stored \cup {key} /\ Channels' = Channels
    BY <1>2 DEF Stored, Channels
<1>5. IsFiniteSet(Stored')
    BY <1>4, FS_AddElement, FS_Subset DEF Tables
<1>6. ASSUME NEW l \in Stored'
      PROVE  GoodPhase(pulses'[l].phase) /\ l[1] \in Channels
    <2>1. CASE l \in Stored
        BY <1>3, <2>1 DEF Tables
    <2>2. CASE l \notin Stored
        <3>1. l = key /\ pulses'[l] = NewPulse(a)
            BY <1>1, <1>2, <1>4, <2>2 DEF Stored
        <3>2. QED
            BY <1>1, <3>1, NewPulseType DEF GoodPhase
    <2>3. QED
        BY <2>1, <2>2
<1>7. Tables'
    BY <1>2, <1>4, <1>5, <1>6 DEF Tables, GoodPhase
<1>8. RowsKept
    BY <1>3 DEF RowsKept, Stored
<1>9. QED
    BY <1>3, <1>4, <1>7, <1>8 DEF Grown

LEMMA DelayTables ==
    ASSUME Tables, NEW c, NEW d \in Int,
           delay' = [i \in Indexes |-> IF i = c /\ c \in Channels THEN d ELSE delay[i]],
           UNCHANGED <<status, reference, pulses>>
    PROVE  /\ Tables' /\ Grown
           /\ \A i \in Channels : delay'[i] = IF i = c THEN d ELSE delay[i]
<1>1. delay' \in [Indexes -> Int \cup {NoChannel}]
    BY DEF Tables
<1>2. Channels' = Channels
    BY PulseAssumption DEF Channels
<1>3. Stored' = Stored
    BY DEF Stored
<1>4. Tables'
    BY <1>1, <1>2, <1>3 DEF Tables
<1>5. RowsKept
    BY DEF RowsKept, Stored
<1>6. \A i \in Channels : delay'[i] = IF i = c THEN d ELSE delay[i]
    BY DEF Channels
<1>7. QED
    BY <1>2, <1>4, <1>5, <1>6 DEF Grown

LEMMA TrialTables ==
    ASSUME Tables, TrialWrites
    PROVE  /\ Tables' /\ Grown
           /\ \A i \in Channels : delay'[i] = delay[i]
<1>1. pulses' = pulses /\ Stored' = Stored
    BY DEF TrialWrites, Stored
<1>2. /\ delay' \in [Indexes -> Int \cup {NoChannel}]
      /\ Channels \subseteq Channels'
      /\ \A i \in Channels : delay'[i] = delay[i]
    <2>1. CASE delay' = delay
        BY <2>1 DEF Tables, Channels
    <2>2. CASE delay' \in {[delay EXCEPT ![i] = 0] : i \in Indexes \ Channels}
        <3>1. PICK i \in Indexes \ Channels : delay' = [delay EXCEPT ![i] = 0]
            BY <2>2
        <3>2. QED
            BY <3>1, PulseAssumption DEF Tables, Channels
    <2>3. QED
        BY <2>1, <2>2 DEF TrialWrites, trialVars
<1>3. /\ status' \in Stages
      /\ ~Writable(status) => ~Writable(status')
    BY DEF Tables, TrialWrites, trialVars, CanTransition, Transitions, Writable
<1>4. reference' \in References \cup {NoReference}
    BY DEF Tables, TrialWrites, trialVars
<1>5. Tables'
    BY <1>1, <1>2, <1>3, <1>4 DEF Tables
<1>6. RowsKept
    BY <1>1 DEF RowsKept, Stored
<1>7. QED
    BY <1>2, <1>3, <1>5, <1>6 DEF Grown

-----------------------------------------------------------------------------
(* The requests: what each has read, and is true until it ends.            *)

Ingests == {"getTrial", "getChannel", "insertPulse"}
Writes == {"updateDelay", "updatePhase"}
Marks == {"markBackground", "markDuplicate"}

\* A request that got past the check of the trial has not inserted late yet.
Ingesting(r) ==
    /\ r = [pc |-> r.pc, batch |-> r.batch, late |-> r.late]
    /\ r.batch \in Seq(Arrivals) \ {<<>>}
    /\ r.late \in Nat
    /\ r.late > 0 => ~Writable(status)
    /\ r.pc # "getTrial" => r.late = 0
    /\ r.pc = "insertPulse" => Head(r.batch).ch \in Channels

\* The angles are those of the pulses as they lie in the table.
Writing(r) ==
    /\ r = [pc |-> r.pc, ref |-> r.ref, delays |-> r.delays, left |-> r.left,
            phases |-> r.phases]
    /\ r.ref \in References
    /\ \A c \in DOMAIN r.delays : r.delays[c] \in Int
    /\ \A k \in DOMAIN r.phases :
          /\ k \in Stored
          /\ DelayOf(r.delays, k[1]) \in Int
          /\ r.phases[k] = Align(CompensateDelay(pulses[k].time, DelayOf(r.delays, k[1])), r.ref)
    /\ r.left \subseteq IF r.pc = "updateDelay" THEN DOMAIN r.delays ELSE DOMAIN r.phases

Marking(r) ==
    /\ r = [pc |-> r.pc, left |-> r.left]
    /\ r.left \subseteq Stored

OK(r) ==
    /\ r.pc \in Ingests => Ingesting(r)
    /\ r.pc \in {"listChannels", "listPulses"} => r.ref \in References
    /\ r.pc \in Writes => Writing(r)
    /\ r.pc \in Marks => Marking(r)

Sound ==
    /\ Tables
    /\ DOMAIN req = Handlers
    /\ \A h \in Handlers : OK(req[h])

LEMMA IngestingKept ==
    ASSUME Grown, NEW r, Ingesting(r)
    PROVE  Ingesting(r)'
BY DEF Grown, Ingesting

LEMMA WritingKept ==
    ASSUME Grown, NEW r, Writing(r)
    PROVE  Writing(r)'
<1>1. \A k \in DOMAIN r.phases : k \in Stored' /\ pulses'[k].time = pulses[k].time
    BY DEF Grown, RowsKept, Stored, Writing
<1>2. QED
    BY <1>1 DEF Writing

LEMMA OKKept ==
    ASSUME Grown, NEW r, OK(r)
    PROVE  OK(r)'
<1>1. Stored \subseteq Stored'
    BY DEF Grown, RowsKept, Stored
<1>2. r.pc \in Marks => Marking(r)'
    BY <1>1 DEF OK, Marking
<1>3. QED
    BY <1>2, IngestingKept, WritingKept DEF OK

\* If the handler that steps has a request that is all right, all have.
LEMMA StepKeeps ==
    ASSUME Sound, Tables', Grown, NEW h \in Handlers, NEW r,
           req' = [req EXCEPT ![h] = r], OK(r)'
    PROVE  Sound' /\ Grown
<1>1. /\ DOMAIN req' = Handlers
      /\ req'[h] = r
      /\ \A g \in Handlers \ {h} : req'[g] = req[g]
    BY DEF Sound
<1>2. \A g \in Handlers \ {h} : OK(req[g])'
    <2>1. TAKE g \in Handlers \ {h}
    <2>2. OK(req[g])
        BY DEF Sound
    <2>3. QED
        BY <1>1, <2>2, OKKept
<1>3. QED
    BY <1>1, <1>2 DEF Sound

LEMMA IdleOK == OK(Idle)
BY DEF OK, Idle, Ingests, Writes, Marks

LEMMA ReturnKeeps ==
    ASSUME Sound, Tables', Grown, NEW h \in Handlers, Return(h)
    PROVE  Sound' /\ Grown
<1>1. OK(Idle)'
    BY IdleOK, OKKept
<1>2. QED
    BY <1>1, StepKeeps DEF Return, Continue

LEMMA InitSound == Init => Sound
<1> SUFFICES ASSUME Init
             PROVE  Sound
    OBVIOUS
<1>1. Stored = {}
    BY DEF Init, Stored
<1>2. Tables
    BY <1>1, FS_EmptySet DEF Init, Tables, Stages
<1>3. QED
    BY <1>2, IdleOK DEF Init, Sound

-----------------------------------------------------------------------------
(* Ingest.                                                                 *)

LEMMA IngestStartKeeps ==
    ASSUME Sound, NEW h \in Handlers, NEW b \in Batches, IngestStart(h, b)
    PROVE  Sound' /\ Grown
<1> DEFINE r == [pc |-> "getTrial", batch |-> b, late |-> 0]
<1>1. Tables' /\ Grown
    BY StillTables DEF IngestStart, trialVars, Sound
<1>2. r.pc = "getTrial" /\ r.batch = b /\ r.late = 0
      /\ r = [pc |-> r.pc, batch |-> r.batch, late |-> r.late]
    OBVIOUS
<1>3. req' = [req EXCEPT ![h] = r]
    BY DEF IngestStart, Continue
<1> HIDE DEF r
<1>4. Ingesting(r)
    BY <1>2, PulseAssumption DEF Ingesting
<1>5. OK(r)
    BY <1>2, <1>4 DEF OK, Ingests, Writes, Marks
<1>6. QED
    BY <1>1, <1>3, <1>5, OKKept, StepKeeps

\* A check that passes: the request goes on, and has what the check saw.
LEMMA CheckedOK ==
    ASSUME NEW r, Ingesting(r), NEW pc \in {"getChannel", "insertPulse"}, r.late = 0,
           pc = "insertPulse" => Head(r.batch).ch \in Channels
    PROVE  OK([r EXCEPT !.pc = pc])
<1> DEFINE s == [r EXCEPT !.pc = pc]
<1>1. r = [pc |-> r.pc, batch |-> r.batch, late |-> r.late]
    BY DEF Ingesting
<1>2. s = [pc |-> pc, batch |-> r.batch, late |-> r.late]
    BY <1>1
<1>3. s.pc = pc /\ s.batch = r.batch /\ s.late = r.late
      /\ s = [pc |-> s.pc, batch |-> s.batch, late |-> s.late]
    BY <1>2
<1> HIDE DEF s
<1>4. Ingesting(s)
    BY <1>3 DEF Ingesting
<1>5. OK(s)
    BY <1>3, <1>4 DEF OK, Ingests, Writes, Marks
<1>6. QED
    BY <1>5 DEF s

LEMMA IngestChecksKeep ==
    ASSUME Sound, NEW h \in Handlers, IngestGetTrial(h) \/ IngestGetChannel(h)
    PROVE  Sound' /\ Grown
<1>1. Tables' /\ Grown
    BY StillTables DEF IngestGetTrial, IngestGetChannel, trialVars, Sound
<1>2. Ingesting(req[h])
    BY DEF Sound, OK, IngestGetTrial, IngestGetChannel, Ingests
<1>3. ASSUME NEW pc \in {"getChannel", "insertPulse"}, Continue(h, [req[h] EXCEPT !.pc = pc]),
             req[h].late = 0, pc = "insertPulse" => Head(req[h].batch).ch \in Channels
      PROVE  Sound' /\ Grown
    <2> DEFINE r == [req[h] EXCEPT !.pc = pc]
    <2>1. OK(r)
        BY <1>2, <1>3, CheckedOK
    <2>2. req' = [req EXCEPT ![h] = r]
        BY <1>3 DEF Continue
    <2> HIDE DEF r
    <2>3. QED
        BY <1>1, <2>1, <2>2, OKKept, StepKeeps
<1>4. CASE Return(h)
    BY <1>1, <1>4, ReturnKeeps
<1>5. CASE IngestGetTrial(h) /\ Writable(status)
    BY <1>2, <1>3, <1>5 DEF IngestGetTrial, Ingesting
<1>6. CASE IngestGetChannel(h) /\ Head(req[h].batch).ch \in Channels
    BY <1>2, <1>3, <1>6 DEF IngestGetChannel, Ingesting
<1>7. QED
    BY <1>4, <1>5, <1>6 DEF IngestGetTrial, IngestGetChannel

LEMMA TailOfLonger ==
    ASSUME NEW S, NEW s \in Seq(S), s # <<>>, Len(s) # 1
    PROVE  Tail(s) \in Seq(S) \ {<<>>}
<1>1. Len(s) \in Nat \ {0}
    BY EmptySeq
<1>2. Tail(s) \in Seq(S) /\ Len(Tail(s)) = Len(s) - 1
    BY HeadTailProperties
<1>3. Len(Tail(s)) # Len(<<>>)
    BY <1>1, <1>2, EmptySeq
<1>4. QED
    BY <1>2, <1>3

LEMMA IngestInsertKeeps ==
    ASSUME Sound, NEW h \in Handlers, IngestInsert(h)
    PROVE  /\ Sound' /\ Grown
           /\ \A k \in Stored : pulses'[k] = pulses[k]
<1> DEFINE b == req[h].batch
           late == req[h].late + IF Writable(status) THEN 0 ELSE 1
           r == [pc |-> NextOfBatch, batch |-> Tail(b), late |-> late]
<1>1. Ingesting(req[h]) /\ Tables
    BY DEF Sound, OK, IngestInsert, Ingests
<1>2. b \in Seq(Arrivals) /\ b # <<>> /\ Head(b) \in Arrivals /\ Head(b).ch \in Channels
    BY <1>1 DEF Ingesting, IngestInsert
<1>3. /\ Tables' /\ Grown
      /\ \A k \in Stored : pulses'[k] = pulses[k]
    BY <1>1, <1>2, InsertTables DEF IngestInsert, trialVars
<1>4. CASE Return(h)
    BY <1>3, <1>4, ReturnKeeps
<1>5. CASE Len(b) # 1 /\ Continue(h, r)
    <2>1. Tail(b) \in Seq(Arrivals) \ {<<>>}
        BY <1>2, <1>5, TailOfLonger
    <2>2. late \in Nat /\ (late > 0 => ~Writable(status))
        BY <1>1 DEF Ingesting
    <2>3. r.pc = "getTrial" /\ r.batch = Tail(b) /\ r.late = late
          /\ r = [pc |-> r.pc, batch |-> r.batch, late |-> r.late]
        BY DEF NextOfBatch
    <2>4. req' = [req EXCEPT ![h] = r]
        BY <1>5 DEF Continue
    <2> HIDE DEF r, late
    <2>5. Ingesting(r)
        BY <2>1, <2>2, <2>3 DEF Ingesting
    <2>6. OK(r)
        BY <2>3, <2>5 DEF OK, Ingests, Writes, Marks
    <2>7. QED
        BY <1>3, <2>4, <2>6, OKKept, StepKeeps
<1>6. QED
    BY <1>4, <1>5 DEF IngestInsert

-----------------------------------------------------------------------------
(* Calibrate.                                                              *)

LEMMA CalibrateReadsKeep ==
    ASSUME Sound, NEW h \in Handlers, CalibrateReference(h) \/ CalibrateChannels(h)
    PROVE  Sound' /\ Grown
<1>1. Tables' /\ Grown
    BY StillTables DEF CalibrateReference, CalibrateChannels, trialVars, Sound
<1>2. ASSUME NEW r, r.pc \in {"listChannels", "listPulses"}, r.ref \in References,
             Continue(h, r)
      PROVE  Sound' /\ Grown
    <2>1. OK(r)
        BY <1>2 DEF OK, Ingests, Writes, Marks
    <2>2. QED
        BY <1>1, <1>2, <2>1, OKKept, StepKeeps DEF Continue
<1>3. CASE CalibrateReference(h)
    <2> DEFINE r == [pc |-> "listChannels", ref |-> reference]
    <2>1. r.pc = "listChannels" /\ r.ref \in References
        BY <1>3 DEF CalibrateReference, Sound, Tables
    <2>2. Continue(h, r)
        BY <1>3 DEF CalibrateReference
    <2> HIDE DEF r
    <2>3. QED
        BY <1>2, <2>1, <2>2
<1>4. CASE CalibrateChannels(h)
    <2> DEFINE r == [pc |-> "listPulses", ref |-> req[h].ref,
                     base |-> IF Channels = {} THEN 0 ELSE Min(Channels)]
    <2>1. OK(req[h]) /\ req[h].pc = "listChannels"
        BY <1>4 DEF CalibrateChannels, Sound
    <2>2. r.pc = "listPulses" /\ r.ref \in References
        BY <2>1 DEF OK
    <2>3. Continue(h, r)
        BY <1>4 DEF CalibrateChannels
    <2> HIDE DEF r
    <2>4. QED
        BY <1>2, <2>2, <2>3
<1>5. QED
    BY <1>3, <1>4

\* The delays are numbers, as there are finitely many stamps to take them from.
LEMMA CalibratePulsesKeeps ==
    ASSUME Sound, NEW h \in Handlers, CalibratePulses(h)
    PROVE  Sound' /\ Grown
<1> DEFINE stamps == [k \in Stored |-> pulses[k].time]
           delays == Estimate(req[h].base, stamps)
           phases == [k \in Stored |->
                         Align(CompensateDelay(pulses[k].time, DelayOf(delays, k[1])), req[h].ref)]
           r == [pc |-> "updateDelay", ref |-> req[h].ref, delays |-> delays,
                 left |-> DOMAIN delays, phases |-> phases]
<1>1. Tables' /\ Grown
    BY StillTables DEF CalibratePulses, trialVars, Sound
<1>2. CASE Return(h)
    BY <1>1, <1>2, ReturnKeeps
<1>3. CASE Continue(h, r)
    <2>1. Numbers(stamps)
        <3>1. \A k \in Stored : pulses[k] \in PulseRows
            BY DEF Sound, Tables, Stored
        <3>2. \A k \in Stored : pulses[k].time \in Nat
            BY <3>1, RowFields
        <3>3. \A d \in DOMAIN stamps : stamps[d] \in Int
            BY <3>2
        <3>4. QED
            BY <3>3 DEF Numbers, Sound, Tables
    <2>2. req[h].ref \in References
        BY DEF CalibratePulses, Sound, OK
    <2>3. /\ \A c \in DOMAIN delays : delays[c] \in Int
          /\ \A c : DelayOf(delays, c) \in Int
        BY <2>1, EstimateType
    <2>4. /\ r.pc = "updateDelay" /\ r.ref = req[h].ref /\ r.delays = delays
          /\ r.left = DOMAIN delays /\ r.phases = phases
          /\ r = [pc |-> r.pc, ref |-> r.ref, delays |-> r.delays, left |-> r.left,
                  phases |-> r.phases]
        OBVIOUS
    <2>5. req' = [req EXCEPT ![h] = r]
        BY <1>3 DEF Continue
    <2> HIDE DEF r, delays
    <2>6. Writing(r)
        BY <2>2, <2>3, <2>4 DEF Writing
    <2>7. OK(r)
        BY <2>4, <2>6 DEF OK, Ingests, Writes, Marks
    <2>8. QED
        BY <1>1, <2>5, <2>7, OKKept, StepKeeps
<1>4. QED
    BY <1>2, <1>3 DEF CalibratePulses

\* EXCEPT on a record, a field at a time.
LEMMA WithLeft ==
    ASSUME NEW r, NEW pc, NEW left, NEW s,
           r = [pc |-> r.pc, ref |-> r.ref, delays |-> r.delays, left |-> r.left,
                phases |-> r.phases],
           s = [r EXCEPT !.pc = pc, !.left = left]
    PROVE  s = [pc |-> pc, ref |-> r.ref, delays |-> r.delays, left |-> left,
                phases |-> r.phases]
<1>1. PICK a, ref, delays, b, phases :
          r = [pc |-> a, ref |-> ref, delays |-> delays, left |-> b, phases |-> phases]
    OBVIOUS
<1> DEFINE t == [r EXCEPT !.pc = pc]
<1>2. t = [pc |-> pc, ref |-> ref, delays |-> delays, left |-> b, phases |-> phases]
    BY <1>1
<1>3. s = [t EXCEPT !.left = left]
    BY <1>1
<1> HIDE DEF t
<1>4. [t EXCEPT !.left = left] =
          [pc |-> pc, ref |-> ref, delays |-> delays, left |-> left, phases |-> phases]
    BY <1>2
<1>5. r.ref = ref /\ r.delays = delays /\ r.phases = phases
    BY <1>1
<1>6. QED
    BY <1>3, <1>4, <1>5

\* A calibration that has written one thing, and has less left to write.
LEMMA WritingGoesOn ==
    ASSUME NEW r, Writing(r), NEW pc \in Writes, NEW left,
           left \subseteq IF pc = "updateDelay" THEN DOMAIN r.delays ELSE DOMAIN r.phases,
           NEW s, s = [r EXCEPT !.pc = pc, !.left = left]
    PROVE  OK(s)
<1>1. r = [pc |-> r.pc, ref |-> r.ref, delays |-> r.delays, left |-> r.left,
           phases |-> r.phases]
    BY DEF Writing
<1>2. s = [pc |-> pc, ref |-> r.ref, delays |-> r.delays, left |-> left, phases |-> r.phases]
    BY <1>1, WithLeft
<1>3. /\ s.pc = pc /\ s.ref = r.ref /\ s.delays = r.delays /\ s.left = left
      /\ s.phases = r.phases
      /\ s = [pc |-> s.pc, ref |-> s.ref, delays |-> s.delays, left |-> s.left,
              phases |-> s.phases]
    BY <1>2
<1>4. Writing(s)
    BY <1>3 DEF Writing
<1>5. QED
    BY <1>3, <1>4 DEF OK, Ingests, Writes, Marks

\* What a step of it that writes does to the request.
LEMMA WritingStepKeeps ==
    ASSUME Sound, Tables', Grown, NEW h \in Handlers, Writing(req[h]), NEW pc \in Writes, NEW left,
           left \subseteq IF pc = "updateDelay" THEN DOMAIN req[h].delays ELSE DOMAIN req[h].phases,
           Continue(h, [req[h] EXCEPT !.pc = pc, !.left = left])
    PROVE  Sound' /\ Grown
<1> DEFINE r == [req[h] EXCEPT !.pc = pc, !.left = left]
<1>1. OK(r)
    BY WritingGoesOn
<1>2. req' = [req EXCEPT ![h] = r]
    BY DEF Continue
<1> HIDE DEF r
<1>3. QED
    BY <1>1, <1>2, OKKept, StepKeeps

\* The same request, with pc written as it is.
LEMMA SamePc ==
    ASSUME NEW r, NEW left, Writing(r)
    PROVE  [r EXCEPT !.left = left] = [r EXCEPT !.pc = r.pc, !.left = left]
<1>1. PICK a, ref, delays, b, phases :
          r = [pc |-> a, ref |-> ref, delays |-> delays, left |-> b, phases |-> phases]
    BY DEF Writing
<1>2. QED
    BY <1>1

LEMMA CalibrateDelayKeeps ==
    ASSUME Sound, NEW h \in Handlers, CalibrateDelay(h)
    PROVE  Sound' /\ Grown
<1> DEFINE q == req[h]
<1>1. Writing(q) /\ q.pc = "updateDelay" /\ q.left \subseteq DOMAIN q.delays
    BY DEF CalibrateDelay, Sound, OK, Writes, Writing
<1>2. PICK c \in q.left :
          /\ delay' = [i \in Indexes |->
                          IF i = c /\ c \in Channels THEN q.delays[c] ELSE delay[i]]
          /\ Continue(h, IF q.left = {c}
                         THEN [q EXCEPT !.pc = "updatePhase", !.left = DOMAIN q.phases]
                         ELSE [q EXCEPT !.left = @ \ {c}])
    BY DEF CalibrateDelay
<1>3. q.delays[c] \in Int
    BY <1>1 DEF Writing
<1>4. Tables' /\ Grown
    BY <1>2, <1>3, DelayTables DEF CalibrateDelay, trialVars, Sound
<1>5. CASE q.left = {c}
    <2>1. Continue(h, [q EXCEPT !.pc = "updatePhase", !.left = DOMAIN q.phases])
        BY <1>2, <1>5
    <2>2. "updatePhase" \in Writes
        BY DEF Writes
    <2>3. QED
        BY <1>1, <1>4, <2>1, <2>2, WritingStepKeeps
<1>6. CASE q.left # {c}
    <2>1. Continue(h, [q EXCEPT !.left = q.left \ {c}])
        BY <1>2, <1>6
    <2>2. Continue(h, [q EXCEPT !.pc = q.pc, !.left = q.left \ {c}])
        BY <1>1, <2>1, SamePc
    <2>3. q.pc \in Writes
        BY <1>1 DEF Writes
    <2>4. QED
        BY <1>1, <1>4, <2>2, <2>3, WritingStepKeeps
<1>7. QED
    BY <1>5, <1>6

\* An angle is a phase the table may hold.
LEMMA AngleGood ==
    ASSUME NEW r, Writing(r), NEW k \in DOMAIN r.phases, Tables
    PROVE  r.phases[k] \in Nat /\ GoodPhase(r.phases[k])
<1>1. k \in Stored /\ DelayOf(r.delays, k[1]) \in Int /\ r.ref \in References
    BY DEF Writing
<1>2. pulses[k] \in PulseRows
    BY <1>1 DEF Tables, Stored
<1>3. pulses[k].time \in Nat
    BY <1>2, RowFields
<1>4. r.ref.zero \in Int /\ r.ref.period \in Nat \ {0}
    BY <1>1, PulseAssumption
<1>5. r.phases[k] = Align(CompensateDelay(pulses[k].time, DelayOf(r.delays, k[1])), r.ref)
    BY DEF Writing
<1>6. r.phases[k] \in Nat /\ r.phases[k] < r.ref.period
    BY <1>1, <1>3, <1>4, <1>5, AlignType
<1>7. QED
    BY <1>1, <1>6 DEF GoodPhase

LEMMA CalibratePhaseKeeps ==
    ASSUME Sound, NEW h \in Handlers, CalibratePhase(h)
    PROVE  Sound' /\ Grown
<1> DEFINE q == req[h]
<1>1. Writing(q) /\ q.pc = "updatePhase" /\ q.left \subseteq DOMAIN q.phases
    BY DEF CalibratePhase, Sound, OK, Writes, Writing
<1>2. PICK k \in q.left :
          /\ UpdatePhase(k, q.phases[k])
          /\ \/ Return(h)
             \/ Continue(h, [q EXCEPT !.left = @ \ {k}])
    BY DEF CalibratePhase
<1>3. k \in Stored /\ q.phases[k] \in Nat /\ GoodPhase(q.phases[k])
    BY <1>1, AngleGood DEF Writing, Sound
<1>4. Tables' /\ Grown
    <2>1. pulses[k] \in PulseRows
        BY <1>3 DEF Sound, Tables, Stored
    <2>2. PICK row : row = [pulses[k] EXCEPT !.phase = q.phases[k], !.status = "valid"]
        OBVIOUS
    <2>3. /\ row \in PulseRows
          /\ row.time = pulses[k].time /\ row.amp = pulses[k].amp
          /\ row.phase = q.phases[k] /\ row.status = "valid"
        <3>1. "valid" \in PulseStatuses /\ q.phases[k] \in Nat \cup {Uncalibrated}
            BY <1>3 DEF PulseStatuses
        <3>2. PICK old, phase, st : old = pulses[k] /\ phase = q.phases[k] /\ st = "valid"
            OBVIOUS
        <3>3. row = [old EXCEPT !.phase = phase, !.status = st]
            BY <2>2, <3>2
        <3>4. /\ row \in PulseRows
              /\ row.time = old.time /\ row.amp = old.amp /\ row.phase = phase
              /\ row.status = st
            BY <2>1, <3>1, <3>2, <3>3 DEF PulseRows
        <3>5. QED
            BY <3>2, <3>4
    <2>4. pulses' = [pulses EXCEPT ![k] = row]
        BY <1>2, <2>2 DEF UpdatePhase
    <2>5. UNCHANGED <<status, reference, delay>> /\ Tables
        BY DEF CalibratePhase, trialVars, Sound
    <2>6. row.phase # Uncalibrated /\ row.status # "uncalibrated" /\ GoodPhase(row.phase)
        BY <1>3, <2>3 DEF Uncalibrated
    <2>7. QED
        BY <1>3, <2>3, <2>4, <2>5, <2>6, RowWritten
<1>5. CASE Return(h)
    BY <1>4, <1>5, ReturnKeeps
<1>6. CASE Continue(h, [q EXCEPT !.left = @ \ {k}])
    <2>1. Continue(h, [q EXCEPT !.left = q.left \ {k}])
        BY <1>6
    <2>2. Continue(h, [q EXCEPT !.pc = q.pc, !.left = q.left \ {k}])
        BY <1>1, <2>1, SamePc
    <2>3. q.pc \in Writes
        BY <1>1 DEF Writes
    <2>4. QED
        BY <1>1, <1>4, <2>2, <2>3, WritingStepKeeps
<1>7. QED
    BY <1>2, <1>5, <1>6

-----------------------------------------------------------------------------
(* Background filter and duplicate marking.                                *)

LEMMA MarkListKeeps ==
    ASSUME Sound, NEW h \in Handlers,
           DedupList(h) \/ \E v \in Thresholds : FilterList(h, v)
    PROVE  Sound' /\ Grown
<1>1. Tables' /\ Grown
    BY StillTables DEF DedupList, FilterList, trialVars, Sound
<1>2. PICK pc \in Marks, left \in SUBSET Stored : Continue(h, [pc |-> pc, left |-> left])
    <2>1. CASE DedupList(h)
        <3>1. PICK order \in TimeOrders :
                  Continue(h, [pc |-> "markDuplicate", left |-> Periodic(order)])
            BY <2>1 DEF DedupList
        <3>2. Periodic(order) \in SUBSET Stored
            BY DEF Periodic
        <3>3. QED
            BY <3>1, <3>2 DEF Marks
    <2>2. CASE \E v \in Thresholds : FilterList(h, v)
        <3>1. PICK v \in Thresholds : FilterList(h, v)
            BY <2>2
        <3>2. {k \in Stored : pulses[k].amp < v} \in SUBSET Stored
            OBVIOUS
        <3>3. QED
            BY <3>1, <3>2 DEF FilterList, Marks
    <2>3. QED
        BY <2>1, <2>2
<1> DEFINE r == [pc |-> pc, left |-> left]
<1>3. r.pc = pc /\ r.left = left /\ r = [pc |-> r.pc, left |-> r.left]
    OBVIOUS
<1>4. req' = [req EXCEPT ![h] = r]
    BY <1>2 DEF Continue
<1> HIDE DEF r
<1>5. OK(r)
    BY <1>3 DEF OK, Marking, Ingests, Writes, Marks
<1>6. QED
    BY <1>1, <1>4, <1>5, OKKept, StepKeeps

\* A marking that goes on has the pulses it has not marked yet.
LEMMA MarkedKeeps ==
    ASSUME Sound, Tables', Grown, NEW h \in Handlers, req[h].pc \in Marks, NEW k, Marked(h, k)
    PROVE  Sound' /\ Grown
<1> DEFINE q == req[h]
           r == [q EXCEPT !.left = q.left \ {k}]
<1>1. Marking(q)
    BY DEF Sound, OK
<1>2. CASE Return(h)
    BY <1>2, ReturnKeeps
<1>3. CASE Continue(h, r)
    <2>1. q = [pc |-> q.pc, left |-> q.left] /\ q.left \subseteq Stored
        BY <1>1 DEF Marking
    <2>2. r = [pc |-> q.pc, left |-> q.left \ {k}]
        BY <2>1
    <2>3. /\ r.pc = q.pc /\ r.left \subseteq Stored
          /\ r = [pc |-> r.pc, left |-> r.left]
        BY <2>1, <2>2
    <2>4. req' = [req EXCEPT ![h] = r]
        BY <1>3 DEF Continue
    <2> HIDE DEF r
    <2>5. OK(r)
        BY <2>3 DEF OK, Marking, Ingests, Writes, Marks
    <2>6. QED
        BY <2>4, <2>5, OKKept, StepKeeps
<1>4. QED
    BY <1>2, <1>3 DEF Marked

LEMMA MarkAsTables ==
    ASSUME Tables, NEW k \in Stored, NEW st \in PulseStatuses \ {"uncalibrated"},
           NEW reason \in {"", "low", "periodic"}, MarkAs(k, st, reason),
           UNCHANGED <<status, reference, delay>>
    PROVE  /\ Tables' /\ Grown
           /\ \A l \in Stored : pulses'[l].phase = pulses[l].phase
<1>1. pulses[k] \in PulseRows
    BY DEF Tables, Stored
<1>2. PICK row : row = [pulses[k] EXCEPT !.status = st, !.reason = reason]
    OBVIOUS
<1>3. /\ row \in PulseRows
      /\ row.time = pulses[k].time /\ row.amp = pulses[k].amp
      /\ row.phase = pulses[k].phase /\ row.status = st
    BY <1>1, <1>2 DEF PulseRows
<1>4. pulses' = [pulses EXCEPT ![k] = row]
    BY <1>2 DEF MarkAs
<1>5. GoodPhase(row.phase)
    BY <1>3 DEF Tables
<1>6. Tables' /\ Grown
    BY <1>3, <1>4, <1>5, RowWritten
<1>7. \A l \in Stored : pulses'[l].phase = pulses[l].phase
    BY <1>3, <1>4 DEF Tables, Stored
<1>8. QED
    BY <1>6, <1>7

LEMMA MarkKeeps ==
    ASSUME Sound, NEW h \in Handlers, MarkBackground(h) \/ MarkDuplicate(h)
    PROVE  /\ Sound' /\ Grown
           /\ \A l \in Stored : pulses'[l].phase = pulses[l].phase
<1>1. req[h].pc \in Marks
    BY DEF MarkBackground, MarkDuplicate, Marks
<1>2. Tables /\ req[h].left \subseteq Stored
    BY <1>1 DEF Sound, OK, Marking
<1>3. PICK k \in req[h].left, st \in PulseStatuses \ {"uncalibrated"},
           reason \in {"", "low", "periodic"} :
          MarkAs(k, st, reason) /\ Marked(h, k)
    <2>1. {"background", "duplicate"} \subseteq PulseStatuses \ {"uncalibrated"}
        BY DEF PulseStatuses
    <2>2. QED
        BY <2>1 DEF MarkBackground, MarkDuplicate
<1>4. UNCHANGED <<status, reference, delay>>
    BY DEF MarkBackground, MarkDuplicate, trialVars
<1>5. k \in Stored
    BY <1>2
<1>6. /\ Tables' /\ Grown
      /\ \A l \in Stored : pulses'[l].phase = pulses[l].phase
    BY <1>2, <1>3, <1>4, <1>5, MarkAsTables
<1>7. QED
    BY <1>1, <1>3, <1>6, MarkedKeeps

-----------------------------------------------------------------------------
(* All steps.                                                              *)

LEMMA OthersKeep ==
    ASSUME Sound, Crash \/ TrialWrites \/ UNCHANGED vars
    PROVE  Sound' /\ Grown
<1>1. Tables' /\ Grown
    BY StillTables, TrialTables DEF Crash, vars, trialVars, Sound
<1>2. CASE Crash
    <2>1. OK(Idle)'
        BY <1>1, IdleOK, OKKept
    <2>2. QED
        BY <1>1, <1>2, <2>1 DEF Crash, Sound
<1>3. CASE UNCHANGED req
    <2>1. \A h \in Handlers : OK(req[h])'
        BY <1>1, <1>3, OKKept DEF Sound
    <2>2. QED
        BY <1>1, <1>3, <2>1 DEF Sound
<1>4. QED
    BY <1>2, <1>3 DEF TrialWrites, vars

LEMMA SoundStep ==
    ASSUME Sound, [Next]_vars
    PROVE  Sound' /\ Grown
<1>1. ASSUME NEW h \in Handlers, Arrive(h) \/ Step(h)
      PROVE  Sound' /\ Grown
    BY <1>1, IngestStartKeeps, IngestChecksKeep, IngestInsertKeeps, CalibrateReadsKeep,
       CalibratePulsesKeeps, CalibrateDelayKeeps, CalibratePhaseKeeps, MarkListKeeps, MarkKeeps
       DEF Arrive, Step
<1>2. QED
    BY <1>1, OthersKeep DEF Next

LEMMA SoundHolds == Spec => []Sound
<1>1. Sound /\ [Next]_vars => Sound'
    BY SoundStep
<1>2. QED
    BY <1>1, InitSound, PTL DEF Spec

\* A pulse that is in the table stays in it with the time and the amplitude it
\* came with, and never becomes uncalibrated again, whatever requests meet.
THEOREM PulsesStay == Spec => PulsesKept
<1>1. Sound /\ [Next]_vars => RowsKept
    BY SoundStep DEF Grown
<1>2. QED
    BY <1>1, SoundHolds, PTL DEF Spec, PulsesKept, RowsKept

\* Of a batch at most one pulse is inserted after the trial has left its
\* writable stages, for batches of any length.
THEOREM LateOnce == Spec => LateBounded
<1>1. Sound => \A h \in Handlers : IngestInsert(h) /\ ~Writable(status) => req[h].late = 0
    BY DEF Sound, OK, IngestInsert, Ingests, Ingesting
<1>2. QED
    BY <1>1, SoundHolds, PTL DEF Spec, LateBounded

-----------------------------------------------------------------------------
(* Calibrations that meet no other one.                                    *)

\* What the request has written so far is what the tables hold.
Written(r) ==
    /\ \A k \in DOMAIN r.phases :
          k[1] \in DOMAIN r.delays /\ ~(r.pc = "updateDelay" /\ k[1] \in r.left) =>
              delay[k[1]] = r.delays[k[1]]
    /\ r.pc = "updatePhase" =>
          \A k \in DOMAIN r.phases \ r.left : pulses[k].phase = r.phases[k]

Met ==
    /\ overlapped \subseteq {h \in Handlers : Calibrating(h)}
    /\ \A g, h \in Handlers :
          g # h /\ Calibrating(g) /\ Calibrating(h) => h \in overlapped

Alone == \A h \in Handlers : h \notin overlapped /\ req[h].pc \in Writes => Written(req[h])

\* A step that no calibration has to fear.
Calm ==
    /\ \A i \in Channels : delay'[i] = delay[i]
    /\ \A k \in Stored : pulses'[k].phase = pulses[k].phase

\* What the step of a handler means to the calibrations.
OnlyOf(h) == \A g \in Handlers \ {h} : req'[g] = req[g]

MeetsNone(h) ==
    \/ overlapped' = overlapped /\ (Calibrating(h)' <=> Calibrating(h))
    \/ overlapped' = overlapped \ {h} /\ ~Calibrating(h)'

Effect(h) ==
    /\ OnlyOf(h)
    /\ MeetsNone(h) \/ CalibrateReference(h)
    /\ Calm \/ Calibrating(h)
    /\ (req[h].pc \in Writes => Written(req[h])) => (req'[h].pc \in Writes => Written(req[h])')

LEMMA WrittenKept ==
    ASSUME Sound, Calm, NEW r, Writing(r), Written(r)
    PROVE  Written(r)'
<1>1. \A k \in DOMAIN r.phases : k \in Stored /\ k[1] \in Channels
    BY DEF Writing, Sound, Tables
<1>2. QED
    BY <1>1 DEF Calm, Written

\* Requests that are no calibration, before and after the step.
LEMMA OtherEffect ==
    ASSUME Sound, NEW h \in Handlers, NEW r, ~Calibrating(h), Calm,
           r.pc \in {"idle"} \cup Ingests \cup Marks, Continue(h, r), UNCHANGED overlapped
    PROVE  Effect(h)
<1>1. req'[h] = r /\ \A g \in Handlers \ {h} : req'[g] = req[g]
    BY DEF Continue, Sound
<1>2. ~Calibrating(h)' /\ req'[h].pc \notin Writes
    BY <1>1 DEF Calibrating, Ingests, Marks, Writes
<1>3. QED
    BY <1>1, <1>2 DEF Effect, OnlyOf, MeetsNone

LEMMA NotCalibrating ==
    ASSUME NEW h, req[h] = Idle \/ req[h].pc \in Ingests \/ req[h].pc \in Marks
    PROVE  ~Calibrating(h)
<1>1. Idle.pc = "idle"
    BY DEF Idle
<1>2. QED
    BY <1>1 DEF Calibrating, Ingests, Marks

LEMMA UnchangedCalm ==
    ASSUME UNCHANGED <<delay, pulses>>
    PROVE  Calm
BY DEF Calm

LEMMA IngestEffect ==
    ASSUME Sound, NEW h \in Handlers,
           \/ \E b \in Batches : IngestStart(h, b)
           \/ IngestGetTrial(h) \/ IngestGetChannel(h) \/ IngestInsert(h)
    PROVE  Effect(h)
<1>1. ~Calibrating(h) /\ UNCHANGED overlapped
    <2>1. req[h] = Idle \/ req[h].pc \in Ingests
        BY DEF IngestStart, IngestGetTrial, IngestGetChannel, IngestInsert, Ingests
    <2>2. UNCHANGED overlapped
        BY DEF IngestStart, IngestGetTrial, IngestGetChannel, IngestInsert
    <2>3. QED
        BY <2>1, <2>2, NotCalibrating
<1>2. Calm
    <2>1. CASE IngestInsert(h)
        BY <2>1, IngestInsertKeeps DEF IngestInsert, Calm
    <2>2. CASE UNCHANGED <<delay, pulses>>
        BY <2>2, UnchangedCalm
    <2>3. QED
        BY <2>1, <2>2 DEF IngestStart, IngestGetTrial, IngestGetChannel
<1>3. CASE Return(h)
    <2>1. Idle.pc \in {"idle"} \cup Ingests \cup Marks
        BY DEF Idle
    <2>2. QED
        BY <1>1, <1>2, <1>3, <2>1, OtherEffect DEF Return
<1>4. CASE \E b \in Batches : IngestStart(h, b)
    <2>1. PICK b \in Batches : IngestStart(h, b)
        BY <1>4
    <2> DEFINE r == [pc |-> "getTrial", batch |-> b, late |-> 0]
    <2>2. r.pc = "getTrial"
        OBVIOUS
    <2>3. Continue(h, r)
        BY <2>1 DEF IngestStart
    <2> HIDE DEF r
    <2>4. QED
        BY <1>1, <1>2, <2>2, <2>3, OtherEffect DEF Ingests
<1>5. ASSUME NEW pc \in {"getChannel", "insertPulse"}, Continue(h, [req[h] EXCEPT !.pc = pc]),
             IngestGetTrial(h) \/ IngestGetChannel(h)
      PROVE  Effect(h)
    <2> DEFINE r == [req[h] EXCEPT !.pc = pc]
    <2>1. Ingesting(req[h])
        BY <1>5 DEF IngestGetTrial, IngestGetChannel, Sound, OK, Ingests
    <2>2. r.pc = pc
        BY <2>1 DEF Ingesting
    <2>3. Continue(h, r)
        BY <1>5
    <2> HIDE DEF r
    <2>4. QED
        BY <1>1, <1>2, <2>2, <2>3, OtherEffect DEF Ingests
<1>6. CASE IngestInsert(h)
    <2> DEFINE r == [pc |-> NextOfBatch, batch |-> Tail(req[h].batch),
                     late |-> req[h].late + IF Writable(status) THEN 0 ELSE 1]
    <2>1. r.pc = "getTrial"
        BY DEF NextOfBatch
    <2>2. Return(h) \/ Continue(h, r)
        BY <1>6 DEF IngestInsert
    <2> HIDE DEF r
    <2>3. QED
        BY <1>1, <1>2, <1>3, <2>1, <2>2, OtherEffect DEF Ingests
<1>7. CASE IngestGetTrial(h)
    BY <1>3, <1>5, <1>7 DEF IngestGetTrial
<1>8. CASE IngestGetChannel(h)
    BY <1>3, <1>5, <1>8 DEF IngestGetChannel
<1>9. QED
    BY <1>4, <1>6, <1>7, <1>8

LEMMA MarkEffect ==
    ASSUME Sound, NEW h \in Handlers,
           \/ DedupList(h) \/ \E v \in Thresholds : FilterList(h, v)
           \/ MarkBackground(h) \/ MarkDuplicate(h)
    PROVE  Effect(h)
<1>1. ~Calibrating(h) /\ UNCHANGED overlapped
    <2>1. req[h] = Idle \/ req[h].pc \in Marks
        BY DEF DedupList, FilterList, MarkBackground, MarkDuplicate, Marks
    <2>2. UNCHANGED overlapped
        BY DEF DedupList, FilterList, MarkBackground, MarkDuplicate
    <2>3. QED
        BY <2>1, <2>2, NotCalibrating
<1>2. Calm
    BY MarkKeeps, UnchangedCalm
       DEF DedupList, FilterList, MarkBackground, MarkDuplicate, Calm
<1>3. PICK r : r.pc \in {"idle"} \cup Marks /\ Continue(h, r)
    <2>1. Idle.pc \in {"idle"} \cup Marks
        BY DEF Idle
    <2>2. CASE DedupList(h)
        <3>1. PICK order \in TimeOrders :
                  Continue(h, [pc |-> "markDuplicate", left |-> Periodic(order)])
            BY <2>2 DEF DedupList
        <3> DEFINE s == [pc |-> "markDuplicate", left |-> Periodic(order)]
        <3>2. s.pc \in Marks
            BY DEF Marks
        <3>3. QED
            BY <3>1, <3>2
    <2>3. CASE \E v \in Thresholds : FilterList(h, v)
        <3>1. PICK v \in Thresholds : FilterList(h, v)
            BY <2>3
        <3> DEFINE s == [pc |-> "markBackground", left |-> {k \in Stored : pulses[k].amp < v}]
        <3>2. s.pc \in Marks
            BY DEF Marks
        <3>3. QED
            BY <3>1, <3>2 DEF FilterList
    <2>4. CASE MarkBackground(h) \/ MarkDuplicate(h)
        <3>1. PICK k : Marked(h, k)
            BY <2>4 DEF MarkBackground, MarkDuplicate
        <3> DEFINE s == [req[h] EXCEPT !.left = @ \ {k}]
        <3>2. req[h].pc \in Marks
            BY <2>4 DEF MarkBackground, MarkDuplicate, Marks
        <3>3. Marking(req[h])
            BY <3>2 DEF Sound, OK
        <3>4. s.pc = req[h].pc
            BY <3>3 DEF Marking
        <3>5. QED
            BY <2>1, <3>1, <3>2, <3>4 DEF Marked, Return
    <2>5. QED
        BY <2>2, <2>3, <2>4
<1>4. QED
    BY <1>1, <1>2, <1>3, OtherEffect

LEMMA CalibrateReadEffect ==
    ASSUME Sound, NEW h \in Handlers,
           CalibrateReference(h) \/ CalibrateChannels(h) \/ CalibratePulses(h)
    PROVE  Effect(h)
<1>1. Calm
    BY UnchangedCalm DEF CalibrateReference, CalibrateChannels, CalibratePulses
<1>2. ASSUME NEW r, Continue(h, r), MeetsNone(h) \/ CalibrateReference(h),
             r.pc \in Writes => r.left = DOMAIN r.delays /\ r.pc = "updateDelay"
      PROVE  Effect(h)
    <2>1. req'[h] = r /\ OnlyOf(h)
        BY <1>2 DEF Continue, Sound, OnlyOf
    <2>2. req'[h].pc \in Writes => Written(req[h])'
        BY <1>2, <2>1 DEF Written
    <2>3. QED
        BY <1>1, <1>2, <2>1, <2>2 DEF Effect
<1>3. CASE CalibrateReference(h)
    <2> DEFINE r == [pc |-> "listChannels", ref |-> reference]
    <2>1. r.pc \notin Writes
        BY DEF Writes
    <2>2. Continue(h, r)
        BY <1>3 DEF CalibrateReference
    <2> HIDE DEF r
    <2>3. QED
        BY <1>2, <1>3, <2>1, <2>2
<1>4. CASE CalibrateChannels(h)
    <2> DEFINE r == [pc |-> "listPulses", ref |-> req[h].ref,
                     base |-> IF Channels = {} THEN 0 ELSE Min(Channels)]
    <2>1. r.pc = "listPulses" /\ r.pc \notin Writes
        BY DEF Writes
    <2>2. Continue(h, r)
        BY <1>4 DEF CalibrateChannels
    <2> HIDE DEF r
    <2>3. req'[h] = r
        BY <2>2 DEF Continue, Sound
    <2>4. MeetsNone(h)
        BY <1>4, <2>1, <2>3 DEF CalibrateChannels, MeetsNone, Calibrating
    <2>5. QED
        BY <1>2, <2>1, <2>2, <2>4
<1>5. CASE CalibratePulses(h)
    <2>1. CASE Return(h) /\ overlapped' = overlapped \ {h}
        <3>1. req'[h] = Idle
            BY <2>1 DEF Return, Continue, Sound
        <3>2. MeetsNone(h)
            BY <2>1, <3>1 DEF MeetsNone, Calibrating, Idle
        <3>3. Idle.pc \notin Writes
            BY DEF Idle, Writes
        <3>4. QED
            BY <1>2, <2>1, <3>2, <3>3 DEF Return
    <2>2. CASE UNCHANGED overlapped
        <3> DEFINE delays == Estimate(req[h].base, [k \in Stored |-> pulses[k].time])
                   phases == [k \in Stored |->
                                 Align(CompensateDelay(pulses[k].time, DelayOf(delays, k[1])),
                                       req[h].ref)]
                   r == [pc |-> "updateDelay", ref |-> req[h].ref, delays |-> delays,
                         left |-> DOMAIN delays, phases |-> phases]
        <3>1. r.pc = "updateDelay" /\ r.left = DOMAIN r.delays
            OBVIOUS
        <3>2. (Return(h) /\ overlapped' = overlapped \ {h}) \/ Continue(h, r)
            BY <1>5 DEF CalibratePulses
        <3> HIDE DEF r
        <3>3. CASE Continue(h, r)
            <4>1. req'[h] = r
                BY <3>3 DEF Continue, Sound
            <4>2. MeetsNone(h)
                BY <1>5, <2>2, <3>1, <4>1 DEF CalibratePulses, MeetsNone, Calibrating
            <4>3. QED
                BY <1>2, <3>1, <3>3, <4>2
        <3>4. QED
            BY <2>1, <3>2, <3>3
    <2>3. QED
        BY <1>5, <2>1, <2>2 DEF CalibratePulses
<1>6. QED
    BY <1>3, <1>4, <1>5

\* The delay that is written is the one that belongs to the request.
LEMMA CalibrateDelayEffect ==
    ASSUME Sound, NEW h \in Handlers, CalibrateDelay(h)
    PROVE  Effect(h)
<1> DEFINE q == req[h]
<1>1. Writing(q) /\ q.pc = "updateDelay" /\ q.left \subseteq DOMAIN q.delays
    BY DEF CalibrateDelay, Sound, OK, Writes, Writing
<1>2. PICK c \in q.left :
          /\ delay' = [i \in Indexes |->
                          IF i = c /\ c \in Channels THEN q.delays[c] ELSE delay[i]]
          /\ Continue(h, IF q.left = {c}
                         THEN [q EXCEPT !.pc = "updatePhase", !.left = DOMAIN q.phases]
                         ELSE [q EXCEPT !.left = @ \ {c}])
    BY DEF CalibrateDelay
<1>3. PICK r : /\ Continue(h, r)
               /\ r.delays = q.delays /\ r.phases = q.phases
               /\ \/ r.pc = "updateDelay" /\ r.left = q.left \ {c}
                  \/ r.pc = "updatePhase" /\ q.left = {c} /\ r.left = DOMAIN q.phases
    <2>1. PICK pc, ref, delays, left, phases :
              q = [pc |-> pc, ref |-> ref, delays |-> delays, left |-> left, phases |-> phases]
        BY <1>1 DEF Writing
    <2>2. CASE q.left = {c}
        <3> DEFINE r == [q EXCEPT !.pc = "updatePhase", !.left = DOMAIN q.phases]
        <3>1. /\ r.delays = q.delays /\ r.phases = q.phases
              /\ r.pc = "updatePhase" /\ r.left = DOMAIN q.phases
            BY <2>1
        <3>2. Continue(h, r)
            BY <1>2, <2>2
        <3> HIDE DEF r
        <3>3. QED
            BY <2>2, <3>1, <3>2
    <2>3. CASE q.left # {c}
        <3> DEFINE r == [q EXCEPT !.left = q.left \ {c}]
        <3>1. /\ r.delays = q.delays /\ r.phases = q.phases
              /\ r.pc = q.pc /\ r.left = q.left \ {c}
            BY <2>1
        <3>2. Continue(h, r)
            BY <1>2, <2>3
        <3> HIDE DEF r
        <3>3. QED
            BY <1>1, <3>1, <3>2
    <2>4. QED
        BY <2>2, <2>3
<1>4. req'[h] = r /\ OnlyOf(h)
    BY <1>3 DEF Continue, Sound, OnlyOf
<1>5. Calibrating(h) /\ MeetsNone(h)
    BY <1>1, <1>3, <1>4 DEF CalibrateDelay, Calibrating, MeetsNone
<1>6. \A i \in Channels : delay'[i] = IF i = c THEN q.delays[c] ELSE delay[i]
    BY <1>2 DEF Channels
<1>7. ASSUME Written(q)
      PROVE  Written(r)'
    <2>1. ASSUME NEW k \in DOMAIN r.phases, k[1] \in DOMAIN r.delays,
                 ~(r.pc = "updateDelay" /\ k[1] \in r.left)
          PROVE  delay'[k[1]] = r.delays[k[1]]
        <3>1. k[1] \in Channels
            BY <1>1, <1>3 DEF Writing, Sound, Tables
        <3>2. CASE k[1] = c
            BY <1>3, <1>6, <3>1, <3>2
        <3>3. CASE k[1] # c
            <4>1. k[1] \notin q.left
                BY <1>3, <2>1, <3>3
            <4>2. delay[k[1]] = q.delays[k[1]]
                BY <1>3, <1>7, <2>1, <4>1 DEF Written
            <4>3. QED
                BY <1>3, <1>6, <3>1, <3>3, <4>2
        <3>4. QED
            BY <3>2, <3>3
    <2>2. r.pc = "updatePhase" => DOMAIN r.phases \ r.left = {}
        BY <1>3
    <2>3. QED
        BY <2>1, <2>2 DEF Written
<1>8. q.pc \in Writes
    BY <1>1 DEF Writes
<1>9. QED
    BY <1>4, <1>5, <1>7, <1>8 DEF Effect

\* So is the angle, and the other pulses keep theirs.
LEMMA CalibratePhaseEffect ==
    ASSUME Sound, NEW h \in Handlers, CalibratePhase(h)
    PROVE  /\ Effect(h)
           /\ Written(req[h]) /\ ~Calibrating(h)' =>
                 \A k \in DOMAIN req[h].phases : pulses'[k].phase = req[h].phases[k]
<1> DEFINE q == req[h]
<1>1. Writing(q) /\ q.pc = "updatePhase" /\ q.left \subseteq DOMAIN q.phases
    BY DEF CalibratePhase, Sound, OK, Writes, Writing
<1>2. PICK k \in q.left :
          /\ UpdatePhase(k, q.phases[k])
          /\ IF q.left = {k}
             THEN Return(h) /\ overlapped' = overlapped \ {h}
             ELSE Continue(h, [q EXCEPT !.left = @ \ {k}]) /\ UNCHANGED overlapped
    BY DEF CalibratePhase
<1>3. delay' = delay /\ Calibrating(h) /\ q.pc \in Writes
    BY <1>1 DEF CalibratePhase, Calibrating, Writes
<1>4. /\ pulses'[k].phase = q.phases[k]
      /\ \A l \in Stored \ {k} : pulses'[l] = pulses[l]
    <2>1. k \in Keys /\ pulses[k] \in PulseRows
        BY <1>1 DEF Writing, Sound, Tables, Stored
    <2>2. PICK row : row = [pulses[k] EXCEPT !.phase = q.phases[k], !.status = "valid"]
        OBVIOUS
    <2>3. row.phase = q.phases[k]
        BY <2>1, <2>2 DEF PulseRows
    <2>4. pulses' = [pulses EXCEPT ![k] = row]
        BY <1>2, <2>2 DEF UpdatePhase
    <2>5. QED
        BY <2>1, <2>3, <2>4 DEF Sound, Tables, Stored
<1>5. ASSUME Written(q)
      PROVE  \A l \in DOMAIN q.phases \ (q.left \ {k}) : pulses'[l].phase = q.phases[l]
    BY <1>1, <1>4, <1>5 DEF Written, Writing
<1>6. CASE q.left = {k}
    <2>1. req'[h] = Idle /\ OnlyOf(h)
        BY <1>2, <1>6 DEF Return, Continue, Sound, OnlyOf
    <2>2. Idle.pc = "idle"
        BY DEF Idle
    <2>3. Effect(h)
        BY <1>2, <1>3, <1>6, <2>1, <2>2 DEF Effect, MeetsNone, Calibrating, Writes
    <2>4. QED
        BY <1>5, <1>6, <2>3
<1>7. CASE q.left # {k}
    <2>1. PICK r : Continue(h, r) /\ r = [q EXCEPT !.left = q.left \ {k}]
        BY <1>2, <1>7
    <2>2. /\ r.delays = q.delays /\ r.phases = q.phases
          /\ r.pc = q.pc /\ r.left = q.left \ {k}
        BY <1>1, <2>1 DEF Writing
    <2>3. req'[h] = r /\ OnlyOf(h)
        BY <2>1 DEF Continue, Sound, OnlyOf
    <2>4. Calibrating(h)'
        BY <1>1, <2>2, <2>3 DEF Calibrating
    <2>5. Written(q) => Written(r)'
        BY <1>1, <1>3, <1>5, <2>2 DEF Written
    <2>6. Effect(h)
        BY <1>2, <1>3, <1>7, <2>3, <2>4, <2>5 DEF Effect, MeetsNone
    <2>7. QED
        BY <2>4, <2>6
<1>8. QED
    BY <1>6, <1>7

\* Two calibrations that are under way know of each other, and one that is
\* alone has what it wrote in the tables.
LEMMA AloneKept ==
    ASSUME Sound, Met, Alone, NEW h \in Handlers, Effect(h)
    PROVE  Met' /\ Alone'
<1>1. \A g \in Handlers \ {h} : req'[g] = req[g] /\ (Calibrating(g)' <=> Calibrating(g))
    BY DEF Effect, OnlyOf, Calibrating
<1>2. ASSUME CalibrateReference(h)
      PROVE  /\ ~Calibrating(h) /\ Calibrating(h)' /\ req'[h].pc \notin Writes
             /\ overlapped \subseteq overlapped'
             /\ overlapped' \subseteq
                   overlapped \cup {h} \cup {g \in Handlers \ {h} : Calibrating(g)}
             /\ \A g \in Handlers \ {h} : Calibrating(g) => g \in overlapped' /\ h \in overlapped'
    <2>1. ~Calibrating(h)
        BY <1>2, NotCalibrating DEF CalibrateReference
    <2>2. req'[h] = [pc |-> "listChannels", ref |-> reference]
        BY <1>2 DEF CalibrateReference, Continue, Sound
    <2>3. req'[h].pc = "listChannels"
        BY <2>2
    <2>4. Calibrating(h)' /\ req'[h].pc \notin Writes
        BY <2>3 DEF Calibrating, Writes
    <2> DEFINE met == {g \in Handlers \ {h} : Calibrating(g)}
    <2>5. overlapped' = IF met = {} THEN overlapped ELSE overlapped \cup met \cup {h}
        BY <1>2 DEF CalibrateReference
    <2>6. QED
        BY <2>1, <2>4, <2>5
<1>3. Met'
    <2>1. CASE CalibrateReference(h)
        BY <1>1, <1>2, <2>1 DEF Met
    <2>2. CASE MeetsNone(h)
        BY <1>1, <2>2 DEF MeetsNone, Met
    <2>3. QED
        BY <2>1, <2>2 DEF Effect
<1>4. ASSUME NEW g \in Handlers, g \notin overlapped', req'[g].pc \in Writes
      PROVE  Written(req[g])'
    <2>1. Calibrating(g)'
        BY <1>4 DEF Calibrating, Writes
    <2>2. CASE g = h
        <3>1. MeetsNone(h) /\ g \notin overlapped
            BY <1>2, <1>4, <2>1, <2>2 DEF Effect, MeetsNone
        <3>2. QED
            BY <1>4, <2>2, <3>1 DEF Effect, Alone
    <2>3. CASE g # h
        <3>1. req'[g] = req[g] /\ Calibrating(g)
            BY <1>1, <2>1, <2>3
        <3>2. g \notin overlapped
            BY <1>2, <1>4, <2>3 DEF Effect, MeetsNone
        <3>3. Calm
            BY <2>3, <3>1, <3>2 DEF Effect, Met
        <3>4. PICK r : r = req[g] /\ r = req'[g]
            BY <3>1
        <3>5. Writing(r) /\ Written(r)
            BY <1>4, <3>2, <3>4 DEF Alone, Sound, OK
        <3>6. Written(r)'
            BY <3>3, <3>5, WrittenKept
        <3>7. QED
            BY <3>4, <3>6
    <2>4. QED
        BY <2>2, <2>3
<1>5. QED
    BY <1>3, <1>4 DEF Alone

\* The steps that are not a handler's.
LEMMA OthersAlone ==
    ASSUME Sound, Met, Alone, Crash \/ TrialWrites \/ UNCHANGED vars
    PROVE  Met' /\ Alone'
<1>1. CASE Crash
    <2>1. overlapped' = {} /\ \A h \in Handlers : req'[h] = Idle
        BY <1>1 DEF Crash
    <2>2. Idle.pc = "idle"
        BY DEF Idle
    <2>3. \A h \in Handlers : ~Calibrating(h)' /\ req'[h].pc \notin Writes
        BY <2>1, <2>2 DEF Calibrating, Writes
    <2>4. QED
        BY <2>1, <2>3 DEF Met, Alone
<1>2. CASE UNCHANGED <<req, overlapped>>
    <2>1. \A h \in Handlers : Calibrating(h)' <=> Calibrating(h)
        BY <1>2 DEF Calibrating
    <2>2. Met'
        BY <1>2, <2>1 DEF Met
    <2>3. Calm
        BY <1>2, <1>1, TrialTables, UnchangedCalm DEF TrialWrites, vars, Calm, Sound, Crash
    <2>4. ASSUME NEW h \in Handlers, h \notin overlapped', req'[h].pc \in Writes
          PROVE  Written(req[h])'
        <3>1. PICK r : r = req[h] /\ r = req'[h]
            BY <1>2
        <3>2. Writing(r) /\ Written(r)
            BY <1>2, <2>4, <3>1 DEF Alone, Sound, OK
        <3>3. Written(r)'
            BY <2>3, <3>2, WrittenKept
        <3>4. QED
            BY <3>1, <3>3
    <2>5. QED
        BY <2>2, <2>4 DEF Alone
<1>3. QED
    BY <1>1, <1>2 DEF TrialWrites, vars

LEMMA EffectOfStep ==
    ASSUME Sound, NEW h \in Handlers, Arrive(h) \/ Step(h)
    PROVE  Effect(h)
BY IngestEffect, MarkEffect, CalibrateReadEffect, CalibrateDelayEffect, CalibratePhaseEffect
   DEF Arrive, Step

LEMMA AloneHolds == Spec => [](Sound /\ Met /\ Alone)
<1>1. Init => Met /\ Alone
    BY DEF Init, Met, Alone, Calibrating, Writes, Idle
<1>2. Sound /\ Met /\ Alone /\ [Next]_vars => (Met /\ Alone)'
    BY EffectOfStep, AloneKept, OthersAlone DEF Next
<1>3. QED
    BY <1>1, <1>2, SoundHolds, PTL DEF Spec

\* The rows keep their shape, and every phase that is set is an angle of the
\* cycle of a reference, also of pulses that lie before its zero.
THEOREM TypeCorrect == Spec => []TypeOK
<1>1. Sound /\ Met => TypeOK
    BY DEF Sound, Tables, GoodPhase, Met, TypeOK
<1>2. QED
    BY <1>1, AloneHolds, PTL

\* A calibration that met no other one ends with angles that agree with the
\* reference it read and the delays that are stored, whatever else happened.
THEOREM SoloAgrees == Spec => SoloCalibrationAgrees
<1>1. Sound /\ Met /\ Alone =>
          \A h \in Handlers :
              CalibratePhase(h) /\ h \notin overlapped /\ ~Calibrating(h)' =>
                  \A k \in DOMAIN req[h].phases :
                      k[1] \in DOMAIN req[h].delays =>
                          pulses'[k].phase =
                              Align(CompensateDelay(pulses[k].time, delay[k[1]]), req[h].ref)
    <2> SUFFICES ASSUME Sound, Met, Alone, NEW h \in Handlers,
                        CalibratePhase(h), h \notin overlapped, ~Calibrating(h)',
                        NEW k \in DOMAIN req[h].phases, k[1] \in DOMAIN req[h].delays
                 PROVE  pulses'[k].phase =
                            Align(CompensateDelay(pulses[k].time, delay[k[1]]), req[h].ref)
        OBVIOUS
    <2>1. req[h].pc = "updatePhase" /\ req[h].pc \in Writes
        BY DEF CalibratePhase, Writes
    <2>2. Writing(req[h]) /\ Written(req[h])
        BY <2>1 DEF Sound, OK, Alone
    <2>3. pulses'[k].phase = req[h].phases[k]
        BY <2>2, CalibratePhaseEffect
    <2>4. delay[k[1]] = DelayOf(req[h].delays, k[1])
        BY <2>1, <2>2 DEF Written, DelayOf
    <2>5. QED
        BY <2>2, <2>3, <2>4 DEF Writing
<1>2. QED
    BY <1>1, AloneHolds, PTL DEF Spec, SoloCalibrationAgrees
=============================================================================
