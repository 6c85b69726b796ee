---------------------------- MODULE PulseService ----------------------------
(***************************************************************************)
(* internal/service/pulse_service.go for one trial, with the batch loop of *)
(* internal/httpapi/pulse_handler.go: ingest, calibration, background      *)
(* filter and duplicate marking over the pulses and channels tables.       *)
(* Every statement names the trial or a row of it, so trials do not meet   *)
(* here.  Handlers interleave between SQL statements as in TrialService,   *)
(* which is also what moves the status, the reference and the channels:    *)
(* here those steps are the action TrialWrites.                            *)
(***************************************************************************)
EXTENDS TrialStates, PhaseAlign, Periodicity, SequencesExt

CONSTANTS
    Arrivals,     \* pulses clients send: [ch, seq, time, amp]
    Batches,      \* sequences of arrivals that come in one request
    Indexes,      \* channel indexes that can be registered
    References,   \* phase references: [zero, period]
    Thresholds,   \* thresholds of the background filter, in mV
    Handlers,     \* request goroutines
    NoReference,  \* no phase_references row
    NoChannel,    \* no channels row
    NoPulse       \* no pulses row

\* UNIQUE(trial_id, channel_index, seq) identifies a pulse.
Keys == {<<a.ch, a.seq>> : a \in Arrivals}

PulseStatuses == {"uncalibrated", "valid", "background", "duplicate"}

Uncalibrated == -1

\* channel_id, which no code reads, and created_at are left out.
PulseRows ==
    [time : Nat, amp : Nat, phase : Nat \cup {Uncalibrated},
     status : PulseStatuses, reason : {"", "low", "periodic"}]

ASSUME PulseAssumption ==
    /\ \A a \in Arrivals :
          a.ch \in Nat /\ a.seq \in Nat /\ a.time \in Nat /\ a.amp \in Nat
    /\ Batches \subseteq Seq(Arrivals) \ {<<>>}
    /\ Indexes \subseteq Nat
    /\ \A r \in References : r.zero \in Int /\ r.period \in Nat \ {0}
    /\ Thresholds \subseteq Int
    /\ NoReference \notin References
    /\ NoChannel \notin Int
    /\ NoPulse \notin PulseRows

VARIABLES
    status,     \* trials.status
    reference,  \* the phase_references row
    delay,      \* channels.delay_ns of each index, doubled as in PhaseAlign
    pulses,     \* the pulses table by key
    req,        \* what each handler still has to do
    overlapped  \* history: calibrating handlers that have met another one

vars == <<status, reference, delay, pulses, req, overlapped>>

trialVars == <<status, reference>>

Stored == {k \in Keys : pulses[k] # NoPulse}

Channels == {i \in Indexes : delay[i] # NoChannel}

\* ORDER BY channel_index, seq
Before(k, l) == k[1] < l[1] \/ (k[1] = l[1] /\ k[2] < l[2])

IsFirst(k, K) == k \in K /\ \A l \in K \ {k} : Before(k, l)

Idle == [pc |-> "idle"]

Init ==
    /\ status = "preparing"
    /\ reference = NoReference
    /\ delay = [i \in Indexes |-> NoChannel]
    /\ pulses = [k \in Keys |-> NoPulse]
    /\ req = [h \in Handlers |-> Idle]
    /\ overlapped = {}

Continue(h, r) == req' = [req EXCEPT ![h] = r]
Return(h) == Continue(h, Idle)

-----------------------------------------------------------------------------
(* Ingest, for the pulses of a batch one after the other; a single pulse   *)
(* is a batch of one.  The first refusal ends the request.  "late" is      *)
(* history: how many pulses the request has inserted into a closed trial.  *)

IngestStart(h, b) ==
    /\ req[h] = Idle
    /\ Continue(h, [pc |-> "getTrial", batch |-> b, late |-> 0])
    /\ UNCHANGED <<trialVars, delay, pulses, overlapped>>

IngestGetTrial(h) ==
    /\ req[h].pc = "getTrial"
    /\ IF Writable(status)
       THEN Continue(h, [req[h] EXCEPT !.pc = "getChannel"])
       ELSE Return(h)
    /\ UNCHANGED <<trialVars, delay, pulses, overlapped>>

IngestGetChannel(h) ==
    /\ req[h].pc = "getChannel"
    /\ IF Head(req[h].batch).ch \in Channels
       THEN Continue(h, [req[h] EXCEPT !.pc = "insertPulse"])
       ELSE Return(h)
    /\ UNCHANGED <<trialVars, delay, pulses, overlapped>>

\* The other pulses of the batch go through Ingest from its start.
\* Mutant: the trial was checked for the first pulse already.
NextOfBatchUnchecked == "getChannel"

NextOfBatch == "getTrial"

NewPulse(a) ==
    [time |-> a.time, amp |-> a.amp, phase |-> Uncalibrated,
     status |-> "uncalibrated", reason |-> ""]

\* Mutant: INSERT OR REPLACE.
InsertPulseReplacing(a) == pulses' = [pulses EXCEPT ![<<a.ch, a.seq>>] = NewPulse(a)]

\* A second pulse of a key is dropped, whatever time and amplitude it has.
InsertPulse(a) ==
    pulses' = [pulses EXCEPT ![<<a.ch, a.seq>>] = IF @ = NoPulse THEN NewPulse(a) ELSE @]

IngestInsert(h) ==
    LET b == req[h].batch
    IN  /\ req[h].pc = "insertPulse"
        /\ InsertPulse(Head(b))
        /\ IF Len(b) = 1
           THEN Return(h)
           ELSE Continue(h, [pc |-> NextOfBatch, batch |-> Tail(b),
                             late |-> req[h].late + IF Writable(status) THEN 0 ELSE 1])
        /\ UNCHANGED <<trialVars, delay, overlapped>>

-----------------------------------------------------------------------------
(* Calibrate: reference, channels, pulses; then one update per channel     *)
(* that has a delay, and one per pulse.  The status is not looked at.      *)

Calibrating(h) == req[h].pc \in {"listChannels", "listPulses", "updateDelay", "updatePhase"}

CalibrateReference(h) ==
    LET met == {g \in Handlers \ {h} : Calibrating(g)}
    IN  /\ req[h] = Idle
        /\ reference # NoReference
        /\ Continue(h, [pc |-> "listChannels", ref |-> reference])
        /\ overlapped' = IF met = {} THEN overlapped ELSE overlapped \cup met \cup {h}
        /\ UNCHANGED <<trialVars, delay, pulses>>

\* The reference channel is the lowest registered index.
CalibrateChannels(h) ==
    /\ req[h].pc = "listChannels"
    /\ Continue(h, [pc |-> "listPulses", ref |-> req[h].ref,
                    base |-> IF Channels = {} THEN 0 ELSE Min(Channels)])
    /\ UNCHANGED <<trialVars, delay, pulses, overlapped>>

\* "phases" are the angles the request will write, "left" what it has still
\* to write: channel indexes first, then the keys of pulses.
CalibratePulses(h) ==
    LET delays == Estimate(req[h].base, [k \in Stored |-> pulses[k].time])
    IN  /\ req[h].pc = "listPulses"
        /\ \/ /\ Stored = {}
              /\ Return(h)
              /\ overlapped' = overlapped \ {h}
           \/ /\ Stored # {}
              /\ Continue(h, [pc |-> "updateDelay", ref |-> req[h].ref,
                              delays |-> delays, left |-> DOMAIN delays,
                              phases |-> [k \in Stored |->
                                  Align(CompensateDelay(pulses[k].time, DelayOf(delays, k[1])),
                                        req[h].ref)]])
              /\ UNCHANGED overlapped
        /\ UNCHANGED <<trialVars, delay, pulses>>

\* The delays are a Go map: they come in any order.  A channel without a row
\* is passed over.
CalibrateDelay(h) ==
    /\ req[h].pc = "updateDelay"
    /\ \E c \in req[h].left :
          /\ delay' = [i \in Indexes |->
                          IF i = c /\ c \in Channels THEN req[h].delays[c] ELSE delay[i]]
          /\ Continue(h, IF req[h].left = {c}
                         THEN [req[h] EXCEPT !.pc = "updatePhase", !.left = DOMAIN req[h].phases]
                         ELSE [req[h] EXCEPT !.left = @ \ {c}])
    /\ UNCHANGED <<trialVars, pulses, overlapped>>

\* exclude_reason stays as it is.
UpdatePhase(k, phase) ==
    pulses' = [pulses EXCEPT ![k] = [@ EXCEPT !.phase = phase, !.status = "valid"]]

CalibratePhase(h) ==
    /\ req[h].pc = "updatePhase"
    /\ \E k \in req[h].left :
          /\ IsFirst(k, req[h].left)
          /\ UpdatePhase(k, req[h].phases[k])
          /\ IF req[h].left = {k}
             THEN Return(h) /\ overlapped' = overlapped \ {h}
             ELSE Continue(h, [req[h] EXCEPT !.left = @ \ {k}]) /\ UNCHANGED overlapped
    /\ UNCHANGED <<trialVars, delay>>

-----------------------------------------------------------------------------
(* ApplyBackgroundFilter and ApplyDedup: list the pulses, then mark the    *)
(* selected ones with one update each.  No HTTP route leads to them yet;   *)
(* the smoke test of cmd/pdcluster calls them.                             *)

FilterList(h, threshold) ==
    LET low == {k \in Stored : pulses[k].amp < threshold}
    IN  /\ req[h] = Idle
        /\ low # {}
        /\ Continue(h, [pc |-> "markBackground", left |-> low])
        /\ UNCHANGED <<trialVars, delay, pulses, overlapped>>

\* The stored keys in an order sort.Slice can give them: by time, ties freely.
TimeOrders ==
    {o \in SetToSeqs(Stored) :
        \A i, j \in DOMAIN o : i < j => pulses[o[i]].time <= pulses[o[j]].time}

\* DetectPeriodic looks at each channel by itself.
Periodic(order) ==
    LET group(c) == SelectSeq(order, LAMBDA k : k[1] = c)
        marked(g) == DetectInChannel([j \in DOMAIN g |-> pulses[g[j]]])
    IN  {k \in Stored : \E i \in marked(group(k[1])) : group(k[1])[i] = k}

DedupList(h) ==
    /\ req[h] = Idle
    /\ \E order \in TimeOrders :
          /\ Periodic(order) # {}
          /\ Continue(h, [pc |-> "markDuplicate", left |-> Periodic(order)])
    /\ UNCHANGED <<trialVars, delay, pulses, overlapped>>

MarkAs(k, newStatus, reason) ==
    pulses' = [pulses EXCEPT ![k] = [@ EXCEPT !.status = newStatus, !.reason = reason]]

Marked(h, k) ==
    IF req[h].left = {k} THEN Return(h) ELSE Continue(h, [req[h] EXCEPT !.left = @ \ {k}])

MarkBackground(h) ==
    /\ req[h].pc = "markBackground"
    /\ \E k \in req[h].left :
          /\ IsFirst(k, req[h].left)
          /\ MarkAs(k, "background", "low")
          /\ Marked(h, k)
    /\ UNCHANGED <<trialVars, delay, overlapped>>

\* Channels come in the order of a Go map, the pulses of one by time.
MarkDuplicate(h) ==
    /\ req[h].pc = "markDuplicate"
    /\ \E k \in req[h].left :
          /\ \A l \in req[h].left : l[1] = k[1] => pulses[k].time <= pulses[l].time
          /\ MarkAs(k, "duplicate", "periodic")
          /\ Marked(h, k)
    /\ UNCHANGED <<trialVars, delay, overlapped>>

-----------------------------------------------------------------------------
\* The process dies: the handlers are gone, what was committed stays.
Crash ==
    /\ \E h \in Handlers : req[h] # Idle
    /\ req' = [h \in Handlers |-> Idle]
    /\ overlapped' = {}
    /\ UNCHANGED <<trialVars, delay, pulses>>

\* What the handlers of TrialService write, with one driver at a time: a
\* reference or a channel can still arrive after the seal, from a request
\* that looked at the status before it.
TrialWrites ==
    /\ \/ /\ status' \in {to \in Stages : CanTransition(status, to)}
          /\ UNCHANGED <<reference, delay>>
       \/ /\ reference' \in References
          /\ UNCHANGED <<status, delay>>
       \/ /\ delay' \in {[delay EXCEPT ![i] = 0] : i \in Indexes \ Channels}
          /\ UNCHANGED trialVars
    /\ UNCHANGED <<pulses, req, overlapped>>

\* The next statement of a request that is under way.
Step(h) ==
    \/ IngestGetTrial(h) \/ IngestGetChannel(h) \/ IngestInsert(h)
    \/ CalibrateChannels(h) \/ CalibratePulses(h)
    \/ CalibrateDelay(h) \/ CalibratePhase(h)
    \/ MarkBackground(h) \/ MarkDuplicate(h)

Arrive(h) ==
    \/ \E b \in Batches : IngestStart(h, b)
    \/ CalibrateReference(h)
    \/ \E v \in Thresholds : FilterList(h, v)
    \/ DedupList(h)

Next == Crash \/ TrialWrites \/ \E h \in Handlers : Arrive(h) \/ Step(h)

Spec == Init /\ [][Next]_vars

-----------------------------------------------------------------------------
(* Properties.                                                             *)

\* The rows have the shape the code gives them; a phase that is set is an
\* angle of the cycle of some reference, also for a pulse before its zero.
TypeOK ==
    /\ status \in Stages
    /\ reference \in References \cup {NoReference}
    /\ delay \in [Indexes -> Int \cup {NoChannel}]
    /\ pulses \in [Keys -> PulseRows \cup {NoPulse}]
    /\ \A k \in Stored :
          pulses[k].phase # Uncalibrated =>
              \E r \in References : pulses[k].phase < r.period
    /\ overlapped \subseteq {h \in Handlers : Calibrating(h)}

\* A pulse that is in the table stays in it with the time and the amplitude
\* it came with, through resubmissions, calibrations, markings and crashes,
\* and none of them makes it uncalibrated again (PulseStore: "raw pulses are
\* never deleted"; Insert is idempotent).
PulsesKept ==
    [][\A k \in Stored :
          /\ pulses'[k] # NoPulse
          /\ pulses'[k].time = pulses[k].time
          /\ pulses'[k].amp = pulses[k].amp
          /\ pulses[k].status # "uncalibrated" => pulses'[k].status # "uncalibrated"
          /\ pulses[k].phase # Uncalibrated => pulses'[k].phase # Uncalibrated]_vars

\* When the trial leaves its writable stages in the middle of a batch, one
\* pulse of the batch at most still goes in: the one that was between check
\* and insert (Ingest is called anew for each pulse).
LateBounded ==
    [][\A h \in Handlers : IngestInsert(h) /\ ~Writable(status) => req[h].late = 0]_vars

\* A calibration that met no other one ends with tables that agree: every
\* pulse it listed lies at the angle that the reference it read and the delay
\* now stored for its channel give, whatever ingests, markings, new channels
\* and crashed calibrations came in between (Calibrate).  A channel that
\* shares no discharge with the reference channel is left out: see README.
SoloCalibrationAgrees ==
    [][\A h \in Handlers :
          CalibratePhase(h) /\ h \notin overlapped /\ ~Calibrating(h)' =>
              \A k \in DOMAIN req[h].phases :
                  k[1] \in DOMAIN req[h].delays =>
                      pulses'[k].phase =
                          Align(CompensateDelay(pulses[k].time, delay[k[1]]), req[h].ref)]_vars

\* exclude_reason is set on background and duplicate pulses only (Pulse).
ReasonMeansExcluded ==
    \A k \in Stored :
        pulses[k].reason # "" => pulses[k].status \in {"background", "duplicate"}
=============================================================================
