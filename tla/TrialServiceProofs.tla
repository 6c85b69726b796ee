------------------------- MODULE TrialServiceProofs -------------------------
(***************************************************************************)
(* TrialService for every set of trials, fingerprints, references,         *)
(* channel indexes and handlers.  The first part holds whatever the        *)
(* handlers are; the second one assumes that transitions of trials come    *)
(* one at a time, which the code leaves to its clients.                    *)
(***************************************************************************)
EXTENDS TrialService, TLAPS

LEMMA Typing == TypeOK /\ [Next]_vars => TypeOK'
<1> SUFFICES ASSUME TypeOK, [Next]_vars PROVE TypeOK'
    OBVIOUS
<1> USE DEF TypeOK
<1>1. CASE UNCHANGED vars
    BY <1>1 DEF vars
<1>2. CASE Crash
    BY <1>2 DEF Crash, Requests
<1>3. ASSUME NEW h \in Handlers, Arrive(h) PROVE TypeOK'
    <2>1. ASSUME NEW fp \in Fingerprints, CreateLookup(h, fp) PROVE TypeOK'
        BY <2>1 DEF CreateLookup, Continue, Requests
    <2>2. ASSUME NEW t \in Trials, NEW to \in Stages, TransitionRead(h, t, to)
          PROVE TypeOK'
        BY <2>2 DEF TransitionRead, Continue, Requests
    <2>3. ASSUME NEW t \in Trials, NEW r \in References, SetReferenceGet(h, t, r)
          PROVE TypeOK'
        <3>1. IsSealed(status[t]) \in BOOLEAN
            BY DEF IsSealed
        <3>2. QED
            BY <2>3, <3>1 DEF SetReferenceGet, Continue, Requests
    <2>4. ASSUME NEW t \in Trials, NEW i \in Indexes, AddChannelGet(h, t, i)
          PROVE TypeOK'
        <3>1. IsSealed(status[t]) \in BOOLEAN
            BY DEF IsSealed
        <3>2. QED
            BY <2>4, <3>1 DEF AddChannelGet, Continue, Requests
    <2>5. QED
        BY <1>3, <2>1, <2>2, <2>3, <2>4 DEF Arrive
<1>4. ASSUME NEW h \in Handlers, Step(h) PROVE TypeOK'
    <2>1. CASE CreateInsert(h)
        <3>1. req[h].fp \in Fingerprints
            BY <2>1 DEF CreateInsert, Requests, Idle
        <3>2. QED
            BY <2>1, <3>1 DEF CreateInsert, InitialStage, Stages, Return,
                              Continue, Requests
    <2>2. CASE TransitionWrite(h)
        <3>1. req[h].trial \in Trials /\ req[h].to \in Stages
            BY <2>2 DEF TransitionWrite, Requests, Idle
        <3>2. QED
            BY <2>2, <3>1 DEF TransitionWrite, Return, Continue, Requests
    <2>3. CASE SetReferenceCheck(h)
        <3>1. [req[h] EXCEPT !.pc = "upsertReference"] \in Requests
            BY <2>3 DEF SetReferenceCheck, Requests, Idle
        <3>2. Idle \in Requests
            BY DEF Requests
        <3>3. QED
            BY <2>3, <3>1, <3>2 DEF SetReferenceCheck, Return, Continue
    <2>4. CASE SetReferenceUpsert(h)
        <3>1. req[h].trial \in Trials /\ req[h].ref \in References
            BY <2>4 DEF SetReferenceUpsert, Requests, Idle
        <3>2. QED
            BY <2>4, <3>1 DEF SetReferenceUpsert, Return, Continue, Requests
    <2>5. CASE AddChannelCheck(h)
        <3>1. [req[h] EXCEPT !.pc = "insertChannel"] \in Requests
            BY <2>5 DEF AddChannelCheck, Requests, Idle
        <3>2. Idle \in Requests
            BY DEF Requests
        <3>3. QED
            BY <2>5, <3>1, <3>2 DEF AddChannelCheck, Return, Continue
    <2>6. CASE AddChannelInsert(h)
        <3>1. req[h].trial \in Trials /\ req[h].index \in Indexes
            BY <2>6 DEF AddChannelInsert, Requests, Idle
        <3>2. QED
            BY <2>6, <3>1 DEF AddChannelInsert, Return, Continue, Requests
    <2>7. QED
        BY <1>4, <2>1, <2>2, <2>3, <2>4, <2>5, <2>6 DEF Step
<1>5. QED
    BY <1>1, <1>2, <1>3, <1>4 DEF Next

\* Rows and requests keep the shape the code gives them (trial_service.go).
THEOREM TypeCorrect == Spec => []TypeOK
<1>1. Init => TypeOK
    BY DEF Init, TypeOK, Requests
<1>2. QED
    BY <1>1, Typing, PTL DEF Spec

\* Registrations of the same trial that race leave one row (Create and the
\* unique index on trials.fingerprint).
THEOREM FingerprintsUnique == Spec => []OneTrialPerFingerprint
<1>1. Init => OneTrialPerFingerprint
    BY DEF Init, OneTrialPerFingerprint
<1>2. TypeOK /\ OneTrialPerFingerprint /\ [Next]_vars => OneTrialPerFingerprint'
    <2> SUFFICES ASSUME TypeOK, OneTrialPerFingerprint, [Next]_vars
                 PROVE OneTrialPerFingerprint'
        OBVIOUS
    <2>1. CASE UNCHANGED fingerprint
        BY <2>1 DEF OneTrialPerFingerprint
    <2>2. ASSUME NEW h \in Handlers, CreateInsert(h),
                 ~InsertTrialRefused(req[h].fp)
          PROVE OneTrialPerFingerprint'
        BY <2>2 DEF CreateInsert, InsertTrialRefused, FingerprintTaken, TypeOK,
                    OneTrialPerFingerprint
    <2>3. QED
        BY <2>1, <2>2 DEF Next, Arrive, Step, vars, Crash, CreateLookup,
           CreateInsert, TransitionRead, TransitionWrite, SetReferenceGet,
           SetReferenceCheck, SetReferenceUpsert, AddChannelGet,
           AddChannelCheck, AddChannelInsert
<1>3. QED
    BY <1>1, <1>2, TypeCorrect, PTL DEF Spec

\* A pending update was allowed by a status the trial has had; statuses are
\* never taken out of "reached", so it does not matter how stale it is.
UpdatesFollow ==
    \A h \in Handlers :
        req[h].pc = "updateStatus" =>
            \E from \in reached[req[h].trial] : CanTransition(from, req[h].to)

\* No interleaving of transitions, crashes included, takes a trial past a
\* stage it has not been through (transition).
THEOREM StagesInOrder == Spec => []NoStageSkipped
<1> DEFINE IInv == NoStageSkipped /\ UpdatesFollow
<1>1. Init => IInv
    BY DEF Init, NoStageSkipped, UpdatesFollow, Exists, Idle
<1>2. TypeOK /\ IInv /\ [Next]_vars => IInv'
    <2> SUFFICES ASSUME TypeOK, IInv, [Next]_vars PROVE IInv'
        OBVIOUS
    <2>1. CASE UNCHANGED vars
        BY <2>1 DEF vars, NoStageSkipped, UpdatesFollow, Exists
    <2>2. CASE Crash
        BY <2>2 DEF Crash, NoStageSkipped, UpdatesFollow, Exists, Idle
    <2>3. ASSUME NEW h \in Handlers, CreateInsert(h) PROVE IInv'
        <3>1. req'[h].pc # "updateStatus"
              /\ \A g \in Handlers \ {h} : req'[g] = req[g]
            BY <2>3 DEF CreateInsert, Return, Continue, TypeOK, Idle
        <3>2. \A t \in Trials : reached[t] \subseteq reached'[t]
            BY <2>3 DEF CreateInsert, TypeOK
        <3>3. \A g \in Handlers : req[g].pc = "updateStatus" => req[g].trial \in Trials
            BY DEF TypeOK, Requests, Idle
        <3>4. UpdatesFollow'
            BY <3>1, <3>2, <3>3 DEF UpdatesFollow
        <3>5. NoStageSkipped'
            BY <2>3 DEF CreateInsert, InitialStage, NoStageSkipped, Exists,
                        Transitions, TypeOK
        <3>6. QED
            BY <3>4, <3>5
    <2>4. ASSUME NEW h \in Handlers, NEW t \in Trials, NEW to \in Stages,
                 TransitionRead(h, t, to)
          PROVE IInv'
        <3>1. status[t] \in reached[t] /\ CanTransition(status[t], to)
            BY <2>4 DEF TransitionRead, NoStageSkipped
        <3>2. UpdatesFollow'
            BY <2>4, <3>1 DEF TransitionRead, Continue, TypeOK, UpdatesFollow
        <3>3. QED
            BY <2>4, <3>2 DEF TransitionRead, NoStageSkipped, Exists
    <2>5. ASSUME NEW h \in Handlers, TransitionWrite(h) PROVE IInv'
        <3> DEFINE t == req[h].trial
                   to == req[h].to
        <3>1. t \in Trials /\ to \in Stages
            BY <2>5 DEF TransitionWrite, TypeOK, Requests, Idle
        <3>2. PICK from \in reached[t] : CanTransition(from, to)
            BY <2>5 DEF TransitionWrite, UpdatesFollow
        <3>3. /\ reached' = [reached EXCEPT ![t] = @ \cup {to}]
              /\ status' = [status EXCEPT ![t] = to]
            BY <2>5 DEF TransitionWrite
        <3>4. \A p \in Transitions : p[2] = to => p[1] = from
            BY <3>2 DEF CanTransition, Transitions
        <3>5. NoStageSkipped'
            BY <3>1, <3>2, <3>3, <3>4 DEF NoStageSkipped, Exists, TypeOK
        <3>6. req'[h].pc # "updateStatus"
              /\ \A g \in Handlers \ {h} : req'[g] = req[g]
            BY <2>5 DEF TransitionWrite, Return, Continue, TypeOK, Idle
        <3>7. \A u \in Trials : reached[u] \subseteq reached'[u]
            BY <3>1, <3>3 DEF TypeOK
        <3>8. \A g \in Handlers : req[g].pc = "updateStatus" => req[g].trial \in Trials
            BY DEF TypeOK, Requests, Idle
        <3>9. UpdatesFollow'
            BY <3>6, <3>7, <3>8 DEF UpdatesFollow
        <3>10. QED
            BY <3>5, <3>9
    <2>6. ASSUME NEW h \in Handlers, UNCHANGED <<status, reached>>,
                 req'[h].pc # "updateStatus",
                 \A g \in Handlers \ {h} : req'[g] = req[g]
          PROVE IInv'
        BY <2>6 DEF NoStageSkipped, UpdatesFollow, Exists
    <2>7. ASSUME NEW h \in Handlers, NEW fp \in Fingerprints, CreateLookup(h, fp)
          PROVE IInv'
        BY <2>6, <2>7 DEF CreateLookup, Continue, TypeOK
    <2>8. ASSUME NEW h \in Handlers, NEW t \in Trials, NEW r \in References,
                 SetReferenceGet(h, t, r)
          PROVE IInv'
        BY <2>6, <2>8 DEF SetReferenceGet, Continue, TypeOK
    <2>9. ASSUME NEW h \in Handlers, NEW t \in Trials, NEW i \in Indexes,
                 AddChannelGet(h, t, i)
          PROVE IInv'
        BY <2>6, <2>9 DEF AddChannelGet, Continue, TypeOK
    <2>10. ASSUME NEW h \in Handlers, SetReferenceCheck(h) PROVE IInv'
        <3> DEFINE next == [req[h] EXCEPT !.pc = "upsertReference"]
        <3>1. next.pc = "upsertReference"
            BY <2>10 DEF SetReferenceCheck, TypeOK, Requests, Idle
        <3>2. req'[h] = Idle \/ req'[h] = next
            BY <2>10 DEF SetReferenceCheck, Return, Continue, TypeOK
        <3>3. req'[h].pc # "updateStatus"
            <4> HIDE DEF next
            <4>1. Idle.pc = "idle"
                BY DEF Idle
            <4>2. QED
                BY <3>1, <3>2, <4>1
        <3>4. \A g \in Handlers \ {h} : req'[g] = req[g]
            BY <2>10 DEF SetReferenceCheck, Return, Continue, TypeOK
        <3>5. QED
            BY <2>6, <2>10, <3>3, <3>4 DEF SetReferenceCheck
    <2>11. ASSUME NEW h \in Handlers, SetReferenceUpsert(h) PROVE IInv'
        BY <2>6, <2>11 DEF SetReferenceUpsert, Return, Continue, Idle, TypeOK
    <2>12. ASSUME NEW h \in Handlers, AddChannelCheck(h) PROVE IInv'
        <3> DEFINE next == [req[h] EXCEPT !.pc = "insertChannel"]
        <3>1. next.pc = "insertChannel"
            BY <2>12 DEF AddChannelCheck, TypeOK, Requests, Idle
        <3>2. req'[h] = Idle \/ req'[h] = next
            BY <2>12 DEF AddChannelCheck, Return, Continue, TypeOK
        <3>3. req'[h].pc # "updateStatus"
            <4> HIDE DEF next
            <4>1. Idle.pc = "idle"
                BY DEF Idle
            <4>2. QED
                BY <3>1, <3>2, <4>1
        <3>4. \A g \in Handlers \ {h} : req'[g] = req[g]
            BY <2>12 DEF AddChannelCheck, Return, Continue, TypeOK
        <3>5. QED
            BY <2>6, <2>12, <3>3, <3>4 DEF AddChannelCheck
    <2>13. ASSUME NEW h \in Handlers, AddChannelInsert(h) PROVE IInv'
        BY <2>6, <2>13 DEF AddChannelInsert, Return, Continue, Idle, TypeOK
    <2>14. QED
        BY <2>1, <2>2, <2>3, <2>4, <2>5, <2>7, <2>8, <2>9, <2>10, <2>11, <2>12,
           <2>13 DEF Next, Arrive, Step
<1>3. IInv => NoStageSkipped
    OBVIOUS
<1>4. QED
    BY <1>1, <1>2, <1>3, TypeCorrect, PTL DEF Spec
-----------------------------------------------------------------------------
(* What needs transitions to come one at a time.                           *)

SingleDriver == \A g, h \in Drivers : g = h

\* With one driver the check a transition made still holds when it updates,
\* and a trial that was sealed when a request came in is sealed now.
SerialInv ==
    \A h \in Handlers :
        /\ req[h].pc = "updateStatus" =>
              /\ h \in Drivers
              /\ CanTransition(status[req[h].trial], req[h].to)
        /\ req[h].pc \in {"checkReference", "checkChannel"} =>
              (req[h].sealedOnEntry => IsSealed(status[req[h].trial]))
        /\ req[h].pc \in {"upsertReference", "insertChannel"} =>
              ~req[h].sealedOnEntry

\* A step that leaves the statuses alone only has to be looked at where it
\* leaves its own handler.
LEMMA SerialElsewhere ==
    ASSUME SerialInv, UNCHANGED status, NEW h \in Handlers,
           \A g \in Handlers \ {h} : req'[g] = req[g],
           req'[h].pc = "updateStatus" =>
              /\ h \in Drivers
              /\ CanTransition(status[req'[h].trial], req'[h].to),
           req'[h].pc \in {"checkReference", "checkChannel"} =>
              (req'[h].sealedOnEntry => IsSealed(status[req'[h].trial])),
           req'[h].pc \in {"upsertReference", "insertChannel"} =>
              ~req'[h].sealedOnEntry
    PROVE  SerialInv'
BY DEF SerialInv

\* A step that changes one status and leaves its handler idle.
LEMMA SerialStatus ==
    ASSUME TypeOK, SerialInv, SingleDriver, NEW h \in Handlers, NEW t \in Trials,
           NEW to \in Stages, ~IsSealed(status[t]),
           status' = [status EXCEPT ![t] = to],
           h \in Drivers \/ status[t] = NoRow,
           req' = [req EXCEPT ![h] = Idle]
    PROVE  SerialInv'
<1> SUFFICES ASSUME NEW g \in Handlers, g # h PROVE
        /\ req[g].pc = "updateStatus" =>
              /\ g \in Drivers
              /\ CanTransition(status'[req[g].trial], req[g].to)
        /\ req[g].pc \in {"checkReference", "checkChannel"} =>
              (req[g].sealedOnEntry => IsSealed(status'[req[g].trial]))
        /\ req[g].pc \in {"upsertReference", "insertChannel"} =>
              ~req[g].sealedOnEntry
    <2>1. req'[h].pc = "idle"
        BY DEF TypeOK, Idle
    <2>2. \A g \in Handlers : g # h => req'[g] = req[g]
        BY DEF TypeOK
    <2>3. QED
        BY <2>1, <2>2 DEF SerialInv
<1>1. \A u \in Trials : u # t => status'[u] = status[u]
    BY DEF TypeOK
<1>2. req[g].pc \in {"updateStatus", "checkReference", "checkChannel"}
          => req[g].trial \in Trials
    BY DEF TypeOK, Requests, Idle
<1>3. req[g].pc = "updateStatus" => g \in Drivers /\ req[g].trial # t
    <2>1. ~CanTransition(NoRow, req[g].to)
        BY DEF CanTransition, Transitions, NoRow
    <2>2. QED
        BY <2>1 DEF SerialInv, SingleDriver
<1>4. req[g].pc \in {"checkReference", "checkChannel"} /\ req[g].sealedOnEntry
          => req[g].trial # t
    BY DEF SerialInv
<1>5. QED
    BY <1>1, <1>2, <1>3, <1>4 DEF SerialInv

LEMMA SerialStep ==
    SingleDriver /\ TypeOK /\ SerialInv /\ [Next]_vars => SerialInv'
<1> SUFFICES ASSUME SingleDriver, TypeOK, SerialInv, [Next]_vars PROVE SerialInv'
    OBVIOUS
<1>1. CASE UNCHANGED vars
    BY <1>1 DEF vars, SerialInv
<1>2. CASE Crash
    BY <1>2 DEF Crash, SerialInv, Idle
<1>3. ASSUME NEW h \in Handlers, Arrive(h) PROVE SerialInv'
    <2>1. ASSUME NEW fp \in Fingerprints, CreateLookup(h, fp) PROVE SerialInv'
        BY <2>1, SerialElsewhere DEF CreateLookup, Continue, TypeOK
    <2>2. ASSUME NEW t \in Trials, NEW to \in Stages, h \in Drivers,
                 TransitionRead(h, t, to)
          PROVE SerialInv'
        BY <2>2, SerialElsewhere DEF TransitionRead, Continue, TypeOK
    <2>3. ASSUME NEW t \in Trials, NEW r \in References, SetReferenceGet(h, t, r)
          PROVE SerialInv'
        BY <2>3, SerialElsewhere DEF SetReferenceGet, Continue, TypeOK
    <2>4. ASSUME NEW t \in Trials, NEW i \in Indexes, AddChannelGet(h, t, i)
          PROVE SerialInv'
        BY <2>4, SerialElsewhere DEF AddChannelGet, Continue, TypeOK
    <2>5. QED
        BY <1>3, <2>1, <2>2, <2>3, <2>4 DEF Arrive
<1>4. ASSUME NEW h \in Handlers, Step(h) PROVE SerialInv'
    <2>1. CASE CreateInsert(h)
        <3>1. CASE UNCHANGED status
            BY <2>1, <3>1, SerialElsewhere DEF CreateInsert, Return, Continue,
                                               Idle, TypeOK
        <3>2. ASSUME NEW t \in Trials, ~Exists(t),
                     status' = [status EXCEPT ![t] = "preparing"]
              PROVE SerialInv'
            <4>1. "preparing" \in Stages /\ ~IsSealed(status[t]) /\ status[t] = NoRow
                BY <3>2 DEF Stages, IsSealed, Exists, NoRow
            <4>2. req' = [req EXCEPT ![h] = Idle]
                BY <2>1 DEF CreateInsert, Return, Continue
            <4>3. QED
                BY <3>2, <4>1, <4>2, SerialStatus
        <3>3. QED
            BY <2>1, <3>1, <3>2 DEF CreateInsert, InitialStage
    <2>2. CASE TransitionWrite(h)
        <3> DEFINE t == req[h].trial
                   to == req[h].to
        <3>1. t \in Trials /\ to \in Stages
            BY <2>2 DEF TransitionWrite, TypeOK, Requests, Idle
        <3>2. h \in Drivers /\ ~IsSealed(status[t])
            BY <2>2 DEF TransitionWrite, SerialInv, CanTransition, Transitions,
                        IsSealed
        <3>3. status' = [status EXCEPT ![t] = to] /\ req' = [req EXCEPT ![h] = Idle]
            BY <2>2 DEF TransitionWrite, Return, Continue
        <3>4. QED
            BY <3>1, <3>2, <3>3, SerialStatus
    <2>3. CASE SetReferenceCheck(h)
        <3> DEFINE next == [req[h] EXCEPT !.pc = "upsertReference"]
        <3>1. /\ next.pc = "upsertReference"
              /\ next.sealedOnEntry = req[h].sealedOnEntry
            BY <2>3 DEF SetReferenceCheck, TypeOK, Requests, Idle
        <3> HIDE DEF next
        <3>2. CASE IsSealed(status[req[h].trial])
            BY <2>3, <3>2, SerialElsewhere DEF SetReferenceCheck, Return,
                                               Continue, Idle, TypeOK
        <3>3. CASE ~IsSealed(status[req[h].trial])
            <4>1. req' = [req EXCEPT ![h] = next] /\ UNCHANGED status
                BY <2>3, <3>3 DEF SetReferenceCheck, Continue, next
            <4>2. req'[h] = next /\ \A g \in Handlers \ {h} : req'[g] = req[g]
                BY <4>1 DEF TypeOK
            <4>3. ~next.sealedOnEntry
                BY <2>3, <3>1, <3>3 DEF SetReferenceCheck, SerialInv
            <4>4. QED
                BY <3>1, <4>1, <4>2, <4>3, SerialElsewhere
        <3>4. QED
            BY <3>2, <3>3
    <2>4. CASE SetReferenceUpsert(h)
        BY <2>4, SerialElsewhere DEF SetReferenceUpsert, Return, Continue, Idle, TypeOK
    <2>5. CASE AddChannelCheck(h)
        <3> DEFINE next == [req[h] EXCEPT !.pc = "insertChannel"]
        <3>1. /\ next.pc = "insertChannel"
              /\ next.sealedOnEntry = req[h].sealedOnEntry
            BY <2>5 DEF AddChannelCheck, TypeOK, Requests, Idle
        <3> HIDE DEF next
        <3>2. CASE IsSealed(status[req[h].trial])
            BY <2>5, <3>2, SerialElsewhere DEF AddChannelCheck, Return,
                                               Continue, Idle, TypeOK
        <3>3. CASE ~IsSealed(status[req[h].trial])
            <4>1. req' = [req EXCEPT ![h] = next] /\ UNCHANGED status
                BY <2>5, <3>3 DEF AddChannelCheck, Continue, next
            <4>2. req'[h] = next /\ \A g \in Handlers \ {h} : req'[g] = req[g]
                BY <4>1 DEF TypeOK
            <4>3. ~next.sealedOnEntry
                BY <2>5, <3>1, <3>3 DEF AddChannelCheck, SerialInv
            <4>4. QED
                BY <3>1, <4>1, <4>2, <4>3, SerialElsewhere
        <3>4. QED
            BY <3>2, <3>3
    <2>6. CASE AddChannelInsert(h)
        BY <2>6, SerialElsewhere DEF AddChannelInsert, Return, Continue, Idle, TypeOK
    <2>7. QED
        BY <1>4, <2>1, <2>2, <2>3, <2>4, <2>5, <2>6 DEF Step
<1>5. QED
    BY <1>1, <1>2, <1>3, <1>4 DEF Next

LEMMA SerialInvariant ==
    ASSUME SingleDriver PROVE Spec => []SerialInv
<1>1. Init => SerialInv
    BY DEF Init, SerialInv, Idle
<1>2. QED
    BY <1>1, SerialStep, TypeCorrect, PTL DEF Spec

\* One transition at a time: SetReference and AddChannel never get past their
\* check of the seal when the trial was sealed before they were called.
THEOREM SealRefuses == ASSUME SingleDriver PROVE Spec => []SealedRefusesWrites
<1>1. SerialInv => SealedRefusesWrites
    BY DEF SerialInv, SealedRefusesWrites
<1>2. QED
    BY <1>1, SerialInvariant, PTL

\* One transition at a time: every step of the service is a step of the
\* abstract lifecycle or leaves the statuses alone.
THEOREM LifecycleRefined == ASSUME SingleDriver PROVE Spec => LifecycleSpec
<1>1. Init => Lifecycle!Init
    BY DEF Init, Lifecycle!Init, NoRow, Lifecycle!NoRow
<1>2. TypeOK /\ SerialInv /\ [Next]_vars => [Lifecycle!Next]_status
    <2> SUFFICES ASSUME TypeOK, SerialInv, [Next]_vars
                 PROVE [Lifecycle!Next]_status
        OBVIOUS
    <2>1. ASSUME NEW h \in Handlers, CreateInsert(h) PROVE [Lifecycle!Next]_status
        BY <2>1 DEF CreateInsert, InitialStage, Exists, Lifecycle!Next,
                    Lifecycle!Register, NoRow, Lifecycle!NoRow
    <2>2. ASSUME NEW h \in Handlers, TransitionWrite(h)
          PROVE [Lifecycle!Next]_status
        <3>1. req[h].trial \in Trials /\ req[h].to \in Stages
            BY <2>2 DEF TransitionWrite, TypeOK, Requests, Idle
        <3>2. CanTransition(status[req[h].trial], req[h].to)
            BY <2>2 DEF TransitionWrite, SerialInv
        <3>3. Lifecycle!Advance(req[h].trial)
            BY <2>2, <3>1, <3>2 DEF TransitionWrite, Lifecycle!Advance,
               CanTransition, Transitions, Stages,
               Lifecycle!CanTransition, Lifecycle!Transitions, Lifecycle!Stages
        <3>4. QED
            BY <3>1, <3>3 DEF Lifecycle!Next
    <2>3. QED
        BY <2>1, <2>2 DEF Next, Arrive, Step, vars, Crash, CreateLookup,
           TransitionRead, SetReferenceGet, SetReferenceCheck,
           SetReferenceUpsert, AddChannelGet, AddChannelCheck, AddChannelInsert
<1>3. QED
    BY <1>1, <1>2, TypeCorrect, SerialInvariant, PTL
       DEF Spec, LifecycleSpec, Lifecycle!Spec
=============================================================================
