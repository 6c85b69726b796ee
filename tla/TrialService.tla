---------------------------- MODULE TrialService ----------------------------
(***************************************************************************)
(* internal/service/trial_service.go over the trials, phase_references and *)
(* channels tables.                                                        *)
(*                                                                         *)
(* net/http runs every request in a goroutine of its own (a handler), no   *)
(* service method opens a transaction, and the pool holds one connection:  *)
(* each SQL statement is atomic and the handlers interleave between        *)
(* statements.  An action below is one statement with the local code that  *)
(* follows it; the first one of a request is also its arrival.  A request  *)
(* that its first statement refuses changes nothing and is no step.  No    *)
(* context reaches the database calls, so a handler runs to its end even   *)
(* when its client has gone.                                               *)
(***************************************************************************)
EXTENDS TrialStates

CONSTANTS
    Trials,        \* trial ids store.NewID can draw
    Fingerprints,  \* SHA-256 of the trimmed code, cable and voltage class
    References,    \* phase references: a positive frequency and a zero time
    Indexes,       \* channel indexes
    Handlers,      \* request goroutines
    Drivers,       \* the handlers that carry start, finish, review and seal
    NoReference,   \* no phase_references row
    NoFingerprint  \* no trials row

ASSUME TrialAssumption ==
    /\ Drivers \subseteq Handlers
    /\ NoReference \notin References
    /\ NoFingerprint \notin Fingerprints

VARIABLES
    status,       \* trials.status, NoRow where there is no row
    fingerprint,  \* trials.fingerprint
    reference,    \* the phase_references row of each trial
    channels,     \* the indexes of the channels rows of each trial
    req,          \* what each handler still has to do
    reached       \* history: every status a trial has had

vars == <<status, fingerprint, reference, channels, req, reached>>

Idle == [pc |-> "idle"]

\* "sealedOnEntry" is history: was the trial sealed when the request came in?
Requests ==
    {Idle}
    \cup [pc : {"insertTrial"}, fp : Fingerprints]
    \cup [pc : {"updateStatus"}, trial : Trials, to : Stages]
    \cup [pc : {"checkReference", "upsertReference"}, trial : Trials,
          ref : References, sealedOnEntry : BOOLEAN]
    \cup [pc : {"checkChannel", "insertChannel"}, trial : Trials,
          index : Indexes, sealedOnEntry : BOOLEAN]

Exists(t) == status[t] # NoRow

FingerprintTaken(fp) == \E t \in Trials : fingerprint[t] = fp

Init ==
    /\ status = [t \in Trials |-> NoRow]
    /\ fingerprint = [t \in Trials |-> NoFingerprint]
    /\ reference = [t \in Trials |-> NoReference]
    /\ channels = [t \in Trials |-> {}]
    /\ req = [h \in Handlers |-> Idle]
    /\ reached = [t \in Trials |-> {}]

Continue(h, r) == req' = [req EXCEPT ![h] = r]
Return(h) == Continue(h, Idle)

-----------------------------------------------------------------------------
(* Create: look the fingerprint up, then insert.  The unique index is what *)
(* decides between two handlers that both found nothing.                   *)

CreateLookup(h, fp) ==
    /\ req[h] = Idle
    /\ ~FingerprintTaken(fp)
    /\ Continue(h, [pc |-> "insertTrial", fp |-> fp])
    /\ UNCHANGED <<status, fingerprint, reference, channels, reached>>

\* The trials table refuses a second row with the same fingerprint.
\* Mutant: the index on fingerprint is not UNIQUE.
InsertTrialAccepted(fp) == FALSE

InsertTrialRefused(fp) == FingerprintTaken(fp)

\* Mutant: the status field is left out of the row, so its zero value goes in.
ZeroStage == ""

InitialStage == "preparing"

CreateInsert(h) ==
    /\ req[h].pc = "insertTrial"
    /\ Return(h)
    /\ \/ /\ InsertTrialRefused(req[h].fp)
          /\ UNCHANGED <<status, fingerprint, reached>>
       \/ /\ ~InsertTrialRefused(req[h].fp)
          /\ \E t \in Trials :
                /\ ~Exists(t)
                /\ status' = [status EXCEPT ![t] = InitialStage]
                /\ fingerprint' = [fingerprint EXCEPT ![t] = req[h].fp]
                /\ reached' = [reached EXCEPT ![t] = @ \cup {InitialStage}]
    /\ UNCHANGED <<reference, channels>>

-----------------------------------------------------------------------------
(* StartAcquisition, FinishAcquisition, Review and Seal are transition()   *)
(* with a target: read the row, check the table, update by id alone.       *)

\* Mutant: transition does not ask CanTransition, only IsSealed.
TransitionReadUnsealed(h, t, to) ==
    /\ req[h] = Idle
    /\ Exists(t)
    /\ ~IsSealed(status[t])
    /\ Continue(h, [pc |-> "updateStatus", trial |-> t, to |-> to])
    /\ UNCHANGED <<status, fingerprint, reference, channels, reached>>

TransitionRead(h, t, to) ==
    /\ req[h] = Idle
    /\ Exists(t)
    /\ CanTransition(status[t], to)
    /\ Continue(h, [pc |-> "updateStatus", trial |-> t, to |-> to])
    /\ UNCHANGED <<status, fingerprint, reference, channels, reached>>

TransitionWrite(h) ==
    LET t == req[h].trial
        to == req[h].to
    IN  /\ req[h].pc = "updateStatus"
        /\ status' = [status EXCEPT ![t] = to]
        /\ reached' = [reached EXCEPT ![t] = @ \cup {to}]
        /\ Return(h)
        /\ UNCHANGED <<fingerprint, reference, channels>>

-----------------------------------------------------------------------------
(* SetReference and AddChannel: the row is read once to know that it is    *)
(* there, a second time for the seal, and only then written to.            *)

SetReferenceGet(h, t, r) ==
    /\ req[h] = Idle
    /\ Exists(t)
    /\ Continue(h, [pc |-> "checkReference", trial |-> t, ref |-> r,
                    sealedOnEntry |-> IsSealed(status[t])])
    /\ UNCHANGED <<status, fingerprint, reference, channels, reached>>

\* Mutant: the seal is not looked at.
SetReferenceUnchecked(h) ==
    /\ req[h].pc = "checkReference"
    /\ Continue(h, [req[h] EXCEPT !.pc = "upsertReference"])
    /\ UNCHANGED <<status, fingerprint, reference, channels, reached>>

SetReferenceCheck(h) ==
    /\ req[h].pc = "checkReference"
    /\ IF IsSealed(status[req[h].trial])
       THEN Return(h)
       ELSE Continue(h, [req[h] EXCEPT !.pc = "upsertReference"])
    /\ UNCHANGED <<status, fingerprint, reference, channels, reached>>

SetReferenceUpsert(h) ==
    /\ req[h].pc = "upsertReference"
    /\ reference' = [reference EXCEPT ![req[h].trial] = req[h].ref]
    /\ Return(h)
    /\ UNCHANGED <<status, fingerprint, channels, reached>>

AddChannelGet(h, t, i) ==
    /\ req[h] = Idle
    /\ Exists(t)
    /\ Continue(h, [pc |-> "checkChannel", trial |-> t, index |-> i,
                    sealedOnEntry |-> IsSealed(status[t])])
    /\ UNCHANGED <<status, fingerprint, reference, channels, reached>>

AddChannelCheck(h) ==
    /\ req[h].pc = "checkChannel"
    /\ IF IsSealed(status[req[h].trial])
       THEN Return(h)
       ELSE Continue(h, [req[h] EXCEPT !.pc = "insertChannel"])
    /\ UNCHANGED <<status, fingerprint, reference, channels, reached>>

\* UNIQUE(trial_id, idx): inserting an index that is there is a conflict.
AddChannelInsert(h) ==
    /\ req[h].pc = "insertChannel"
    /\ channels' = [channels EXCEPT ![req[h].trial] = @ \cup {req[h].index}]
    /\ Return(h)
    /\ UNCHANGED <<status, fingerprint, reference, reached>>

-----------------------------------------------------------------------------
\* The process dies: the handlers are gone, what was committed stays.
Crash ==
    /\ \E h \in Handlers : req[h] # Idle
    /\ req' = [h \in Handlers |-> Idle]
    /\ UNCHANGED <<status, fingerprint, reference, channels, reached>>

\* The next statement of a request that is under way.
Step(h) ==
    \/ CreateInsert(h)
    \/ TransitionWrite(h)
    \/ SetReferenceCheck(h) \/ SetReferenceUpsert(h)
    \/ AddChannelCheck(h) \/ AddChannelInsert(h)

Arrive(h) ==
    \/ \E fp \in Fingerprints : CreateLookup(h, fp)
    \/ \E t \in Trials :
          \/ h \in Drivers /\ \E to \in Stages : TransitionRead(h, t, to)
          \/ \E r \in References : SetReferenceGet(h, t, r)
          \/ \E i \in Indexes : AddChannelGet(h, t, i)

Next == Crash \/ \E h \in Handlers : Arrive(h) \/ Step(h)

Spec == Init /\ [][Next]_vars

-----------------------------------------------------------------------------
(* Properties.                                                             *)

\* Every column and every request has the shape the code gives it.
TypeOK ==
    /\ status \in [Trials -> Stages \cup {NoRow}]
    /\ fingerprint \in [Trials -> Fingerprints \cup {NoFingerprint}]
    /\ reference \in [Trials -> References \cup {NoReference}]
    /\ channels \in [Trials -> SUBSET Indexes]
    /\ req \in [Handlers -> Requests]
    /\ reached \in [Trials -> SUBSET Stages]

\* However many registrations of one trial race between lookup and insert,
\* one trial comes of them (Create, idx_trials_fingerprint).
OneTrialPerFingerprint ==
    \A t, u \in Trials :
        fingerprint[t] = fingerprint[u] /\ fingerprint[t] # NoFingerprint => t = u

\* A trial has a status only after it has had the one before it: stale
\* updates may take a trial back, they never carry it past a stage it has
\* not been through (transition, whose check and update are two statements).
NoStageSkipped ==
    \A t \in Trials :
        /\ Exists(t) => status[t] \in reached[t]
        /\ \A p \in Transitions : p[2] \in reached[t] => p[1] \in reached[t]

\* SetReference and AddChannel refuse a trial that was sealed when they were
\* called: no request reaches its write after it came in to a sealed trial.
SealedRefusesWrites ==
    \A h \in Handlers :
        req[h].pc \in {"upsertReference", "insertChannel"}
            => ~req[h].sealedOnEntry

\* A sealed trial stays sealed (entities.go: "sealed is a one-way end state").
SealedIsFinal ==
    [][\A t \in Trials : IsSealed(status[t]) => IsSealed(status'[t])]_vars

\* The statuses follow the abstract lifecycle: the refinement mapping is the
\* status column itself.
Lifecycle == INSTANCE TrialLifecycle WITH stage <- status
LifecycleSpec == Lifecycle!Spec
=============================================================================
