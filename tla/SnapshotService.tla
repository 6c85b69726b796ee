-------------------------- MODULE SnapshotService --------------------------
(***************************************************************************)
(* internal/service/snapshot_service.go and internal/snapshot/version.go   *)
(* over the snapshots table.  Handlers interleave between SQL statements   *)
(* as in TrialService.  The clusters and interpretations a snapshot        *)
(* freezes are opaque here: each table is one value per trial, which the   *)
(* cluster and diagnosis services may replace at any time.                 *)
(***************************************************************************)
EXTENDS Naturals

CONSTANTS
    Trials,      \* ids of the rows of the trials table
    Snapshots,   \* snapshot ids store.NewID can draw
    Handlers,    \* request goroutines
    Clusterings, \* what a trial's clusters can be
    Findings,    \* what a trial's interpretations can be
    NoSnapshot   \* no snapshots row

VARIABLES
    rows,        \* the snapshots table: id -> row
    clusters,    \* what ListByTrial of clusters returns for a trial
    interps,     \* what ListByTrial of interpretations returns for a trial
    req,         \* what each handler still has to do
    overlapped   \* history: publishing handlers that have met another one

vars == <<rows, clusters, interps, req, overlapped>>

Statuses == {"draft", "published", "superseded"}

\* "stamped" tells whether published_at is set; it is NULL otherwise.
SnapshotRows ==
    [trial : Trials, version : Nat \ {0}, status : Statuses,
     stamped : BOOLEAN, state : Clusterings \X Findings]

Idle == [pc |-> "idle"]

Requests ==
    {Idle}
    \cup [pc : {"listInterps"}, trial : Trials, clusters : Clusterings]
    \cup [pc : {"maxVersion"}, trial : Trials, state : Clusterings \X Findings]
    \cup [pc : {"insertSnapshot"}, trial : Trials, state : Clusterings \X Findings,
          version : Nat \ {0}]
    \cup [pc : {"listOthers"}, snap : Snapshots]
    \cup [pc : {"supersede"}, snap : Snapshots,
          old : SUBSET [snap : Snapshots, stamped : BOOLEAN]]

ASSUME SnapshotAssumption == NoSnapshot \notin SnapshotRows

Stored == {s \in Snapshots : rows[s] # NoSnapshot}

RowsOf(t) == {s \in Stored : rows[s].trial = t}

Versions(t) == {rows[s].version : s \in RowsOf(t)}

PublishedOf(t) == {s \in RowsOf(t) : rows[s].status = "published"}

Init ==
    /\ rows = [s \in Snapshots |-> NoSnapshot]
    /\ clusters \in [Trials -> Clusterings]
    /\ interps \in [Trials -> Findings]
    /\ req = [h \in Handlers |-> Idle]
    /\ overlapped = {}

Continue(h, r) == req' = [req EXCEPT ![h] = r]
Return(h) == Continue(h, Idle)

-----------------------------------------------------------------------------
(* snapshot/version.go.                                                    *)

\* Mutant: the highest version is taken as it is.
NextVersionSame(maxVersion) == maxVersion

NextVersion(maxVersion) == maxVersion + 1

Publishable(status) == status = "draft"

\* Mutant: only drafts are replaced.
ShouldSupersedeDraft(oldStatus) == oldStatus = "draft"

ShouldSupersede(oldStatus) == oldStatus = "published"

-----------------------------------------------------------------------------
(* Create: two lists, the highest version, the insert.                     *)

CreateListClusters(h, t) ==
    /\ req[h] = Idle
    /\ Continue(h, [pc |-> "listInterps", trial |-> t, clusters |-> clusters[t]])
    /\ UNCHANGED <<rows, clusters, interps, overlapped>>

CreateListInterps(h) ==
    LET t == req[h].trial
    IN  /\ req[h].pc = "listInterps"
        /\ Continue(h, [pc |-> "maxVersion", trial |-> t,
                        state |-> <<req[h].clusters, interps[t]>>])
        /\ UNCHANGED <<rows, clusters, interps, overlapped>>

\* SELECT COALESCE(MAX(version), 0)
CreateMaxVersion(h) ==
    LET t == req[h].trial
    IN  /\ req[h].pc = "maxVersion"
        /\ \E max \in Versions(t) \cup {0} :
              /\ \A v \in Versions(t) : v <= max
              /\ Continue(h, [pc |-> "insertSnapshot", trial |-> t,
                              state |-> req[h].state,
                              version |-> NextVersion(max)])
        /\ UNCHANGED <<rows, clusters, interps, overlapped>>

\* Mutant: INSERT OR REPLACE, which overwrites the row that has the version.
InsertSnapshotReplacing(t, row) ==
    LET same == {s \in RowsOf(t) : rows[s].version = row.version}
    IN  IF same = {}
        THEN \E s \in Snapshots \ Stored : rows' = [rows EXCEPT ![s] = row]
        ELSE \E s \in same : rows' = [rows EXCEPT ![s] = row]

\* Mutant: no UNIQUE(trial_id, version).
InsertSnapshotRepeating(t, row) ==
    \E s \in Snapshots \ Stored : rows' = [rows EXCEPT ![s] = row]

\* UNIQUE(trial_id, version) refuses a version that is there.
InsertSnapshot(t, row) ==
    \/ /\ row.version \in Versions(t)
       /\ UNCHANGED rows
    \/ /\ row.version \notin Versions(t)
       /\ \E s \in Snapshots \ Stored : rows' = [rows EXCEPT ![s] = row]

CreateInsert(h) ==
    LET t == req[h].trial
    IN  /\ req[h].pc = "insertSnapshot"
        /\ InsertSnapshot(t, [trial |-> t, version |-> req[h].version,
                              status |-> "draft", stamped |-> FALSE,
                              state |-> req[h].state])
        /\ Return(h)
        /\ UNCHANGED <<clusters, interps, overlapped>>

-----------------------------------------------------------------------------
(* Publish: read the snapshot, list the trial's snapshots, supersede the   *)
(* published ones one by one, then publish.  Every update is by id alone.  *)

UpdateStatus(s, status, stamped) ==
    rows' = [rows EXCEPT ![s] = [@ EXCEPT !.status = status, !.stamped = stamped]]

Publishing(h, t) ==
    /\ req[h].pc \in {"listOthers", "supersede"}
    /\ rows[req[h].snap].trial = t

PublishGet(h, s) ==
    LET met == {g \in Handlers \ {h} : Publishing(g, rows[s].trial)}
    IN  /\ req[h] = Idle
        /\ rows[s] # NoSnapshot
        /\ Publishable(rows[s].status)
        /\ Continue(h, [pc |-> "listOthers", snap |-> s])
        /\ overlapped' = IF met = {} THEN overlapped ELSE overlapped \cup met \cup {h}
        /\ UNCHANGED <<rows, clusters, interps>>

PublishList(h) ==
    LET s == req[h].snap
        old == {o \in RowsOf(rows[s].trial) \ {s} : ShouldSupersede(rows[o].status)}
    IN  /\ req[h].pc = "listOthers"
        /\ Continue(h, [pc |-> "supersede", snap |-> s,
                        old |-> {[snap |-> o, stamped |-> rows[o].stamped] : o \in old}])
        /\ UNCHANGED <<rows, clusters, interps, overlapped>>

\* Mutant: supersede leaves published_at to its zero value, which is NULL.
StampCleared(o) == FALSE

\* supersede writes back the published_at the list returned.
SupersededStamp(o) == o.stamped

\* The list is in descending order of version.
PublishSupersede(h) ==
    /\ req[h].pc = "supersede"
    /\ \E o \in req[h].old :
          /\ \A p \in req[h].old : rows[p.snap].version <= rows[o.snap].version
          /\ UpdateStatus(o.snap, "superseded", SupersededStamp(o))
          /\ Continue(h, [req[h] EXCEPT !.old = @ \ {o}])
    /\ UNCHANGED <<clusters, interps, overlapped>>

PublishCommit(h) ==
    /\ req[h].pc = "supersede"
    /\ req[h].old = {}
    /\ UpdateStatus(req[h].snap, "published", TRUE)
    /\ Return(h)
    /\ overlapped' = overlapped \ {h}
    /\ UNCHANGED <<clusters, interps>>

-----------------------------------------------------------------------------
\* The process dies: the handlers are gone, what was committed stays.
Crash ==
    /\ \E h \in Handlers : req[h] # Idle
    /\ req' = [h \in Handlers |-> Idle]
    /\ overlapped' = {}
    /\ UNCHANGED <<rows, clusters, interps>>

\* The other services write to the tables a snapshot freezes.
Diagnose(t) ==
    /\ \/ /\ clusters' \in {[clusters EXCEPT ![t] = c] : c \in Clusterings}
          /\ UNCHANGED interps
       \/ /\ interps' \in {[interps EXCEPT ![t] = f] : f \in Findings}
          /\ UNCHANGED clusters
    /\ UNCHANGED <<rows, req, overlapped>>

\* The next statement of a request that is under way.
Step(h) ==
    \/ CreateListInterps(h) \/ CreateMaxVersion(h) \/ CreateInsert(h)
    \/ PublishList(h) \/ PublishSupersede(h) \/ PublishCommit(h)

Arrive(h) ==
    \/ \E t \in Trials : CreateListClusters(h, t)
    \/ \E s \in Snapshots : PublishGet(h, s)

Next ==
    \/ Crash
    \/ \E t \in Trials : Diagnose(t)
    \/ \E h \in Handlers : Arrive(h) \/ Step(h)

Spec == Init /\ [][Next]_vars

-----------------------------------------------------------------------------
(* Properties.                                                             *)

\* Rows and requests have the shape the code gives them.
TypeOK ==
    /\ rows \in [Snapshots -> SnapshotRows \cup {NoSnapshot}]
    /\ clusters \in [Trials -> Clusterings]
    /\ interps \in [Trials -> Findings]
    /\ req \in [Handlers -> Requests]
    /\ overlapped \subseteq Handlers

\* The versions of a trial are 1, 2, ... without a gap or a repetition,
\* although the highest version is read in a statement before the insert and
\* a request may die or be refused in between (Create, NextVersion).
VersionsContiguous ==
    \A t \in Trials :
        /\ \A s, u \in RowsOf(t) : rows[s].version = rows[u].version => s = u
        /\ \A v \in Versions(t) : v = 1 \/ v - 1 \in Versions(t)

\* published_at is set exactly on the snapshots that have been published, in
\* whatever order publishers publish and supersede them (UpdateStatus, which
\* writes both columns every time).
StampIffPublished ==
    \A s \in Stored : rows[s].stamped <=> rows[s].status # "draft"

\* What a snapshot froze is never overwritten or deleted, and a snapshot that
\* has been published is never a draft again (SnapshotStore).
FrozenForever ==
    [][\A s \in Stored :
          /\ rows'[s] # NoSnapshot
          /\ rows'[s].trial = rows[s].trial
          /\ rows'[s].version = rows[s].version
          /\ rows'[s].state = rows[s].state
          /\ rows[s].status # "draft" => rows'[s].status # "draft"]_vars

Publishes(h, s, t) == req[h].snap = s /\ rows[s].trial = t

\* A publish that met no other publish of its trial ends with its snapshot
\* as the only published one, whatever races and crashes came before it.
SoloPublishTakesOver ==
    [][\A h \in Handlers, t \in Trials, s \in Snapshots :
          PublishCommit(h) /\ h \notin overlapped /\ Publishes(h, s, t) =>
              PublishedOf(t)' = {s}]_vars

\* "draft -> published, and the old published one becomes superseded": a trial
\* has one published snapshot at most (Publish).
AtMostOnePublished ==
    \A t \in Trials : \A s, u \in PublishedOf(t) : s = u
=============================================================================
