----------------------- MODULE SnapshotServiceProofs -----------------------
(***************************************************************************)
(* SnapshotService for every set of trials, ids, handlers and contents:    *)
(* whatever the interleaving of creates, publishes, crashes and changes of *)
(* the tables that are frozen.                                             *)
(***************************************************************************)
EXTENDS SnapshotService, TLAPS

\* A publish works on rows that are there: rows are never deleted.
HeldRowsStored ==
    \A h \in Handlers :
        /\ req[h].pc \in {"listOthers", "supersede"} => req[h].snap \in Stored
        /\ req[h].pc = "supersede" => \A o \in req[h].old : o.snap \in Stored

Typed == TypeOK /\ HeldRowsStored

\* What UPDATE snapshots SET status, published_at does to the table.
LEMMA UpdatedRows ==
    ASSUME rows \in [Snapshots -> SnapshotRows \cup {NoSnapshot}],
           NEW s \in Stored, NEW status \in Statuses, NEW stamped \in BOOLEAN,
           UpdateStatus(s, status, stamped)
    PROVE  /\ rows' \in [Snapshots -> SnapshotRows \cup {NoSnapshot}]
           /\ Stored' = Stored
           /\ \A u \in Snapshots \ {s} : rows'[u] = rows[u]
           /\ \A u \in Stored : /\ rows'[u].trial = rows[u].trial
                                /\ rows'[u].version = rows[u].version
                                /\ rows'[u].state = rows[u].state
           /\ rows'[s].status = status
           /\ rows'[s].stamped = stamped
<1> DEFINE row == [rows[s] EXCEPT !.status = status, !.stamped = stamped]
<1>1. rows[s] \in SnapshotRows /\ s \in Snapshots
    BY DEF Stored
<1>2. /\ row \in SnapshotRows
      /\ row.trial = rows[s].trial
      /\ row.version = rows[s].version
      /\ row.state = rows[s].state
      /\ row.status = status
      /\ row.stamped = stamped
    BY <1>1 DEF SnapshotRows
<1>3. rows' = [rows EXCEPT ![s] = row]
    BY DEF UpdateStatus
<1> HIDE DEF row
<1>4. rows'[s] = row /\ \A u \in Snapshots \ {s} : rows'[u] = rows[u]
    BY <1>1, <1>3
<1>5. rows' \in [Snapshots -> SnapshotRows \cup {NoSnapshot}]
    BY <1>1, <1>2, <1>3
<1>6. Stored' = Stored
    <2>1. rows'[s] # NoSnapshot /\ rows[s] # NoSnapshot
        BY <1>1, <1>2, <1>4, SnapshotAssumption
    <2>2. QED
        BY <1>1, <1>4, <2>1 DEF Stored
<1>7. \A u \in Stored : /\ rows'[u].trial = rows[u].trial
                        /\ rows'[u].version = rows[u].version
                        /\ rows'[u].state = rows[u].state
    BY <1>2, <1>4 DEF Stored
<1>8. QED
    BY <1>2, <1>4, <1>5, <1>6, <1>7

\* What INSERT INTO snapshots does to the table when it is not refused.
LEMMA InsertedRows ==
    ASSUME rows \in [Snapshots -> SnapshotRows \cup {NoSnapshot}],
           NEW row \in SnapshotRows, NEW s \in Snapshots \ Stored,
           rows' = [rows EXCEPT ![s] = row]
    PROVE  /\ rows' \in [Snapshots -> SnapshotRows \cup {NoSnapshot}]
           /\ Stored' = Stored \cup {s}
           /\ rows'[s] = row
           /\ \A u \in Snapshots \ {s} : rows'[u] = rows[u]
BY SnapshotAssumption DEF Stored

\* Every handler but the one that steps keeps its request.
Others(h) == \A g \in Handlers \ {h} : req'[g] = req[g]

LEMMA ContinueOthers ==
    ASSUME req \in [Handlers -> Requests], NEW h \in Handlers, NEW r,
           Continue(h, r)
    PROVE  req'[h] = r /\ Others(h)
BY DEF Continue, Others

LEMMA RequestTypes ==
    ASSUME TypeOK, NEW h \in Handlers
    PROVE  /\ req[h].pc \in {"listInterps", "maxVersion", "insertSnapshot"}
                 => req[h].trial \in Trials
           /\ req[h].pc = "listInterps" => req[h].clusters \in Clusterings
           /\ req[h].pc \in {"maxVersion", "insertSnapshot"}
                 => req[h].state \in Clusterings \X Findings
           /\ req[h].pc = "insertSnapshot" => req[h].version \in Nat \ {0}
           /\ req[h].pc \in {"listOthers", "supersede"} => req[h].snap \in Snapshots
           /\ req[h].pc = "supersede" =>
                 req[h].old \in SUBSET [snap : Snapshots, stamped : BOOLEAN]
<1>1. req[h] \in Requests
    BY DEF TypeOK
<1>2. QED
    BY <1>1 DEF Requests, Idle

-----------------------------------------------------------------------------
(* What each action does, in the terms the invariants are stated in.       *)

LEMMA InsertEffect ==
    ASSUME TypeOK, NEW h \in Handlers, CreateInsert(h)
    PROVE  /\ req'[h] = Idle /\ Others(h)
           /\ \/ UNCHANGED rows
              \/ \E s \in Snapshots \ Stored :
                    /\ req[h].version \notin Versions(req[h].trial)
                    /\ rows' \in [Snapshots -> SnapshotRows \cup {NoSnapshot}]
                    /\ Stored' = Stored \cup {s}
                    /\ rows'[s] = [trial |-> req[h].trial, version |-> req[h].version,
                                   status |-> "draft", stamped |-> FALSE,
                                   state |-> req[h].state]
                    /\ \A u \in Snapshots \ {s} : rows'[u] = rows[u]
<1> DEFINE row == [trial |-> req[h].trial, version |-> req[h].version,
                   status |-> "draft", stamped |-> FALSE, state |-> req[h].state]
<1>1. row \in SnapshotRows
    <2>1. /\ req[h].trial \in Trials
          /\ req[h].version \in Nat \ {0}
          /\ req[h].state \in Clusterings \X Findings
        BY RequestTypes DEF CreateInsert
    <2>2. QED
        BY <2>1 DEF SnapshotRows, Statuses
<1>2. row.version = req[h].version
    OBVIOUS
<1>3. InsertSnapshot(req[h].trial, row)
    BY DEF CreateInsert
<1>4. rows \in [Snapshots -> SnapshotRows \cup {NoSnapshot}]
    BY DEF TypeOK
<1>5. req'[h] = Idle /\ Others(h)
    BY ContinueOthers DEF CreateInsert, Return, TypeOK
<1> HIDE DEF row
<1>6. ASSUME NEW s \in Snapshots \ Stored, rows' = [rows EXCEPT ![s] = row]
      PROVE  /\ rows' \in [Snapshots -> SnapshotRows \cup {NoSnapshot}]
             /\ Stored' = Stored \cup {s}
             /\ rows'[s] = row
             /\ \A u \in Snapshots \ {s} : rows'[u] = rows[u]
    BY <1>1, <1>4, <1>6, InsertedRows
<1>7. \/ UNCHANGED rows
      \/ \E s \in Snapshots \ Stored :
            /\ req[h].version \notin Versions(req[h].trial)
            /\ rows' \in [Snapshots -> SnapshotRows \cup {NoSnapshot}]
            /\ Stored' = Stored \cup {s}
            /\ rows'[s] = row
            /\ \A u \in Snapshots \ {s} : rows'[u] = rows[u]
    BY <1>2, <1>3, <1>6 DEF InsertSnapshot
<1>8. QED
    BY <1>5, <1>7 DEF row

LEMMA SupersedeEffect ==
    ASSUME Typed, NEW h \in Handlers, PublishSupersede(h)
    PROVE  \E o \in req[h].old :
              /\ o \in [snap : Snapshots, stamped : BOOLEAN]
              /\ o.snap \in Stored
              /\ rows' \in [Snapshots -> SnapshotRows \cup {NoSnapshot}]
              /\ Stored' = Stored
              /\ \A u \in Snapshots \ {o.snap} : rows'[u] = rows[u]
              /\ \A u \in Stored : /\ rows'[u].trial = rows[u].trial
                                   /\ rows'[u].version = rows[u].version
                                   /\ rows'[u].state = rows[u].state
              /\ rows'[o.snap].status = "superseded"
              /\ rows'[o.snap].stamped = o.stamped
              /\ req'[h].pc = "supersede"
              /\ req'[h].snap = req[h].snap
              /\ req'[h].old = req[h].old \ {o}
              /\ Others(h)
<1>1. req[h].pc = "supersede"
    BY DEF PublishSupersede
<1>2. PICK o \in req[h].old :
          /\ UpdateStatus(o.snap, "superseded", SupersededStamp(o))
          /\ Continue(h, [req[h] EXCEPT !.old = @ \ {o}])
    BY DEF PublishSupersede
<1> DEFINE next == [req[h] EXCEPT !.old = @ \ {o}]
<1>3. /\ o \in [snap : Snapshots, stamped : BOOLEAN]
      /\ o.snap \in Stored
      /\ o.stamped \in BOOLEAN
    BY <1>1, <1>2, RequestTypes DEF Typed, HeldRowsStored
<1>4. /\ next.pc = "supersede"
      /\ next.snap = req[h].snap
      /\ next.old = req[h].old \ {o}
    <2>1. req[h] \in [pc : {"supersede"}, snap : Snapshots,
                      old : SUBSET [snap : Snapshots, stamped : BOOLEAN]]
        BY <1>1 DEF Typed, TypeOK, Requests, Idle
    <2>2. QED
        BY <2>1
<1> HIDE DEF next
<1>5. req'[h] = next /\ Others(h)
    BY <1>2, ContinueOthers DEF Typed, TypeOK, next
<1>6. rows \in [Snapshots -> SnapshotRows \cup {NoSnapshot}] /\ "superseded" \in Statuses
    BY DEF Typed, TypeOK, Statuses
<1>7. UpdateStatus(o.snap, "superseded", o.stamped)
    BY <1>2 DEF SupersededStamp
<1>8. /\ rows' \in [Snapshots -> SnapshotRows \cup {NoSnapshot}]
      /\ Stored' = Stored
      /\ \A u \in Snapshots \ {o.snap} : rows'[u] = rows[u]
      /\ \A u \in Stored : /\ rows'[u].trial = rows[u].trial
                           /\ rows'[u].version = rows[u].version
                           /\ rows'[u].state = rows[u].state
      /\ rows'[o.snap].status = "superseded"
      /\ rows'[o.snap].stamped = o.stamped
    BY <1>3, <1>6, <1>7, UpdatedRows
<1>9. QED
    BY <1>2, <1>3, <1>4, <1>5, <1>8

LEMMA CommitEffect ==
    ASSUME Typed, NEW h \in Handlers, PublishCommit(h)
    PROVE  /\ req[h].snap \in Stored
           /\ rows' \in [Snapshots -> SnapshotRows \cup {NoSnapshot}]
           /\ Stored' = Stored
           /\ \A u \in Snapshots \ {req[h].snap} : rows'[u] = rows[u]
           /\ \A u \in Stored : /\ rows'[u].trial = rows[u].trial
                                /\ rows'[u].version = rows[u].version
                                /\ rows'[u].state = rows[u].state
           /\ rows'[req[h].snap].status = "published"
           /\ rows'[req[h].snap].stamped = TRUE
           /\ req'[h] = Idle
           /\ Others(h)
<1>1. req[h].snap \in Stored
    BY DEF PublishCommit, Typed, HeldRowsStored
<1>2. rows \in [Snapshots -> SnapshotRows \cup {NoSnapshot}] /\ "published" \in Statuses
    BY DEF Typed, TypeOK, Statuses
<1>3. req'[h] = Idle /\ Others(h)
    BY ContinueOthers DEF PublishCommit, Return, Typed, TypeOK
<1>4. QED
    BY <1>1, <1>2, <1>3, UpdatedRows DEF PublishCommit

\* A handler that lists what to supersede.
LEMMA ListEffect ==
    ASSUME Typed, NEW h \in Handlers, PublishList(h)
    PROVE  /\ req[h].snap \in Stored
           /\ req'[h].pc = "supersede"
           /\ req'[h].snap = req[h].snap
           /\ req'[h].old =
                 {[snap |-> o, stamped |-> rows[o].stamped] :
                     o \in {u \in RowsOf(rows[req[h].snap].trial) \ {req[h].snap} :
                               ShouldSupersede(rows[u].status)}}
           /\ req'[h] \in Requests
           /\ Others(h)
<1> DEFINE s == req[h].snap
           old == {[snap |-> o, stamped |-> rows[o].stamped] :
                      o \in {u \in RowsOf(rows[s].trial) \ {s} :
                                ShouldSupersede(rows[u].status)}}
<1>1. s \in Stored
    BY DEF PublishList, Typed, HeldRowsStored
<1>2. \A u \in Stored : rows[u] \in SnapshotRows
    BY DEF Stored, Typed, TypeOK
<1>3. old \subseteq [snap : Snapshots, stamped : BOOLEAN]
    BY <1>2 DEF RowsOf, Stored, SnapshotRows
<1>4. Continue(h, [pc |-> "supersede", snap |-> s, old |-> old])
    BY DEF PublishList
<1> HIDE DEF old
<1>5. [pc |-> "supersede", snap |-> s, old |-> old] \in Requests
    BY <1>1, <1>3 DEF Requests, Stored
<1>6. req'[h] = [pc |-> "supersede", snap |-> s, old |-> old] /\ Others(h)
    BY <1>4, ContinueOthers DEF Typed, TypeOK
<1>7. QED
    BY <1>1, <1>5, <1>6 DEF old

-----------------------------------------------------------------------------
(* Types.                                                                  *)

\* A step that keeps every stored row and gives its handler a request that
\* works on stored rows.
LEMMA TypedByHandler ==
    ASSUME Typed, NEW h \in Handlers, Others(h),
           rows' \in [Snapshots -> SnapshotRows \cup {NoSnapshot}],
           Stored \subseteq Stored',
           UNCHANGED <<clusters, interps>>,
           overlapped' \subseteq Handlers,
           req' = [req EXCEPT ![h] = req'[h]],
           req'[h] \in Requests,
           req'[h].pc \in {"listOthers", "supersede"} => req'[h].snap \in Stored,
           req'[h].pc = "supersede" => \A o \in req'[h].old : o.snap \in Stored
    PROVE  Typed'
<1>1. req' \in [Handlers -> Requests]
    BY DEF Typed, TypeOK
<1>2. TypeOK'
    BY <1>1 DEF Typed, TypeOK
<1>3. ASSUME NEW g \in Handlers \ {h}
      PROVE  /\ req'[g].pc \in {"listOthers", "supersede"} => req'[g].snap \in Stored'
             /\ req'[g].pc = "supersede" => \A o \in req'[g].old : o.snap \in Stored'
    <2>1. req'[g] = req[g]
        BY DEF Others
    <2>2. QED
        BY <2>1 DEF Typed, HeldRowsStored
<1>4. HeldRowsStored'
    BY <1>3 DEF HeldRowsStored
<1>5. QED
    BY <1>2, <1>4 DEF Typed

LEMMA TypedDiagnose ==
    ASSUME Typed, NEW t \in Trials, Diagnose(t) PROVE Typed'
<1>1. clusters' \in [Trials -> Clusterings] /\ interps' \in [Trials -> Findings]
    BY DEF Typed, TypeOK, Diagnose
<1>2. UNCHANGED <<rows, req, overlapped>>
    BY DEF Diagnose
<1>3. TypeOK'
    BY <1>1, <1>2 DEF Typed, TypeOK
<1>4. HeldRowsStored'
    BY <1>2 DEF Typed, HeldRowsStored, Stored
<1>5. QED
    BY <1>3, <1>4 DEF Typed

LEMMA TypedArrive ==
    ASSUME Typed, NEW h \in Handlers, Arrive(h) PROVE Typed'
<1>1. ASSUME NEW t \in Trials, CreateListClusters(h, t) PROVE Typed'
    <2> DEFINE r == [pc |-> "listInterps", trial |-> t, clusters |-> clusters[t]]
    <2>1. r \in Requests /\ r.pc = "listInterps"
        BY DEF Typed, TypeOK, Requests
    <2>2. Continue(h, r) /\ UNCHANGED <<rows, clusters, interps, overlapped>>
        BY <1>1 DEF CreateListClusters
    <2> HIDE DEF r
    <2>3. req'[h] = r /\ Others(h)
        BY <2>2, ContinueOthers DEF Typed, TypeOK
    <2>4. Stored' = Stored
        BY <2>2 DEF Stored
    <2>5. QED
        BY <2>1, <2>2, <2>3, <2>4, TypedByHandler DEF Typed, TypeOK, Continue
<1>2. ASSUME NEW s \in Snapshots, PublishGet(h, s) PROVE Typed'
    <2> DEFINE r == [pc |-> "listOthers", snap |-> s]
    <2>1. r \in Requests /\ r.pc = "listOthers" /\ r.snap = s /\ s \in Stored
        BY <1>2 DEF Requests, PublishGet, Stored
    <2>2. Continue(h, r) /\ UNCHANGED <<rows, clusters, interps>>
        BY <1>2 DEF PublishGet
    <2>3. overlapped' \subseteq Handlers
        BY <1>2 DEF PublishGet, Typed, TypeOK
    <2> HIDE DEF r
    <2>4. req'[h] = r /\ Others(h)
        BY <2>2, ContinueOthers DEF Typed, TypeOK
    <2>5. Stored' = Stored
        BY <2>2 DEF Stored
    <2>6. QED
        BY <2>1, <2>2, <2>3, <2>4, <2>5, TypedByHandler DEF Typed, TypeOK, Continue
<1>3. QED
    BY <1>1, <1>2 DEF Arrive

LEMMA TypedStep ==
    ASSUME Typed, NEW h \in Handlers, Step(h) PROVE Typed'
<1> DEFINE t == req[h].trial
<1>1. CASE CreateListInterps(h)
    <2> DEFINE r == [pc |-> "maxVersion", trial |-> t,
                     state |-> <<req[h].clusters, interps[t]>>]
    <2>1. t \in Trials /\ req[h].clusters \in Clusterings
        BY <1>1, RequestTypes DEF CreateListInterps, Typed
    <2>2. r \in Requests /\ r.pc = "maxVersion"
        BY <2>1 DEF Requests, Typed, TypeOK
    <2>3. Continue(h, r) /\ UNCHANGED <<rows, clusters, interps, overlapped>>
        BY <1>1 DEF CreateListInterps
    <2> HIDE DEF r
    <2>4. req'[h] = r /\ Others(h)
        BY <2>3, ContinueOthers DEF Typed, TypeOK
    <2>5. Stored' = Stored
        BY <2>3 DEF Stored
    <2>6. QED
        BY <2>2, <2>3, <2>4, <2>5, TypedByHandler DEF Typed, TypeOK, Continue
<1>2. CASE CreateMaxVersion(h)
    <2>1. PICK max \in Versions(t) \cup {0} :
              Continue(h, [pc |-> "insertSnapshot", trial |-> t, state |-> req[h].state,
                           version |-> NextVersion(max)])
        BY <1>2 DEF CreateMaxVersion
    <2> DEFINE r == [pc |-> "insertSnapshot", trial |-> t, state |-> req[h].state,
                     version |-> NextVersion(max)]
    <2>2. NextVersion(max) \in Nat \ {0}
        BY DEF NextVersion, Versions, RowsOf, Stored, Typed, TypeOK, SnapshotRows
    <2>3. t \in Trials /\ req[h].state \in Clusterings \X Findings
        BY <1>2, RequestTypes DEF CreateMaxVersion, Typed
    <2>4. r \in Requests /\ r.pc = "insertSnapshot"
        BY <2>2, <2>3 DEF Requests
    <2>5. Continue(h, r) /\ UNCHANGED <<rows, clusters, interps, overlapped>>
        BY <1>2, <2>1 DEF CreateMaxVersion
    <2> HIDE DEF r
    <2>6. req'[h] = r /\ Others(h)
        BY <2>5, ContinueOthers DEF Typed, TypeOK
    <2>7. Stored' = Stored
        BY <2>5 DEF Stored
    <2>8. QED
        BY <2>4, <2>5, <2>6, <2>7, TypedByHandler DEF Typed, TypeOK, Continue
<1>3. CASE CreateInsert(h)
    <2>1. req'[h] = Idle /\ Idle \in Requests /\ Idle.pc = "idle" /\ Others(h)
        BY <1>3, InsertEffect DEF Typed, Requests, Idle
    <2>2. /\ rows' \in [Snapshots -> SnapshotRows \cup {NoSnapshot}]
          /\ Stored \subseteq Stored'
        <3>1. CASE UNCHANGED rows
            BY <3>1 DEF Stored, Typed, TypeOK
        <3>2. QED
            BY <1>3, <3>1, InsertEffect DEF Typed
    <2>3. QED
        BY <1>3, <2>1, <2>2, TypedByHandler
           DEF CreateInsert, Return, Continue, Typed, TypeOK
<1>4. CASE PublishList(h)
    <2>1. \A o \in req'[h].old : o.snap \in Stored
        BY <1>4, ListEffect DEF RowsOf
    <2>2. UNCHANGED <<rows, clusters, interps, overlapped>> /\ Stored' = Stored
        BY <1>4 DEF PublishList, Stored
    <2>3. req' = [req EXCEPT ![h] = req'[h]]
        BY <1>4, ListEffect DEF PublishList, Continue, Typed, TypeOK
    <2>4. QED
        BY <1>4, <2>1, <2>2, <2>3, ListEffect, TypedByHandler DEF Typed, TypeOK
<1>5. CASE PublishSupersede(h)
    <2>1. PICK o \in req[h].old :
              /\ rows' \in [Snapshots -> SnapshotRows \cup {NoSnapshot}]
              /\ Stored' = Stored
              /\ req'[h].pc = "supersede"
              /\ req'[h].snap = req[h].snap
              /\ req'[h].old = req[h].old \ {o}
              /\ Others(h)
        BY <1>5, SupersedeEffect
    <2>2. req'[h] \in Requests
        <3>1. PICK p \in req[h].old : req' = [req EXCEPT ![h] = [req[h] EXCEPT !.old = @ \ {p}]]
            BY <1>5 DEF PublishSupersede, Continue
        <3>2. req[h] \in [pc : {"supersede"}, snap : Snapshots,
                          old : SUBSET [snap : Snapshots, stamped : BOOLEAN]]
            BY <1>5 DEF PublishSupersede, Typed, TypeOK, Requests, Idle
        <3>3. [req[h] EXCEPT !.old = @ \ {p}]
                  \in [pc : {"supersede"}, snap : Snapshots,
                       old : SUBSET [snap : Snapshots, stamped : BOOLEAN]]
            BY <3>2
        <3>4. req'[h] = [req[h] EXCEPT !.old = @ \ {p}]
            BY <3>1 DEF Typed, TypeOK
        <3>5. QED
            BY <3>3, <3>4 DEF Requests
    <2>3. req' = [req EXCEPT ![h] = req'[h]]
        BY <1>5 DEF PublishSupersede, Continue, Typed, TypeOK
    <2>4. req[h].snap \in Stored /\ \A p \in req'[h].old : p.snap \in Stored
        BY <1>5, <2>1 DEF PublishSupersede, Typed, HeldRowsStored
    <2>5. UNCHANGED <<clusters, interps, overlapped>>
        BY <1>5 DEF PublishSupersede
    <2>6. QED
        BY <2>1, <2>2, <2>3, <2>4, <2>5, TypedByHandler DEF Typed, TypeOK
<1>6. CASE PublishCommit(h)
    <2>1. /\ rows' \in [Snapshots -> SnapshotRows \cup {NoSnapshot}]
          /\ Stored' = Stored
          /\ req'[h] = Idle
          /\ Others(h)
        BY <1>6, CommitEffect
    <2>2. Idle \in Requests /\ Idle.pc = "idle"
        BY DEF Requests, Idle
    <2>3. /\ overlapped' \subseteq Handlers
          /\ UNCHANGED <<clusters, interps>>
          /\ req' = [req EXCEPT ![h] = Idle]
        BY <1>6 DEF PublishCommit, Return, Continue, Typed, TypeOK
    <2>4. QED
        BY <2>1, <2>2, <2>3, TypedByHandler
<1>7. QED
    BY <1>1, <1>2, <1>3, <1>4, <1>5, <1>6 DEF Step

LEMMA TypedNext == Typed /\ [Next]_vars => Typed'
<1> SUFFICES ASSUME Typed, [Next]_vars PROVE Typed'
    OBVIOUS
<1>1. CASE UNCHANGED vars
    BY <1>1 DEF vars, Typed, TypeOK, HeldRowsStored, Stored
<1>2. CASE Crash
    BY <1>2 DEF Crash, Typed, TypeOK, HeldRowsStored, Requests, Idle
<1>3. QED
    BY <1>1, <1>2, TypedDiagnose, TypedArrive, TypedStep DEF Next

\* Snapshot rows and requests keep their shape, and publishers hold ids of
\* rows that are there (snapshot_service.go).
THEOREM TypeCorrect == Spec => [](TypeOK /\ HeldRowsStored)
<1>1. Init => Typed
    BY DEF Init, Typed, TypeOK, HeldRowsStored, Requests, Idle
<1>2. QED
    BY <1>1, TypedNext, PTL DEF Spec, Typed

\* How a handler comes to its next request: the first three kinds carry
\* nothing an invariant below speaks of.
LEMMA RequestMoves ==
    ASSUME Typed, [Next]_vars, NEW h \in Handlers
    PROVE  \/ req'[h] = req[h]
           \/ req'[h].pc \in {"idle", "listInterps", "maxVersion"}
           \/ \E s \in Snapshots : PublishGet(h, s) /\ req'[h].pc = "listOthers"
           \/ CreateMaxVersion(h) /\ req'[h].pc = "insertSnapshot"
           \/ PublishList(h) /\ req'[h].pc = "supersede"
           \/ PublishSupersede(h) /\ req'[h].pc = "supersede"
<1> DEFINE Plain == {"idle", "listInterps", "maxVersion"}
<1> SUFFICES ASSUME req'[h] # req[h], req'[h].pc \notin Plain,
                    \A s \in Snapshots : ~PublishGet(h, s),
                    ~CreateMaxVersion(h), ~PublishList(h), ~PublishSupersede(h)
             PROVE  FALSE
    <2>1. ASSUME CreateMaxVersion(h) PROVE req'[h].pc = "insertSnapshot"
        <3>1. PICK max \in Versions(req[h].trial) \cup {0} :
                  Continue(h, [pc |-> "insertSnapshot", trial |-> req[h].trial,
                               state |-> req[h].state, version |-> NextVersion(max)])
            BY <2>1 DEF CreateMaxVersion
        <3>2. QED
            BY <3>1 DEF Continue, Typed, TypeOK
    <2>2. ASSUME NEW s \in Snapshots, PublishGet(h, s) PROVE req'[h].pc = "listOthers"
        BY <2>2 DEF PublishGet, Continue, Typed, TypeOK
    <2>3. QED
        BY <2>1, <2>2, ListEffect, SupersedeEffect
<1>1. CASE UNCHANGED vars
    BY <1>1 DEF vars
<1>2. CASE Crash
    BY <1>2 DEF Crash, Idle
<1>3. ASSUME NEW t \in Trials, Diagnose(t) PROVE FALSE
    BY <1>3 DEF Diagnose
<1>4. ASSUME NEW g \in Handlers, NEW r, r.pc \in Plain, Continue(g, r) PROVE FALSE
    <2>1. req'[g] = r /\ Others(g)
        BY <1>4, ContinueOthers DEF Typed, TypeOK
    <2>2. QED
        BY <1>4, <2>1 DEF Others
<1>5. ASSUME NEW g \in Handlers, NEW t \in Trials, CreateListClusters(g, t) PROVE FALSE
    <2> DEFINE r == [pc |-> "listInterps", trial |-> t, clusters |-> clusters[t]]
    <2>1. r.pc = "listInterps" /\ Continue(g, r)
        BY <1>5 DEF CreateListClusters
    <2> HIDE DEF r
    <2>2. QED
        BY <1>4, <2>1
<1>6. ASSUME NEW g \in Handlers, NEW s \in Snapshots, PublishGet(g, s) PROVE FALSE
    BY <1>6, ContinueOthers DEF PublishGet, Others, Typed, TypeOK
<1>7. ASSUME NEW g \in Handlers, CreateListInterps(g) PROVE FALSE
    <2> DEFINE r == [pc |-> "maxVersion", trial |-> req[g].trial,
                     state |-> <<req[g].clusters, interps[req[g].trial]>>]
    <2>1. r.pc = "maxVersion" /\ Continue(g, r)
        BY <1>7 DEF CreateListInterps
    <2> HIDE DEF r
    <2>2. QED
        BY <1>4, <2>1
<1>8. ASSUME NEW g \in Handlers, CreateMaxVersion(g) PROVE FALSE
    BY <1>8, ContinueOthers DEF CreateMaxVersion, Others, Typed, TypeOK
<1>9. ASSUME NEW g \in Handlers, CreateInsert(g) \/ PublishCommit(g) PROVE FALSE
    <2>1. Idle.pc = "idle" /\ Continue(g, Idle)
        BY <1>9 DEF CreateInsert, PublishCommit, Return, Idle
    <2>2. QED
        BY <1>4, <2>1
<1>10. ASSUME NEW g \in Handlers, PublishList(g) \/ PublishSupersede(g) PROVE FALSE
    <2>1. Others(g)
        BY <1>10, ListEffect, SupersedeEffect
    <2>2. QED
        BY <1>10, <2>1 DEF Others
<1>11. QED
    BY <1>1, <1>2, <1>3, <1>5, <1>6, <1>7, <1>8, <1>9, <1>10 DEF Next, Arrive, Step

-----------------------------------------------------------------------------
(* Frozen rows.                                                            *)

LEMMA RowWriters ==
    ASSUME [Next]_vars
    PROVE  \/ UNCHANGED rows
           \/ \E h \in Handlers : CreateInsert(h) \/ PublishSupersede(h) \/ PublishCommit(h)
BY DEF Next, Arrive, Step, vars, Crash, Diagnose, CreateListClusters,
       CreateListInterps, CreateMaxVersion, PublishGet, PublishList

LEMMA RowsKept ==
    ASSUME Typed, [Next]_vars, NEW s \in Stored
    PROVE  /\ s \in Stored'
           /\ rows'[s].trial = rows[s].trial
           /\ rows'[s].version = rows[s].version
           /\ rows'[s].state = rows[s].state
           /\ rows[s].status # "draft" => rows'[s].status # "draft"
<1>1. CASE UNCHANGED rows
    BY <1>1 DEF Stored
<1>2. ASSUME NEW h \in Handlers, CreateInsert(h)
      PROVE  s \in Stored' /\ rows'[s] = rows[s]
    <2>1. CASE UNCHANGED rows
        BY <2>1 DEF Stored
    <2>2. QED
        BY <1>2, <2>1, InsertEffect DEF Typed, Stored
<1>3. ASSUME NEW h \in Handlers, PublishSupersede(h)
      PROVE  /\ s \in Stored'
             /\ rows'[s].trial = rows[s].trial
             /\ rows'[s].version = rows[s].version
             /\ rows'[s].state = rows[s].state
             /\ rows[s].status # "draft" => rows'[s].status # "draft"
    <2>1. PICK o \in req[h].old :
              /\ Stored' = Stored
              /\ \A u \in Snapshots \ {o.snap} : rows'[u] = rows[u]
              /\ \A u \in Stored : /\ rows'[u].trial = rows[u].trial
                                   /\ rows'[u].version = rows[u].version
                                   /\ rows'[u].state = rows[u].state
              /\ rows'[o.snap].status = "superseded"
        BY <1>3, SupersedeEffect
    <2>2. QED
        BY <2>1 DEF Stored
<1>4. ASSUME NEW h \in Handlers, PublishCommit(h)
      PROVE  /\ s \in Stored'
             /\ rows'[s].trial = rows[s].trial
             /\ rows'[s].version = rows[s].version
             /\ rows'[s].state = rows[s].state
             /\ rows[s].status # "draft" => rows'[s].status # "draft"
    BY <1>4, CommitEffect DEF Stored
<1>5. QED
    BY <1>1, <1>2, <1>3, <1>4, RowWriters

\* What a snapshot froze is never overwritten nor deleted, by no interleaving
\* of creates and publishes (SnapshotStore).
THEOREM SnapshotsFrozen == Spec => FrozenForever
<1>1. Typed /\ [Next]_vars =>
          [\A s \in Stored :
              /\ rows'[s] # NoSnapshot
              /\ rows'[s].trial = rows[s].trial
              /\ rows'[s].version = rows[s].version
              /\ rows'[s].state = rows[s].state
              /\ rows[s].status # "draft" => rows'[s].status # "draft"]_vars
    BY RowsKept DEF Stored
<1>2. QED
    BY <1>1, TypeCorrect, PTL DEF Spec, Typed, FrozenForever

-----------------------------------------------------------------------------
(* Versions.                                                               *)

\* The version a request is about to insert is 1 or follows one that is there:
\* it was computed from the highest version, and versions never go away.
PendingVersion(h) ==
    req[h].pc = "insertSnapshot" =>
        \/ req[h].version = 1
        \/ req[h].version - 1 \in Versions(req[h].trial)

PendingVersions == \A h \in Handlers : PendingVersion(h)

LEMMA VersionsGrow ==
    ASSUME Typed, [Next]_vars, NEW t \in Trials
    PROVE  Versions(t) \subseteq Versions(t)'
BY RowsKept DEF Versions, RowsOf, Stored

LEMMA PendingStep ==
    ASSUME Typed, PendingVersions, [Next]_vars PROVE PendingVersions'
<1> SUFFICES ASSUME NEW h \in Handlers, req'[h].pc = "insertSnapshot"
             PROVE  PendingVersion(h)'
    BY DEF PendingVersions, PendingVersion
<1>1. CASE req'[h] = req[h]
    <2>1. PICK t \in Trials : t = req[h].trial
        BY <1>1, RequestTypes DEF Typed
    <2>2. Versions(t) \subseteq Versions(t)'
        BY VersionsGrow
    <2>3. req[h].version = 1 \/ req[h].version - 1 \in Versions(t)
        BY <1>1, <2>1 DEF PendingVersions, PendingVersion
    <2>4. QED
        BY <1>1, <2>1, <2>2, <2>3 DEF PendingVersion, Versions, RowsOf, Stored
<1>2. CASE CreateMaxVersion(h)
    <2>1. PICK t \in Trials : t = req[h].trial
        BY <1>2, RequestTypes DEF CreateMaxVersion, Typed
    <2>2. PICK max \in Versions(t) \cup {0} :
              Continue(h, [pc |-> "insertSnapshot", trial |-> t,
                           state |-> req[h].state, version |-> NextVersion(max)])
        BY <1>2, <2>1 DEF CreateMaxVersion
    <2>3. req'[h] = [pc |-> "insertSnapshot", trial |-> t,
                     state |-> req[h].state, version |-> NextVersion(max)]
        BY <2>2, ContinueOthers DEF Typed, TypeOK
    <2>4. req'[h].trial = t /\ req'[h].version = max + 1
        BY <2>3 DEF NextVersion
    <2>5. max \in Nat
        BY DEF Versions, RowsOf, Stored, Typed, TypeOK, SnapshotRows
    <2>6. max = 0 \/ max \in Versions(t)'
        BY <1>2 DEF CreateMaxVersion, Versions, RowsOf, Stored
    <2>7. req'[h].version = 1 \/ req'[h].version - 1 \in Versions(t)'
        BY <2>4, <2>5, <2>6
    <2>8. QED
        BY <2>4, <2>7 DEF PendingVersion, Versions, RowsOf, Stored
<1>3. QED
    BY <1>1, <1>2, RequestMoves

LEMMA VersionsStep ==
    ASSUME Typed, VersionsContiguous, PendingVersions, [Next]_vars
    PROVE  VersionsContiguous'
<1>1. CASE UNCHANGED rows
    BY <1>1 DEF VersionsContiguous, Versions, RowsOf, Stored
<1>2. ASSUME NEW h \in Handlers, CreateInsert(h), ~UNCHANGED rows
      PROVE  VersionsContiguous'
    <2>1. PICK t \in Trials, v \in Nat : t = req[h].trial /\ v = req[h].version
        BY <1>2, RequestTypes DEF CreateInsert, Typed
    <2>2. PICK s \in Snapshots \ Stored :
              /\ v \notin Versions(t)
              /\ Stored' = Stored \cup {s}
              /\ rows'[s] = [trial |-> t, version |-> v, status |-> "draft",
                             stamped |-> FALSE, state |-> req[h].state]
              /\ \A u \in Snapshots \ {s} : rows'[u] = rows[u]
        BY <1>2, <2>1, InsertEffect DEF Typed
    <2>3. rows'[s].trial = t /\ rows'[s].version = v
        BY <2>2
    <2>4. \A u \in Trials : RowsOf(u)' = IF u = t THEN RowsOf(u) \cup {s} ELSE RowsOf(u)
        BY <2>2, <2>3 DEF RowsOf, Stored
    <2>5. \A u \in Trials : Versions(u)' = IF u = t THEN Versions(u) \cup {v} ELSE Versions(u)
        BY <2>2, <2>3, <2>4 DEF Versions, RowsOf, Stored
    <2>6. v = 1 \/ v - 1 \in Versions(t)
        BY <1>2, <2>1 DEF CreateInsert, PendingVersions, PendingVersion
    <2>7. \A u \in Trials : \A x, y \in RowsOf(u)' :
              rows'[x].version = rows'[y].version => x = y
        BY <2>2, <2>3, <2>4 DEF VersionsContiguous, Versions, RowsOf, Stored
    <2>8. \A u \in Trials : \A w \in Versions(u)' : w = 1 \/ w - 1 \in Versions(u)'
        BY <2>5, <2>6 DEF VersionsContiguous
    <2>9. QED
        BY <2>7, <2>8 DEF VersionsContiguous
<1>3. ASSUME Stored' = Stored,
             \A u \in Stored : /\ rows'[u].trial = rows[u].trial
                               /\ rows'[u].version = rows[u].version
      PROVE  VersionsContiguous'
    BY <1>3 DEF VersionsContiguous, Versions, RowsOf
<1>4. ASSUME NEW h \in Handlers, PublishSupersede(h) \/ PublishCommit(h)
      PROVE  VersionsContiguous'
    BY <1>3, <1>4, SupersedeEffect, CommitEffect
<1>5. QED
    BY <1>1, <1>2, <1>4, RowWriters

\* Versions of a trial run 1, 2, ... without gap or repetition in every
\* interleaving of creates, refusals and crashes (Create).
THEOREM VersionsRun == Spec => []VersionsContiguous
<1>1. Init => VersionsContiguous /\ PendingVersions
    BY DEF Init, VersionsContiguous, PendingVersions, PendingVersion, Versions,
           RowsOf, Stored, Idle
<1>2. QED
    BY <1>1, PendingStep, VersionsStep, TypeCorrect, PTL DEF Spec, Typed

-----------------------------------------------------------------------------
(* Publication times.                                                      *)

\* Every row a publisher has listed had been published, so it had its time.
ListedStamped ==
    \A h \in Handlers :
        req[h].pc = "supersede" => \A o \in req[h].old : o.stamped

LEMMA StampsStep ==
    Typed /\ StampIffPublished /\ ListedStamped /\ [Next]_vars
        => StampIffPublished' /\ ListedStamped'
<1> SUFFICES ASSUME Typed, StampIffPublished, ListedStamped, [Next]_vars
             PROVE  StampIffPublished' /\ ListedStamped'
    OBVIOUS
<1>1. ASSUME NEW h \in Handlers, req'[h].pc = "supersede", NEW o \in req'[h].old
      PROVE  o.stamped
    <2>1. CASE req'[h] = req[h]
        BY <1>1, <2>1 DEF ListedStamped
    <2>2. CASE PublishList(h)
        <3>1. PICK u \in RowsOf(rows[req[h].snap].trial) :
                  /\ ShouldSupersede(rows[u].status)
                  /\ o = [snap |-> u, stamped |-> rows[u].stamped]
            BY <1>1, <2>2, ListEffect
        <3>2. rows[u].stamped
            BY <3>1 DEF ShouldSupersede, RowsOf, StampIffPublished
        <3>3. QED
            BY <3>1, <3>2
    <2>3. CASE PublishSupersede(h)
        <3>1. req'[h].old \subseteq req[h].old /\ req[h].pc = "supersede"
            BY <2>3, SupersedeEffect DEF PublishSupersede
        <3>2. QED
            BY <1>1, <3>1 DEF ListedStamped
    <2>4. QED
        BY <1>1, <2>1, <2>2, <2>3, RequestMoves
<1>2. ListedStamped'
    BY <1>1 DEF ListedStamped
<1>3. StampIffPublished'
    <2>1. CASE UNCHANGED rows
        BY <2>1 DEF StampIffPublished, Stored
    <2>2. ASSUME NEW h \in Handlers, CreateInsert(h), ~UNCHANGED rows
          PROVE  StampIffPublished'
        <3>1. PICK s \in Snapshots \ Stored :
                  /\ Stored' = Stored \cup {s}
                  /\ rows'[s] = [trial |-> req[h].trial, version |-> req[h].version,
                                 status |-> "draft", stamped |-> FALSE,
                                 state |-> req[h].state]
                  /\ \A u \in Snapshots \ {s} : rows'[u] = rows[u]
            BY <2>2, InsertEffect DEF Typed
        <3>2. rows'[s].status = "draft" /\ rows'[s].stamped = FALSE
            BY <3>1
        <3>3. QED
            BY <3>1, <3>2 DEF StampIffPublished, Stored
    <2>3. ASSUME NEW h \in Handlers, PublishSupersede(h) PROVE StampIffPublished'
        <3>1. PICK o \in req[h].old :
                  /\ Stored' = Stored
                  /\ \A u \in Snapshots \ {o.snap} : rows'[u] = rows[u]
                  /\ rows'[o.snap].status = "superseded"
                  /\ rows'[o.snap].stamped = o.stamped
            BY <2>3, SupersedeEffect
        <3>2. o.stamped
            BY <2>3 DEF PublishSupersede, ListedStamped
        <3>3. QED
            BY <3>1, <3>2 DEF StampIffPublished, Stored
    <2>4. ASSUME NEW h \in Handlers, PublishCommit(h) PROVE StampIffPublished'
        BY <2>4, CommitEffect DEF StampIffPublished, Stored
    <2>5. QED
        BY <2>1, <2>2, <2>3, <2>4, RowWriters
<1>4. QED
    BY <1>2, <1>3

\* published_at is set on the snapshots that are not drafts and on no other,
\* however publishes overlap (UpdateStatus).
THEOREM StampsCorrect == Spec => []StampIffPublished
<1>1. Init => StampIffPublished /\ ListedStamped
    BY DEF Init, StampIffPublished, ListedStamped, Stored, Idle
<1>2. QED
    BY <1>1, StampsStep, TypeCorrect, PTL DEF Spec, Typed

-----------------------------------------------------------------------------
(* Taking over.                                                            *)

\* Two publishers of one trial know of each other.
MetIsOverlapped ==
    \A g, h \in Handlers, t \in Trials :
        g # h /\ Publishing(g, t) /\ Publishing(h, t) => g \in overlapped

\* A publisher that met no other has in its list every snapshot of the trial
\* that is published and not its own.
ListComplete ==
    \A h \in Handlers, t \in Trials, s \in Snapshots :
        req[h].pc = "supersede" /\ h \notin overlapped /\ Publishes(h, s, t) =>
            \A u \in PublishedOf(t) \ {s} : \E o \in req[h].old : o.snap = u

\* A handler that publishes went on with the snapshot it was publishing or
\* has just started.
LEMMA PublishingBefore ==
    ASSUME Typed, [Next]_vars, NEW h \in Handlers, NEW t \in Trials, Publishing(h, t)'
    PROVE  \/ Publishing(h, t) /\ req'[h].snap = req[h].snap
           \/ \E s \in Snapshots : PublishGet(h, s) /\ rows[s].trial = t
<1>1. /\ req'[h].snap \in Snapshots
      /\ req'[h].pc \in {"listOthers", "supersede"}
      /\ rows'[req'[h].snap].trial = t
    <2>1. Typed'
        BY TypedNext
    <2>2. QED
        BY <2>1 DEF Publishing, Typed, HeldRowsStored, Stored
<1>2. ASSUME req[h].pc \in {"listOthers", "supersede"}, req'[h].snap = req[h].snap
      PROVE  Publishing(h, t)
    <2>1. req[h].snap \in Stored
        BY <1>2 DEF Typed, HeldRowsStored
    <2>2. QED
        BY <1>1, <1>2, <2>1, RowsKept DEF Publishing
<1>3. CASE req'[h] = req[h]
    BY <1>1, <1>2, <1>3
<1>4. CASE PublishList(h)
    BY <1>2, <1>4, ListEffect DEF PublishList
<1>5. CASE PublishSupersede(h)
    BY <1>2, <1>5, SupersedeEffect DEF PublishSupersede
<1>6. ASSUME NEW s \in Snapshots, PublishGet(h, s) PROVE rows[s].trial = t
    <2>1. req'[h] = [pc |-> "listOthers", snap |-> s]
        BY <1>6, ContinueOthers DEF PublishGet, Typed, TypeOK
    <2>2. req'[h].snap = s
        BY <2>1
    <2>3. QED
        BY <1>1, <1>6, <2>2 DEF PublishGet
<1>7. QED
    BY <1>1, <1>3, <1>4, <1>5, <1>6, RequestMoves

\* A publisher that has met another one stays marked until it is done.
LEMMA OverlappedKept ==
    ASSUME Typed, [Next]_vars, NEW h \in overlapped,
           req'[h].pc \in {"listOthers", "supersede"}
    PROVE  h \in overlapped'
<1>1. h \in Handlers
    BY DEF Typed, TypeOK
<1>2. CASE Crash
    BY <1>1, <1>2 DEF Crash, Idle
<1>3. ASSUME NEW g \in Handlers, PublishCommit(g) PROVE h \in overlapped'
    <2>1. req'[g] = Idle /\ Idle.pc = "idle"
        BY <1>3, CommitEffect DEF Idle
    <2>2. g # h
        BY <2>1
    <2>3. QED
        BY <1>3, <2>2 DEF PublishCommit
<1>4. ASSUME NEW g \in Handlers, NEW s \in Snapshots, PublishGet(g, s)
      PROVE  h \in overlapped'
    BY <1>4 DEF PublishGet
<1>5. QED
    BY <1>2, <1>3, <1>4 DEF Next, Arrive, Step, vars, Diagnose, CreateListClusters,
       CreateListInterps, CreateMaxVersion, CreateInsert, PublishList, PublishSupersede

LEMMA MetStep ==
    ASSUME Typed, MetIsOverlapped, [Next]_vars PROVE MetIsOverlapped'
<1> SUFFICES ASSUME NEW g \in Handlers, NEW h \in Handlers, NEW t \in Trials,
                    g # h, Publishing(g, t)', Publishing(h, t)'
             PROVE  g \in overlapped'
    BY DEF MetIsOverlapped
<1>1. CASE Publishing(g, t) /\ Publishing(h, t)
    <2>1. g \in overlapped
        BY <1>1 DEF MetIsOverlapped
    <2>2. req'[g].pc \in {"listOthers", "supersede"}
        BY DEF Publishing
    <2>3. QED
        BY <2>1, <2>2, OverlappedKept
<1>2. ASSUME NEW s \in Snapshots, PublishGet(g, s), rows[s].trial = t, Publishing(h, t)
      PROVE  g \in overlapped'
    <2>1. h \in {k \in Handlers \ {g} : Publishing(k, rows[s].trial)}
        BY <1>2
    <2>2. QED
        BY <1>2, <2>1 DEF PublishGet
<1>3. ASSUME NEW s \in Snapshots, PublishGet(h, s), rows[s].trial = t, Publishing(g, t)
      PROVE  g \in overlapped'
    <2>1. g \in {k \in Handlers \ {h} : Publishing(k, rows[s].trial)}
        BY <1>3
    <2>2. QED
        BY <1>3, <2>1 DEF PublishGet
<1>4. ASSUME NEW s \in Snapshots, NEW u \in Snapshots, PublishGet(g, s), PublishGet(h, u)
      PROVE  FALSE
    <2>1. req'[g] = [pc |-> "listOthers", snap |-> s] /\ req[g] = Idle
        BY <1>4, ContinueOthers DEF PublishGet, Typed, TypeOK
    <2>2. Others(h)
        BY <1>4, ContinueOthers DEF PublishGet, Typed, TypeOK
    <2>3. req'[g].pc = "listOthers" /\ req[g].pc = "idle"
        BY <2>1 DEF Idle
    <2>4. QED
        BY <2>2, <2>3 DEF Others
<1>5. QED
    BY <1>1, <1>2, <1>3, <1>4, PublishingBefore

\* Where a published row comes from.
LEMMA NewlyPublished ==
    ASSUME Typed, [Next]_vars, NEW t \in Trials, NEW u \in PublishedOf(t)'
    PROVE  \/ u \in PublishedOf(t)
           \/ \E k \in Handlers : /\ PublishCommit(k)
                                  /\ req[k].snap = u
                                  /\ rows[u].trial = t
<1>1. u \in Snapshots /\ u \in Stored' /\ rows'[u].trial = t /\ rows'[u].status = "published"
    BY DEF PublishedOf, RowsOf, Stored
<1>2. CASE UNCHANGED rows
    BY <1>1, <1>2 DEF PublishedOf, RowsOf, Stored
<1>3. ASSUME NEW k \in Handlers, CreateInsert(k), ~UNCHANGED rows
      PROVE  u \in PublishedOf(t)
    <2>1. PICK s \in Snapshots \ Stored :
              /\ Stored' = Stored \cup {s}
              /\ rows'[s] = [trial |-> req[k].trial, version |-> req[k].version,
                             status |-> "draft", stamped |-> FALSE,
                             state |-> req[k].state]
              /\ \A x \in Snapshots \ {s} : rows'[x] = rows[x]
        BY <1>3, InsertEffect DEF Typed
    <2>2. rows'[s].status = "draft"
        BY <2>1
    <2>3. QED
        BY <1>1, <2>1, <2>2 DEF PublishedOf, RowsOf
<1>4. ASSUME NEW k \in Handlers, PublishSupersede(k) PROVE u \in PublishedOf(t)
    <2>1. PICK o \in req[k].old :
              /\ Stored' = Stored
              /\ \A x \in Snapshots \ {o.snap} : rows'[x] = rows[x]
              /\ rows'[o.snap].status = "superseded"
        BY <1>4, SupersedeEffect
    <2>2. QED
        BY <1>1, <2>1 DEF PublishedOf, RowsOf
<1>5. ASSUME NEW k \in Handlers, PublishCommit(k), req[k].snap # u
      PROVE  u \in PublishedOf(t)
    BY <1>1, <1>5, CommitEffect DEF PublishedOf, RowsOf
<1>6. ASSUME NEW k \in Handlers, PublishCommit(k), req[k].snap = u
      PROVE  rows[u].trial = t
    BY <1>1, <1>6, CommitEffect
<1>7. QED
    BY <1>2, <1>3, <1>4, <1>5, <1>6, RowWriters

LEMMA ListStep ==
    ASSUME Typed, MetIsOverlapped, ListComplete, [Next]_vars PROVE ListComplete'
<1> SUFFICES ASSUME NEW h \in Handlers, NEW t \in Trials, NEW s \in Snapshots,
                    req'[h].pc = "supersede", h \notin overlapped',
                    req'[h].snap = s, rows'[s].trial = t,
                    NEW u \in PublishedOf(t)', u # s
             PROVE  \E o \in req'[h].old : o.snap = u
    BY DEF ListComplete, Publishes
<1>1. h \notin overlapped
    BY OverlappedKept
<1>2. ASSUME req[h].pc = "supersede", req[h].snap = s
      PROVE  /\ u \in PublishedOf(t)
             /\ \E o \in req[h].old : o.snap = u
    <2>1. s \in Stored
        BY <1>2 DEF Typed, HeldRowsStored
    <2>2. rows[s].trial = t
        BY <2>1, RowsKept
    <2>3. ASSUME NEW k \in Handlers, PublishCommit(k), req[k].snap = u, rows[u].trial = t
          PROVE  FALSE
        <3>1. k # h
            BY <1>2, <2>3
        <3>2. Publishing(h, t) /\ Publishing(k, t)
            BY <1>2, <2>2, <2>3 DEF Publishing, PublishCommit
        <3>3. QED
            BY <1>1, <3>1, <3>2 DEF MetIsOverlapped
    <2>4. u \in PublishedOf(t)
        BY <2>3, NewlyPublished
    <2>5. QED
        BY <1>1, <1>2, <2>2, <2>4 DEF ListComplete, Publishes
<1>3. CASE req'[h] = req[h]
    BY <1>2, <1>3
<1>4. CASE PublishList(h)
    <2>1. /\ req[h].snap = s
          /\ req'[h].old = {[snap |-> o, stamped |-> rows[o].stamped] :
                               o \in {x \in RowsOf(rows[s].trial) \ {s} :
                                         ShouldSupersede(rows[x].status)}}
        BY <1>4, ListEffect
    <2>2. rows' = rows
        BY <1>4 DEF PublishList
    <2>3. u \in RowsOf(rows[s].trial) \ {s} /\ ShouldSupersede(rows[u].status)
        BY <2>2 DEF PublishedOf, RowsOf, Stored, ShouldSupersede
    <2>4. [snap |-> u, stamped |-> rows[u].stamped] \in req'[h].old
        BY <2>1, <2>3
    <2>5. [snap |-> u, stamped |-> rows[u].stamped].snap = u
        OBVIOUS
    <2>6. QED
        BY <2>4, <2>5
<1>5. CASE PublishSupersede(h)
    <2>1. PICK o \in req[h].old :
              /\ rows'[o.snap].status = "superseded"
              /\ req'[h].snap = req[h].snap
              /\ req'[h].old = req[h].old \ {o}
        BY <1>5, SupersedeEffect
    <2>2. PICK p \in req[h].old : p.snap = u
        BY <1>2, <1>5, <2>1 DEF PublishSupersede
    <2>3. rows'[u].status = "published"
        BY DEF PublishedOf
    <2>4. p # o
        BY <2>1, <2>2, <2>3
    <2>5. QED
        BY <2>1, <2>2, <2>4
<1>6. QED
    BY <1>3, <1>4, <1>5, RequestMoves

\* A publish that met no other one of its trial leaves its snapshot the only
\* published one, whatever happened before it (Publish, supersedePublished).
THEOREM SoloTakesOver == Spec => SoloPublishTakesOver
<1> DEFINE IInv == MetIsOverlapped /\ ListComplete
<1>1. Init => IInv
    BY DEF Init, MetIsOverlapped, ListComplete, Publishing, Idle
<1>2. Typed /\ IInv /\ [Next]_vars => IInv'
    BY MetStep, ListStep
<1>3. Typed /\ IInv /\ [Next]_vars =>
          [\A h \in Handlers, t \in Trials, s \in Snapshots :
              PublishCommit(h) /\ h \notin overlapped /\ Publishes(h, s, t) =>
                  PublishedOf(t)' = {s}]_vars
    <2> SUFFICES ASSUME Typed, IInv, [Next]_vars,
                        NEW h \in Handlers, NEW t \in Trials, NEW s \in Snapshots,
                        PublishCommit(h), h \notin overlapped, Publishes(h, s, t)
                 PROVE  PublishedOf(t)' = {s}
        OBVIOUS
    <2>1. req[h].snap = s /\ rows[s].trial = t
        BY DEF Publishes
    <2>2. PublishedOf(t) \subseteq {s}
        BY DEF ListComplete, PublishCommit
    <2>3. /\ s \in Stored' /\ s \in Snapshots
          /\ rows'[s].trial = t
          /\ rows'[s].status = "published"
          /\ Stored' = Stored
          /\ \A u \in Snapshots \ {s} : rows'[u] = rows[u]
        BY <2>1, CommitEffect DEF Stored
    <2>4. s \in PublishedOf(t)'
        BY <2>3 DEF PublishedOf, RowsOf
    <2>5. PublishedOf(t)' \subseteq {s}
        BY <2>2, <2>3 DEF PublishedOf, RowsOf, Stored
    <2>6. QED
        BY <2>4, <2>5
<1>4. QED
    BY <1>1, <1>2, <1>3, TypeCorrect, PTL DEF Spec, Typed, SoloPublishTakesOver
=============================================================================
