--------------------------- MODULE ClusterService ---------------------------
(***************************************************************************)
(* internal/service/cluster_service.go and the adjudication part of        *)
(* diagnosis_service.go over the clusters table.  Handlers interleave      *)
(* between SQL statements as in TrialService.  The valid pulses are only   *)
(* read, once per clustering: their spectrum is an input of it.            *)
(***************************************************************************)
EXTENDS PhaseClusters

CONSTANTS
    Trials,     \* ids of the rows of the trials table
    Ids,        \* cluster ids store.NewID can draw
    Handlers,   \* request goroutines
    Spectra,    \* spectra a trial's valid pulses can have
    NoCluster   \* no clusters row

VARIABLES
    rows,       \* the clusters table: id -> row
    drawn,      \* ids that NewID has given out
    req,        \* what each handler still has to do
    overlapped  \* history: handlers that have met another one on their trial

vars == <<rows, drawn, req, overlapped>>

Statuses == {"candidate", "stable", "conflict", "confirmed", "rejected"}

ClusterRows == [trial : Trials, shape : Shapes, status : Statuses]

ASSUME ClusterAssumption ==
    /\ Spectra \subseteq Spectrums
    /\ NoCluster \notin ClusterRows

Stored == {id \in Ids : rows[id] # NoCluster}

RowsOf(t) == {id \in Stored : rows[id].trial = t}

\* ORDER BY phase_center_deg: rows of one centre come in any order.
ListByTrial(t) ==
    CHOOSE o \in SetToSeqs(RowsOf(t)) :
        \A i, j \in DOMAIN o : i < j => rows[o[i]].shape.center <= rows[o[j]].shape.center

CentersOf(t) == [i \in DOMAIN ListByTrial(t) |-> rows[ListByTrial(t)[i]].shape.center]

\* Pulses that a trial's clusters stand for, rejected ones apart.
LivePulses(t) ==
    LET live == {id \in RowsOf(t) : rows[id].status # "rejected"}
    IN  SumFunction([id \in live |-> rows[id].shape.count])

Idle == [pc |-> "idle"]

Init ==
    /\ rows = [id \in Ids |-> NoCluster]
    /\ drawn = {}
    /\ req = [h \in Handlers |-> Idle]
    /\ overlapped = {}

Begin(h, t, r) ==
    LET met == {g \in Handlers \ {h} : req[g] # Idle /\ req[g].trial = t}
    IN  /\ req[h] = Idle
        /\ req' = [req EXCEPT ![h] = r]
        /\ overlapped' = IF met = {} THEN overlapped ELSE overlapped \cup met \cup {h}

Continue(h, r) ==
    /\ req' = [req EXCEPT ![h] = r]
    /\ UNCHANGED overlapped

Return(h) ==
    /\ req' = [req EXCEPT ![h] = Idle]
    /\ overlapped' = overlapped \ {h}

\* Mutant: an id of a deleted row is given out again.
FreshIdsReused == Ids \ Stored

FreshIds == Ids \ drawn

Insert(row) ==
    \E id \in FreshIds :
        /\ rows' = [rows EXCEPT ![id] = row]
        /\ drawn' = drawn \cup {id}

-----------------------------------------------------------------------------
(* Cluster: list the valid pulses, list the old clusters, delete them all, *)
(* insert the new ones one by one.                                         *)

ClusterPulses(h, t, spectrum) ==
    /\ Extract(spectrum) # <<>>
    /\ Begin(h, t, [pc |-> "listOld", trial |-> t, new |-> Extract(spectrum)])
    /\ UNCHANGED <<rows, drawn>>

NewStatus(t, new) ==
    IF RowsOf(t) = {} \/ Stable(CentersOf(t), [k \in DOMAIN new |-> new[k].center])
    THEN "stable" ELSE "conflict"

ClusterListOld(h) ==
    /\ req[h].pc = "listOld"
    /\ Continue(h, [pc |-> "deleteOld", trial |-> req[h].trial, new |-> req[h].new,
                    status |-> NewStatus(req[h].trial, req[h].new)])
    /\ UNCHANGED <<rows, drawn>>

\* Mutant: no WHERE clause.
DeletedAll(t) == Stored

\* Mutant: clusters an engineer has confirmed are kept.
DeletedUnconfirmed(t) == {id \in RowsOf(t) : rows[id].status # "confirmed"}

Deleted(t) == RowsOf(t)

ClusterDelete(h) ==
    LET t == req[h].trial
    IN  /\ req[h].pc = "deleteOld"
        /\ rows' = [id \in Ids |-> IF id \in Deleted(t) THEN NoCluster ELSE rows[id]]
        /\ Continue(h, [pc |-> "insertNew", trial |-> t, new |-> req[h].new,
                        status |-> req[h].status, next |-> 1])
        /\ UNCHANGED drawn

ClusterInsert(h) ==
    LET r == req[h]
    IN  /\ r.pc = "insertNew"
        /\ Insert([trial |-> r.trial, shape |-> r.new[r.next], status |-> r.status])
        /\ IF r.next = Len(r.new)
           THEN Return(h)
           ELSE Continue(h, [r EXCEPT !.next = @ + 1])

-----------------------------------------------------------------------------
(* MergeClusters: get both, insert the merged one, reject both.  "seen" is *)
(* what was read of them; "before", the live pulses at the first read, and *)
(* "live", whether both were live when read, are history.                  *)

\* A client can name ids it was given, also of rows that are gone.
MergeGetA(h, a, b) ==
    /\ a \in Stored
    /\ b \in drawn
    /\ Begin(h, rows[a].trial,
             [pc |-> "getB", trial |-> rows[a].trial, ids |-> <<a, b>>,
              seenA |-> rows[a], before |-> LivePulses(rows[a].trial)])
    /\ UNCHANGED <<rows, drawn>>

MergeGetB(h) ==
    LET r == req[h]
        b == r.ids[2]
    IN  /\ r.pc = "getB"
        /\ IF b \in RowsOf(r.trial)
           THEN Continue(h, [pc |-> "insertMerged", trial |-> r.trial, ids |-> r.ids,
                             seen |-> <<r.seenA.shape, rows[b].shape>>, before |-> r.before,
                             live |-> "rejected" \notin {r.seenA.status, rows[b].status}])
           ELSE Return(h)
        /\ UNCHANGED <<rows, drawn>>

MergeInsert(h) ==
    LET r == req[h]
    IN  /\ r.pc = "insertMerged"
        /\ Insert([trial |-> r.trial, shape |-> Merge(r.seen[1], r.seen[2]),
                   status |-> "candidate"])
        /\ Continue(h, [r EXCEPT !.pc = "rejectA"])

\* UPDATE ... WHERE id = ?: a row that is gone stays so.
UpdateStatus(id, status) ==
    rows' = [rows EXCEPT ![id] = IF @ = NoCluster THEN @ ELSE [@ EXCEPT !.status = status]]

\* A source that is gone is an error, and the other one is not rejected.
MergeRejectA(h) ==
    LET a == req[h].ids[1]
    IN  /\ req[h].pc = "rejectA"
        /\ UpdateStatus(a, "rejected")
        /\ IF a \in Stored
           THEN Continue(h, [req[h] EXCEPT !.pc = "rejectB"])
           ELSE Return(h)
        /\ UNCHANGED drawn

\* Mutant: the first source is written twice.
SecondSourceFirst(r) == r.ids[1]

SecondSource(r) == r.ids[2]

MergeRejectB(h) ==
    /\ req[h].pc = "rejectB"
    /\ UpdateStatus(SecondSource(req[h]), "rejected")
    /\ Return(h)
    /\ UNCHANGED drawn

-----------------------------------------------------------------------------
(* AdjudicateCluster, from the interference and confirm routes.            *)

AdjudicateGet(h, id, inInterference) ==
    /\ id \in Stored
    /\ Begin(h, rows[id].trial,
             [pc |-> "setVerdict", trial |-> rows[id].trial, id |-> id,
              seen |-> rows[id].shape, verdict |-> Decide(rows[id].shape, inInterference)])
    /\ UNCHANGED <<rows, drawn>>

AdjudicateSet(h) ==
    /\ req[h].pc = "setVerdict"
    /\ UpdateStatus(req[h].id, req[h].verdict)
    /\ Return(h)
    /\ UNCHANGED drawn

-----------------------------------------------------------------------------
\* The process dies: the handlers are gone, what was committed stays.
Crash ==
    /\ \E h \in Handlers : req[h] # Idle
    /\ req' = [h \in Handlers |-> Idle]
    /\ overlapped' = {}
    /\ UNCHANGED <<rows, drawn>>

\* The next statement of a request that is under way.
Step(h) ==
    \/ ClusterListOld(h) \/ ClusterDelete(h) \/ ClusterInsert(h)
    \/ MergeGetB(h) \/ MergeInsert(h) \/ MergeRejectA(h) \/ MergeRejectB(h)
    \/ AdjudicateSet(h)

Arrive(h) ==
    \/ \E t \in Trials, s \in Spectra : ClusterPulses(h, t, s)
    \/ \E a, b \in Ids : MergeGetA(h, a, b)
    \/ \E id \in Ids, inInterference \in BOOLEAN : AdjudicateGet(h, id, inInterference)

Next ==
    \/ Crash
    \/ \E h \in Handlers : Arrive(h) \/ Step(h)

Spec == Init /\ [][Next]_vars

-----------------------------------------------------------------------------
(* Properties.                                                             *)

\* Rows have the shape the code gives them: ranges in the cycle, centres that
\* are angles, at least one pulse, also after merges.
TypeOK ==
    /\ rows \in [Ids -> ClusterRows \cup {NoCluster}]
    /\ drawn \subseteq Ids
    /\ Stored \subseteq drawn
    /\ overlapped \subseteq {h \in Handlers : req[h] # Idle}

\* A verdict or the rejection of a merged source, which are written by id in
\* a later statement than the read, reach the cluster they were decided on or
\* none: never one that a clustering has put in its place.
VerdictHitsItsCluster ==
    \A h \in Handlers :
        /\ req[h].pc = "setVerdict" /\ req[h].id \in Stored =>
              rows[req[h].id].shape = req[h].seen
        /\ req[h].pc \in {"insertMerged", "rejectA", "rejectB"} =>
              \A n \in 1 .. 2 :
                  req[h].ids[n] \in Stored => rows[req[h].ids[n]].shape = req[h].seen[n]

\* A clustering that met no other request on its trial ends with exactly the
\* clusters of the pulses it listed, whatever crashes, merges and verdicts
\* came before it (Cluster: "replaces the old clusters").
SoloClusterReplaces ==
    [][\A h \in Handlers, t \in Trials :
          ClusterInsert(h) /\ req'[h] = Idle /\ h \notin overlapped /\ req[h].trial = t =>
              LET stored == RowsOf(t)'
              IN  /\ Cardinality(stored) = Len(req[h].new)
                  /\ {rows'[id].shape : id \in stored} = {req[h].new[k] : k \in DOMAIN req[h].new}
      ]_vars

\* A merge of two live clusters that met no other request on their trial
\* leaves as many live pulses as there were: the merged cluster takes the
\* place of its sources (MergeClusters).
SoloMergeConserves ==
    [][\A h \in Handlers, t \in Trials :
          /\ MergeRejectB(h) /\ h \notin overlapped /\ req[h].trial = t
          /\ req[h].live /\ req[h].ids[1] # req[h].ids[2]
          => LivePulses(t)' = req[h].before]_vars
=============================================================================
