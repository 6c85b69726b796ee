------------------------ MODULE ClusterServiceProofs ------------------------
(***************************************************************************)
(* ClusterService, and DiagnosisService which takes its steps, for every   *)
(* set of trials, ids, handlers and spectra.  What a request read of a     *)
(* cluster stays true of the id it will write to; and a request that met   *)
(* no other one on its trial finds the rows of that trial as it left them, *)
(* so that what it does in several statements adds up.                     *)
(***************************************************************************)
EXTENDS DiagnosisService, PhaseClustersProofs

-----------------------------------------------------------------------------
(* The invariant.                                                          *)

\* What is stored is a row, under an id that was given out.
Table ==
    /\ rows = [id \in Ids |-> rows[id]] /\ DOMAIN rows = Ids
    /\ drawn \subseteq Ids
    /\ IsFiniteSet(drawn)
    /\ Stored \subseteq drawn
    /\ \A id \in Stored : rows[id] \in ClusterRows

\* The id is taken, and stands for this cluster or for none.
Known(id, trial, shape) ==
    /\ id \in drawn
    /\ id \in Stored => rows[id].trial = trial /\ rows[id].shape = shape

MergePcs == {"insertMerged", "rejectA", "rejectB"}

ClusterPcs == {"listOld", "deleteOld", "insertNew"}

\* Requests that a later statement changes in part have all their fields.
Inserting(r) ==
    r = [pc |-> "insertNew", trial |-> r.trial, new |-> r.new, status |-> r.status,
         next |-> r.next]

Merging(r) ==
    r = [pc |-> r.pc, trial |-> r.trial, ids |-> r.ids, seen |-> r.seen,
         before |-> r.before, live |-> r.live]

Classifying(r) ==
    r = [pc |-> "insertInterp", trial |-> r.trial, candidates |-> r.candidates,
         next |-> r.next]

Defects == {"unknown", "floating_electrode", "internal_void", "surface_discharge"}

Candidates == [defect : Defects, confidence : Int]

\* What a classification finds: one or two defects, the surer one first.
Sure(found) ==
    /\ found \in Seq(Candidates) /\ Len(found) \in 1 .. 2
    /\ Len(found) = 2 => /\ found[1].confidence >= found[2].confidence
                         /\ found[1].defect # found[2].defect

\* The fields of a request that is under way.
Typed(r) ==
    /\ r # Idle /\ r.trial \in Trials
    /\ r.pc \in ClusterPcs => r.new \in Seq(Shapes) /\ r.new # << >>
    /\ r.pc \in {"deleteOld", "insertNew"} => r.status \in {"stable", "conflict"}
    /\ r.pc = "insertNew" => Inserting(r) /\ r.next \in 1 .. Len(r.new)
    /\ r.pc = "getB" => r.seenA \in ClusterRows
    /\ r.pc \in MergePcs => Merging(r) /\ r.seen[1] \in Shapes /\ r.seen[2] \in Shapes
    /\ r.pc = "setVerdict" => r.verdict \in Statuses
    /\ r.pc = "insertInterp" =>
          /\ Classifying(r)
          /\ Sure(r.candidates) /\ r.next \in 1 .. Len(r.candidates)

\* What it read is known of the ids it names.
Holds(r) ==
    /\ r.pc \in MergePcs => /\ Known(r.ids[1], r.trial, r.seen[1])
                            /\ Known(r.ids[2], r.trial, r.seen[2])
    /\ r.pc = "getB" => Known(r.ids[1], r.trial, r.seenA.shape)
    /\ r.pc = "setVerdict" => Known(r.id, r.trial, r.seen)

Live(t) == {id \in RowsOf(t) : rows[id].status # "rejected"}

ShapesOf(t) == {rows[id].shape : id \in RowsOf(t)}

\* What is true of the rows of its trial, if it met no other request on it.
Solo(r) ==
    /\ r.pc = "insertNew" =>
          /\ Cardinality(RowsOf(r.trial)) = r.next - 1
          /\ ShapesOf(r.trial) = {r.new[k] : k \in 1 .. r.next - 1}
    /\ r.pc = "getB" =>
          /\ r.before = LivePulses(r.trial)
          /\ r.ids[1] \in RowsOf(r.trial) /\ rows[r.ids[1]] = r.seenA
    /\ r.pc = "insertMerged" =>
          /\ r.before = LivePulses(r.trial)
          /\ r.live => r.ids[1] \in Live(r.trial) /\ r.ids[2] \in Live(r.trial)
    /\ r.pc = "rejectA" /\ r.live /\ r.ids[1] # r.ids[2] =>
          /\ r.ids[1] \in Live(r.trial) /\ r.ids[2] \in Live(r.trial)
          /\ LivePulses(r.trial) = r.before + (r.seen[1].count + r.seen[2].count)
          /\ r.before \in Nat
    /\ r.pc = "rejectB" /\ r.live /\ r.ids[1] # r.ids[2] =>
          /\ r.ids[2] \in Live(r.trial)
          /\ LivePulses(r.trial) = r.before + r.seen[2].count
          /\ r.before \in Nat
    /\ r.pc = "listInterps" => r.clusters = [id \in RowsOf(r.trial) |-> rows[id]]
    /\ r.pc = "insertInterp" => r.candidates = CandidatesOf(r.trial)

\* Requests that are under way on one trial have met.
Meetings ==
    /\ overlapped \subseteq {h \in Handlers : req[h] # Idle}
    /\ \A g, h \in Handlers :
          g # h /\ req[g] # Idle /\ req[h] # Idle /\ req[g].trial = req[h].trial
              => g \in overlapped

Requests ==
    /\ DOMAIN req = Handlers
    /\ \A h \in Handlers : req[h] # Idle => Typed(req[h]) /\ Holds(req[h])
    /\ \A h \in Handlers : req[h] # Idle /\ h \notin overlapped => Solo(req[h])

IInv == Table /\ Meetings /\ Requests

-----------------------------------------------------------------------------
(* What the statements that write do to the table.                         *)

\* No id changes its meaning in a step, and only rows of trial t are written.
Kept(t) ==
    /\ Table'
    /\ drawn \subseteq drawn'
    /\ \A id \in drawn : id \in Stored' =>
          id \in Stored /\ rows'[id].trial = rows[id].trial /\ rows'[id].shape = rows[id].shape
    /\ \A u : u # t => /\ RowsOf(u)' = RowsOf(u)
                       /\ \A id \in RowsOf(u) : rows'[id] = rows[id]

LEMMA RowsOfFinite ==
    ASSUME Table, NEW t
    PROVE  /\ IsFiniteSet(RowsOf(t)) /\ IsFiniteSet(Live(t))
           /\ RowsOf(t) \subseteq Stored /\ Live(t) \subseteq RowsOf(t)
<1>1. RowsOf(t) \subseteq Stored /\ Live(t) \subseteq RowsOf(t)
    BY DEF RowsOf, Live
<1>2. RowsOf(t) \in SUBSET drawn /\ Live(t) \in SUBSET drawn
    BY <1>1 DEF Table
<1>3. QED
    BY <1>1, <1>2, FS_Subset DEF Table

LEMMA UnchangedKept ==
    ASSUME Table, UNCHANGED <<rows, drawn>>, NEW t
    PROVE  Kept(t)
BY DEF Table, Stored, RowsOf, Kept

LEMMA InsertKept ==
    ASSUME Table, NEW row \in ClusterRows, Insert(row)
    PROVE  /\ Kept(row.trial)
           /\ \E id \in Ids \ drawn :
                 /\ RowsOf(row.trial)' = RowsOf(row.trial) \cup {id}
                 /\ id \notin RowsOf(row.trial)
                 /\ rows'[id] = row
                 /\ \A i \in RowsOf(row.trial) : rows'[i] = rows[i]
<1>1. PICK id \in Ids \ drawn : /\ rows' = [rows EXCEPT ![id] = row]
                                /\ drawn' = drawn \cup {id}
    BY DEF Insert, FreshIds
<1>2. /\ rows' = [i \in Ids |-> rows'[i]] /\ DOMAIN rows' = Ids
      /\ rows'[id] = row /\ row # NoCluster
      /\ \A i \in Ids \ {id} : rows'[i] = rows[i]
    BY <1>1, ClusterAssumption DEF Table
<1>3. Stored' = Stored \cup {id} /\ id \notin Stored
    BY <1>1, <1>2 DEF Stored, Table
<1>4. Table'
    <2>1. IsFiniteSet(drawn') /\ drawn' \subseteq Ids /\ Stored' \subseteq drawn'
        BY <1>1, <1>3, FS_AddElement DEF Table
    <2>2. \A i \in Stored' : rows'[i] \in ClusterRows
        BY <1>2, <1>3 DEF Table, Stored
    <2>3. QED
        BY <1>2, <2>1, <2>2 DEF Table
<1>5. ASSUME NEW u, u # row.trial
      PROVE  RowsOf(u)' = RowsOf(u) /\ \A i \in RowsOf(u) : rows'[i] = rows[i]
    BY <1>2, <1>3, <1>5 DEF RowsOf, Stored
<1>6. RowsOf(row.trial)' = RowsOf(row.trial) \cup {id}
    BY <1>2, <1>3 DEF RowsOf, Stored
<1>7. \A i \in RowsOf(row.trial) : i \in Stored /\ i # id /\ rows'[i] = rows[i]
    BY <1>2, <1>3 DEF RowsOf, Stored
<1>8. \A i \in drawn : i \in Stored' => i \in Stored /\ rows'[i] = rows[i]
    BY <1>1, <1>2, <1>3 DEF Stored
<1>9. Kept(row.trial)
    BY <1>1, <1>4, <1>5, <1>8 DEF Kept
<1>10. QED
    BY <1>6, <1>7, <1>9, <1>2

LEMMA UpdateKept ==
    ASSUME Table, NEW id, NEW trial, NEW shape, Known(id, trial, shape),
           NEW status \in Statuses, UpdateStatus(id, status), UNCHANGED drawn
    PROVE  /\ Kept(trial)
           /\ Stored' = Stored /\ \A u : RowsOf(u)' = RowsOf(u)
           /\ \A i \in Stored \ {id} : rows'[i] = rows[i]
           /\ id \in Stored => /\ rows'[id].shape = rows[id].shape
                               /\ rows'[id].status = status
<1>1. /\ rows' = [i \in Ids |-> rows'[i]] /\ DOMAIN rows' = Ids
      /\ \A i \in Ids \ {id} : rows'[i] = rows[i]
      /\ id \in Ids => rows'[id] = IF rows[id] = NoCluster THEN rows[id]
                                   ELSE [rows[id] EXCEPT !.status = status]
    BY DEF UpdateStatus, Table
<1>2. ASSUME id \in Stored
      PROVE  /\ rows'[id] \in ClusterRows
             /\ rows'[id].trial = rows[id].trial /\ rows'[id].shape = rows[id].shape
             /\ rows'[id].status = status
    <2>1. id \in Ids /\ rows[id] # NoCluster /\ rows[id] \in ClusterRows
        BY <1>2 DEF Table, Stored
    <2>2. rows'[id] = [rows[id] EXCEPT !.status = status]
        BY <1>1, <2>1
    <2>3. QED
        BY <2>1, <2>2 DEF ClusterRows
<1>3. Stored' = Stored
    <2>1. \A i \in Ids : i # id => (rows'[i] # NoCluster <=> rows[i] # NoCluster)
        BY <1>1
    <2>2. id \in Ids => (rows'[id] # NoCluster <=> rows[id] # NoCluster)
        BY <1>1, <1>2, ClusterAssumption DEF Stored
    <2>3. QED
        BY <2>1, <2>2 DEF Stored
<1>4. \A i \in Stored : /\ rows'[i].trial = rows[i].trial /\ rows'[i].shape = rows[i].shape
                        /\ rows'[i] \in ClusterRows
    BY <1>1, <1>2 DEF Table, Stored
<1>5. Table'
    BY <1>1, <1>3, <1>4 DEF Table
<1>6. \A u : RowsOf(u)' = RowsOf(u)
    BY <1>3, <1>4 DEF RowsOf
<1>7. \A i \in Stored \ {id} : rows'[i] = rows[i]
    BY <1>1 DEF Stored
<1>8. ASSUME NEW u, u # trial, NEW i \in RowsOf(u)
      PROVE  rows'[i] = rows[i]
    BY <1>7, <1>8 DEF RowsOf, Known
<1>9. Kept(trial)
    BY <1>3, <1>4, <1>5, <1>6, <1>8 DEF Kept
<1>10. QED
    BY <1>2, <1>3, <1>6, <1>7, <1>9

LEMMA DeleteKept ==
    ASSUME Table, NEW h \in Handlers, ClusterDelete(h), NEW t, t = req[h].trial
    PROVE  Kept(t) /\ RowsOf(t)' = {}
<1>1. /\ rows' = [i \in Ids |-> rows'[i]] /\ DOMAIN rows' = Ids /\ drawn' = drawn
      /\ \A i \in Ids : rows'[i] = IF i \in RowsOf(t) THEN NoCluster ELSE rows[i]
    BY DEF ClusterDelete, Deleted
<1>2. Stored' = Stored \ RowsOf(t) /\ \A i \in Stored' : rows'[i] = rows[i]
    BY <1>1 DEF Stored
<1>3. Table'
    BY <1>1, <1>2 DEF Table
<1>4. RowsOf(t)' = {} /\ \A u : u # t => RowsOf(u)' = RowsOf(u)
    BY <1>2 DEF RowsOf
<1>5. \A u : u # t => \A i \in RowsOf(u) : rows'[i] = rows[i]
    BY <1>2, <1>4 DEF RowsOf
<1>6. Kept(t)
    BY <1>1, <1>2, <1>3, <1>4, <1>5 DEF Kept
<1>7. QED
    BY <1>4, <1>6

-----------------------------------------------------------------------------
(* What requests hold stays true in every step.                            *)

LEMMA HoldsKept ==
    ASSUME NEW t, Kept(t), NEW r, Holds(r)
    PROVE  Holds(r)'
<1>1. ASSUME NEW id, NEW trial, NEW shape, Known(id, trial, shape)
      PROVE  Known(id, trial, shape)'
    BY <1>1 DEF Kept, Known
<1>2. QED
    BY <1>1 DEF Holds

\* The list a request makes of the rows of a trial is one of these rows.
LEMMA ListIs ==
    ASSUME Table, NEW t
    PROVE  /\ ListByTrial(t) \in SetToSeqs(RowsOf(t))
           /\ \A i \in DOMAIN ListByTrial(t) : ListByTrial(t)[i] \in RowsOf(t)
<1> DEFINE f == [id \in RowsOf(t) |-> rows[id].shape.center]
<1>1. \A id \in RowsOf(t) : f[id] \in Int
    <2> SUFFICES ASSUME NEW id \in RowsOf(t)
                 PROVE  f[id] \in Int
        OBVIOUS
    <2>1. rows[id] \in ClusterRows
        BY DEF Table, RowsOf
    <2>2. rows[id].shape.center \in 0 .. Circle - 1
        BY <2>1 DEF ClusterRows, Shapes
    <2>3. QED
        BY <2>2, BinsAssumption DEF Circle
<1>2. PICK o \in SetToSeqs(RowsOf(t)) : Sorted(o, f)
    <2> HIDE DEF f
    <2>1. QED
        BY <1>1, RowsOfFinite, SortedExists
<1>3. ASSUME NEW p \in SetToSeqs(RowsOf(t)), NEW i \in DOMAIN p
      PROVE  p[i] \in RowsOf(t)
    BY <1>3 DEF SetToSeqs
<1>4. \A i, j \in DOMAIN o : i < j => rows[o[i]].shape.center <= rows[o[j]].shape.center
    <2>1. \A i \in DOMAIN o : f[o[i]] = rows[o[i]].shape.center
        BY <1>3
    <2> HIDE DEF f
    <2>2. QED
        BY <1>2, <2>1 DEF Sorted
<1>5. ListByTrial(t) \in SetToSeqs(RowsOf(t))
    BY <1>2, <1>4 DEF ListByTrial
<1>6. QED
    BY <1>3, <1>5

LEMMA ListKept ==
    ASSUME Table, NEW t, RowsOf(t)' = RowsOf(t), \A id \in RowsOf(t) : rows'[id] = rows[id]
    PROVE  CandidatesOf(t)' = CandidatesOf(t)
<1> DEFINE S == RowsOf(t)
<1>1. \A o \in SetToSeqs(S) : \A i \in DOMAIN o : rows'[o[i]] = rows[o[i]]
    BY DEF SetToSeqs
<1>2. ListByTrial(t)' = CHOOSE o \in SetToSeqs(S) :
          \A i, j \in DOMAIN o : i < j => rows'[o[i]].shape.center <= rows'[o[j]].shape.center
    BY DEF ListByTrial
<1>3. ListByTrial(t) = CHOOSE o \in SetToSeqs(S) :
          \A i, j \in DOMAIN o : i < j => rows[o[i]].shape.center <= rows[o[j]].shape.center
    BY DEF ListByTrial
<1>4. \A o \in SetToSeqs(S) :
          (\A i, j \in DOMAIN o : i < j => rows'[o[i]].shape.center <= rows'[o[j]].shape.center)
          <=> (\A i, j \in DOMAIN o : i < j => rows[o[i]].shape.center <= rows[o[j]].shape.center)
    BY <1>1
<1>5. ListByTrial(t)' = ListByTrial(t)
    BY <1>2, <1>3, <1>4
<1>6. \A i \in DOMAIN ListByTrial(t) : rows'[ListByTrial(t)[i]] = rows[ListByTrial(t)[i]]
    BY ListIs
<1>7. [i \in DOMAIN ListByTrial(t)' |-> rows'[ListByTrial(t)'[i]].shape]
          = [i \in DOMAIN ListByTrial(t) |-> rows[ListByTrial(t)[i]].shape]
    BY <1>5, <1>6
<1>8. QED
    BY <1>7 DEF CandidatesOf

LEMMA LivePulsesIs ==
    ASSUME NEW t
    PROVE  LivePulses(t) = SumFunctionOnSet([id \in Live(t) |-> rows[id].shape.count], Live(t))
BY DEF LivePulses, Live, SumFunction

\* A step that leaves the rows of its trial leaves what a request found there.
LEMMA SoloKept ==
    ASSUME Table, NEW r, Solo(r),
           RowsOf(r.trial)' = RowsOf(r.trial),
           \A id \in RowsOf(r.trial) : rows'[id] = rows[id]
    PROVE  Solo(r)'
<1>1. PICK t : t = r.trial
    OBVIOUS
<1>2. RowsOf(t)' = RowsOf(t) /\ \A id \in RowsOf(t) : rows'[id] = rows[id]
    BY <1>1
<1>3. Live(t)' = Live(t)
    BY <1>2 DEF Live
<1>4. [id \in Live(t)' |-> rows'[id].shape.count] = [id \in Live(t) |-> rows[id].shape.count]
    BY <1>2, <1>3 DEF Live
<1>5. LivePulses(t)' = LivePulses(t)
    BY <1>3, <1>4 DEF LivePulses, Live
<1>6. ShapesOf(t)' = ShapesOf(t)
    BY <1>2 DEF ShapesOf
<1>7. [id \in RowsOf(t)' |-> rows'[id]] = [id \in RowsOf(t) |-> rows[id]]
    BY <1>2
<1>8. CandidatesOf(t)' = CandidatesOf(t)
    BY <1>2, ListKept
<1>9. r.ids[1] \in RowsOf(t) => rows'[r.ids[1]] = rows[r.ids[1]]
    BY <1>2
<1>10. QED
    BY <1>1, <1>2, <1>3, <1>5, <1>6, <1>7, <1>8, <1>9 DEF Solo

-----------------------------------------------------------------------------
(* What the handlers do: begin, go on, return.                             *)

\* The rows of trial u are what they were.
Same(u) == RowsOf(u)' = RowsOf(u) /\ \A id \in RowsOf(u) : rows'[id] = rows[id]

\* A step of h on trial t.  A request that met no other one, and has still met
\* none, finds the rows of its trial as they were.
LEMMA StepKeeps ==
    ASSUME IInv, NEW t, Kept(t), NEW h \in Handlers, NEW r,
           req' = [req EXCEPT ![h] = r], Meetings',
           \A g \in Handlers \ {h} : req[g] # Idle /\ g \notin overlapped' =>
               g \notin overlapped /\ \A u : u = req[g].trial => Same(u),
           r # Idle => Typed(r) /\ Holds(r)',
           r # Idle /\ h \notin overlapped' => Solo(r)'
    PROVE  IInv'
<1>1. DOMAIN req' = Handlers /\ req'[h] = r /\ \A g \in Handlers \ {h} : req'[g] = req[g]
    BY DEF IInv, Requests
<1>2. ASSUME NEW g \in Handlers, req'[g] # Idle
      PROVE  /\ Typed(req'[g])
             /\ \A q : q = req'[g] => Holds(q)'
             /\ g \notin overlapped' => \A q : q = req'[g] => Solo(q)'
    <2>1. CASE g = h
        BY <1>1, <1>2, <2>1
    <2>2. CASE g # h
        <3>1. PICK q : q = req[g]
            OBVIOUS
        <3>2. req'[g] = q /\ q # Idle /\ Typed(q) /\ Holds(q)
            BY <1>1, <1>2, <2>2, <3>1 DEF IInv, Requests
        <3>3. Holds(q)'
            BY <3>2, HoldsKept
        <3>4. ASSUME g \notin overlapped'
              PROVE  Solo(q)'
            <4>1. Solo(q) /\ Same(q.trial)
                BY <1>1, <1>2, <2>2, <3>1, <3>4 DEF IInv, Requests
            <4>2. QED
                BY <4>1, SoloKept DEF IInv, Same
        <3>5. QED
            BY <3>2, <3>3, <3>4
    <2>3. QED
        BY <2>1, <2>2
<1>3. Requests'
    BY <1>1, <1>2 DEF Requests
<1>4. QED
    BY <1>3 DEF IInv, Kept

LEMMA UnchangedSame ==
    ASSUME NEW u, UNCHANGED rows
    PROVE  Same(u)
BY DEF Same, RowsOf, Stored

LEMMA BeginKeeps ==
    ASSUME IInv, UNCHANGED <<rows, drawn>>, NEW h \in Handlers, NEW t, NEW r,
           Begin(h, t, r), r.trial = t, Typed(r), Holds(r), Solo(r)
    PROVE  IInv' /\ req'[h] = r /\ h \notin overlapped
<1>1. req[h] = Idle /\ req' = [req EXCEPT ![h] = r] /\ overlapped \subseteq overlapped'
    BY DEF Begin
<1>2. DOMAIN req' = Handlers /\ req'[h] = r /\ \A g \in Handlers \ {h} : req'[g] = req[g]
    BY <1>1 DEF IInv, Requests
<1>3. Meetings'
    <2> DEFINE met == {g \in Handlers \ {h} : req[g] # Idle /\ req[g].trial = t}
    <2>1. overlapped' = IF met = {} THEN overlapped ELSE overlapped \cup met \cup {h}
        BY DEF Begin
    <2>2. r # Idle
        BY DEF Typed
    <2>3. overlapped' \subseteq {g \in Handlers : req'[g] # Idle}
        BY <1>1, <1>2, <2>1, <2>2 DEF IInv, Meetings
    <2>4. ASSUME NEW f \in Handlers, NEW g \in Handlers, f # g,
                 req'[f] # Idle, req'[g] # Idle, req'[f].trial = req'[g].trial
          PROVE  f \in overlapped'
        <3>1. CASE f # h /\ g # h
            BY <1>1, <1>2, <2>4, <3>1 DEF IInv, Meetings
        <3>2. CASE f = h
            <4>1. g \in met
                BY <1>2, <2>4, <3>2
            <4>2. QED
                BY <2>1, <3>2, <4>1
        <3>3. CASE g = h
            <4>1. f \in met
                BY <1>2, <2>4, <3>3
            <4>2. QED
                BY <2>1, <4>1
        <3>4. QED
            BY <3>1, <3>2, <3>3
    <2>5. QED
        BY <2>3, <2>4 DEF Meetings
<1>4. Kept(t)
    BY UnchangedKept DEF IInv
<1>5. Holds(r)'
    BY <1>4, HoldsKept
<1>6. Same(r.trial)
    BY UnchangedSame
<1>7. Solo(r)'
    BY <1>6, SoloKept DEF IInv, Same
<1>8. \A g \in Handlers \ {h} : req[g] # Idle /\ g \notin overlapped' =>
          g \notin overlapped /\ \A u : u = req[g].trial => Same(u)
    BY <1>1, UnchangedSame
<1>9. IInv'
    BY <1>1, <1>3, <1>4, <1>5, <1>7, <1>8, StepKeeps
<1>10. QED
    BY <1>1, <1>2, <1>9 DEF IInv, Meetings

\* A step on its trial does not touch the rows of requests that did not meet it.
LEMMA OthersSame ==
    ASSUME IInv, NEW t, Kept(t), NEW h \in Handlers, req[h] # Idle, t = req[h].trial,
           NEW g \in Handlers \ {h}, req[g] # Idle, g \notin overlapped,
           NEW u, u = req[g].trial
    PROVE  Same(u)
<1>1. u # t
    BY DEF IInv, Meetings
<1>2. QED
    BY <1>1 DEF Kept, Same

LEMMA ContinueKeeps ==
    ASSUME IInv, NEW t, Kept(t), NEW h \in Handlers, req[h] # Idle, t = req[h].trial,
           NEW r, Continue(h, r), r.trial = t, Typed(r), Holds(r)',
           h \notin overlapped => Solo(r)'
    PROVE  IInv'
<1>1. req' = [req EXCEPT ![h] = r] /\ overlapped' = overlapped
    BY DEF Continue
<1>2. DOMAIN req' = Handlers /\ req'[h] = r /\ \A g \in Handlers \ {h} : req'[g] = req[g]
    BY <1>1 DEF IInv, Requests
<1>3. r # Idle
    BY DEF Typed
<1>4. Meetings'
    BY <1>1, <1>2, <1>3 DEF IInv, Meetings
<1>5. \A g \in Handlers \ {h} : req[g] # Idle /\ g \notin overlapped' =>
          g \notin overlapped /\ \A u : u = req[g].trial => Same(u)
    BY <1>1, OthersSame
<1>6. QED
    BY <1>1, <1>4, <1>5, StepKeeps

LEMMA ReturnKeeps ==
    ASSUME IInv, NEW t, Kept(t), NEW h \in Handlers, req[h] # Idle, t = req[h].trial,
           Return(h)
    PROVE  IInv'
<1>1. req' = [req EXCEPT ![h] = Idle] /\ overlapped' = overlapped \ {h}
    BY DEF Return
<1>2. DOMAIN req' = Handlers /\ req'[h] = Idle /\ \A g \in Handlers \ {h} : req'[g] = req[g]
    BY <1>1 DEF IInv, Requests
<1>3. Meetings'
    BY <1>1, <1>2 DEF IInv, Meetings
<1>4. \A g \in Handlers \ {h} : req[g] # Idle /\ g \notin overlapped' =>
          g \notin overlapped /\ \A u : u = req[g].trial => Same(u)
    BY <1>1, OthersSame
<1>5. QED
    BY <1>1, <1>3, <1>4, StepKeeps

-----------------------------------------------------------------------------
(* Clustering.                                                             *)

LEMMA PulsesKeep ==
    ASSUME IInv, NEW h \in Handlers, NEW t \in Trials, NEW s \in Spectra,
           ClusterPulses(h, t, s)
    PROVE  IInv'
<1>1. PICK r : r = [pc |-> "listOld", trial |-> t, new |-> Extract(s)]
    OBVIOUS
<1>2. r.pc = "listOld" /\ r.trial = t /\ r.new = Extract(s)
    BY <1>1
<1>3. r.new \in Seq(Shapes) /\ r.new # << >>
    BY <1>2, ExtractType, ClusterAssumption DEF ClusterPulses
<1>4. r # Idle
    BY <1>2 DEF Idle
<1>5. Typed(r)
    BY <1>2, <1>3, <1>4 DEF Typed, ClusterPcs, MergePcs
<1>6. Holds(r) /\ Solo(r)
    BY <1>2 DEF Holds, Solo, MergePcs
<1>7. Begin(h, t, r) /\ UNCHANGED <<rows, drawn>>
    BY <1>1 DEF ClusterPulses
<1>8. QED
    BY <1>2, <1>5, <1>6, <1>7, BeginKeeps

LEMMA ListOldKeeps ==
    ASSUME IInv, NEW h \in Handlers, ClusterListOld(h)
    PROVE  IInv'
<1>1. PICK t : t = req[h].trial
    OBVIOUS
<1>2. PICK r : r = [pc |-> "deleteOld", trial |-> req[h].trial, new |-> req[h].new,
                    status |-> NewStatus(req[h].trial, req[h].new)]
    OBVIOUS
<1>3. /\ r.pc = "deleteOld" /\ r.trial = t /\ r.new = req[h].new
      /\ r.status = NewStatus(req[h].trial, req[h].new)
    BY <1>1, <1>2
<1>4. req[h].pc = "listOld" /\ Idle.pc = "idle"
    BY DEF ClusterListOld, Idle
<1>5. Typed(req[h])
    BY <1>4 DEF IInv, Requests
<1>6. r # Idle /\ r.status \in {"stable", "conflict"}
    BY <1>3, <1>4 DEF NewStatus
<1>7. Typed(r)
    BY <1>1, <1>3, <1>4, <1>5, <1>6 DEF Typed, ClusterPcs, MergePcs
<1>8. Holds(r)' /\ Solo(r)'
    BY <1>3 DEF Holds, Solo, MergePcs
<1>9. Kept(t) /\ Continue(h, r)
    BY <1>2, UnchangedKept DEF ClusterListOld, IInv
<1>10. QED
    BY <1>1, <1>3, <1>4, <1>7, <1>8, <1>9, ContinueKeeps

LEMMA DeleteKeeps ==
    ASSUME IInv, NEW h \in Handlers, ClusterDelete(h)
    PROVE  IInv'
<1>1. PICK t : t = req[h].trial
    OBVIOUS
<1>2. PICK r : r = [pc |-> "insertNew", trial |-> t, new |-> req[h].new,
                    status |-> req[h].status, next |-> 1]
    OBVIOUS
<1>3. /\ r.pc = "insertNew" /\ r.trial = t /\ r.new = req[h].new
      /\ r.status = req[h].status /\ r.next = 1 /\ Inserting(r)
    BY <1>2 DEF Inserting
<1>4. req[h].pc = "deleteOld" /\ Idle.pc = "idle"
    BY DEF ClusterDelete, Idle
<1>5. Typed(req[h])
    BY <1>4 DEF IInv, Requests
<1>6. r # Idle /\ Len(r.new) \in Nat \ {0}
    BY <1>3, <1>4, <1>5 DEF Typed, ClusterPcs
<1>7. Typed(r)
    BY <1>1, <1>3, <1>4, <1>5, <1>6 DEF Typed, ClusterPcs, MergePcs
<1>8. Kept(t) /\ RowsOf(t)' = {}
    BY <1>1, DeleteKept DEF IInv
<1>9. Solo(r)'
    <2>1. Cardinality(RowsOf(t)') = 0 /\ ShapesOf(t)' = {}
        BY <1>8, FS_EmptySet DEF ShapesOf
    <2>2. {r.new[k] : k \in 1 .. r.next - 1} = {}
        BY <1>3
    <2>3. QED
        BY <1>3, <2>1, <2>2 DEF Solo
<1>10. Holds(r)' /\ Continue(h, r)
    BY <1>1, <1>2, <1>3 DEF Holds, MergePcs, ClusterDelete
<1>11. QED
    BY <1>1, <1>3, <1>4, <1>7, <1>8, <1>9, <1>10, ContinueKeeps

\* The rows of a solo clustering, after one more insert.
LEMMA InsertAdds ==
    ASSUME IInv, NEW h \in Handlers, ClusterInsert(h), NEW t, t = req[h].trial,
           NEW q, q = req[h]
    PROVE  /\ Kept(t) /\ req[h].pc = "insertNew" /\ Typed(q)
           /\ h \notin overlapped =>
                 /\ Cardinality(RowsOf(t)') = q.next
                 /\ ShapesOf(t)' = {q.new[k] : k \in 1 .. q.next}
<1> DEFINE row == [trial |-> q.trial, shape |-> q.new[q.next], status |-> q.status]
<1>1. q.pc = "insertNew" /\ Insert(row) /\ Idle.pc = "idle"
    BY DEF ClusterInsert, Idle
<1>2. Typed(q)
    BY <1>1 DEF IInv, Requests
<1>3. q.new \in Seq(Shapes) /\ q.next \in 1 .. Len(q.new) /\ q.trial = t /\ t \in Trials
      /\ q.status \in {"stable", "conflict"}
    BY <1>1, <1>2 DEF Typed, ClusterPcs
<1>4. row \in ClusterRows
    BY <1>3 DEF ClusterRows, Statuses
<1>5. row.trial = t /\ row.shape = q.new[q.next]
    BY <1>3
<1> HIDE DEF row
<1>6. PICK id \in Ids \ drawn :
          /\ RowsOf(t)' = RowsOf(t) \cup {id}
          /\ id \notin RowsOf(t)
          /\ rows'[id] = row
          /\ \A i \in RowsOf(t) : rows'[i] = rows[i]
    BY <1>1, <1>4, <1>5, InsertKept DEF IInv
<1>7. Kept(t)
    BY <1>1, <1>4, <1>5, InsertKept DEF IInv
<1>8. ASSUME h \notin overlapped
      PROVE  /\ Cardinality(RowsOf(t)') = q.next
             /\ ShapesOf(t)' = {q.new[k] : k \in 1 .. q.next}
    <2>1. Solo(q)
        BY <1>1, <1>8 DEF IInv, Requests
    <2>2. /\ Cardinality(RowsOf(t)) = q.next - 1
          /\ ShapesOf(t) = {q.new[k] : k \in 1 .. q.next - 1}
        BY <1>1, <1>3, <2>1 DEF Solo
    <2>3. Cardinality(RowsOf(t)') = Cardinality(RowsOf(t)) + 1
        BY <1>6, RowsOfFinite, FS_AddElement DEF IInv
    <2>4. ShapesOf(t)' = ShapesOf(t) \cup {q.new[q.next]}
        BY <1>5, <1>6 DEF ShapesOf
    <2>5. 1 .. q.next = (1 .. q.next - 1) \cup {q.next} /\ q.next \in Int
        BY <1>3
    <2>6. {q.new[k] : k \in 1 .. q.next} = {q.new[k] : k \in 1 .. q.next - 1} \cup {q.new[q.next]}
        BY <2>5
    <2>7. QED
        BY <2>2, <2>3, <2>4, <2>5, <2>6
<1>9. QED
    BY <1>1, <1>2, <1>7, <1>8

LEMMA ClusterInsertKeeps ==
    ASSUME IInv, NEW h \in Handlers, ClusterInsert(h)
    PROVE  IInv'
<1>1. PICK t : t = req[h].trial
    OBVIOUS
<1>2. PICK q : q = req[h]
    OBVIOUS
<1>3. /\ Kept(t) /\ req[h].pc = "insertNew" /\ Typed(q)
      /\ h \notin overlapped => /\ Cardinality(RowsOf(t)') = q.next
                                /\ ShapesOf(t)' = {q.new[k] : k \in 1 .. q.next}
    BY <1>1, <1>2, InsertAdds
<1>4. req[h] # Idle
    BY <1>3 DEF Idle
<1>5. CASE Return(h)
    BY <1>1, <1>3, <1>4, <1>5, ReturnKeeps
<1>6. CASE q.next # Len(q.new) /\ Continue(h, [q EXCEPT !.next = @ + 1])
    <2>1. PICK r : r = [q EXCEPT !.next = @ + 1]
        OBVIOUS
    <2>2. Inserting(q) /\ q.new \in Seq(Shapes) /\ q.next \in 1 .. Len(q.new)
          /\ q.status \in {"stable", "conflict"} /\ q.trial \in Trials /\ Len(q.new) \in Nat
        BY <1>2, <1>3 DEF Typed, ClusterPcs
    <2>3. /\ r.pc = "insertNew" /\ r.trial = q.trial /\ r.new = q.new
          /\ r.status = q.status /\ r.next = q.next + 1 /\ Inserting(r)
        BY <1>2, <1>3, <2>1, <2>2 DEF Inserting
    <2>4. Typed(r)
        <3>1. r.next \in 1 .. Len(r.new) /\ r.new # << >>
            BY <1>6, <2>2, <2>3
        <3>2. r # Idle
            BY <2>3 DEF Idle
        <3>3. QED
            BY <2>2, <2>3, <3>1, <3>2 DEF Typed, ClusterPcs, MergePcs
    <2>5. Holds(r)'
        BY <2>3 DEF Holds, MergePcs
    <2>6. ASSUME h \notin overlapped
          PROVE  Solo(r)'
        <3>1. r.next - 1 = q.next
            BY <2>2, <2>3
        <3>2. Cardinality(RowsOf(t)') = r.next - 1
              /\ ShapesOf(t)' = {r.new[k] : k \in 1 .. r.next - 1}
            BY <1>3, <2>3, <2>6, <3>1
        <3>3. r.trial = t
            BY <1>1, <1>2, <2>3
        <3>4. QED
            BY <2>3, <3>2, <3>3 DEF Solo
    <2>7. Continue(h, r) /\ r.trial = t
        BY <1>1, <1>2, <1>6, <2>1, <2>3
    <2>8. QED
        BY <1>1, <1>3, <1>4, <2>4, <2>5, <2>6, <2>7, ContinueKeeps
<1>7. QED
    BY <1>2, <1>5, <1>6 DEF ClusterInsert

-----------------------------------------------------------------------------
(* Live pulses.                                                            *)

LEMMA ShapeIs ==
    ASSUME Table, NEW id \in Stored
    PROVE  /\ rows[id] \in ClusterRows /\ rows[id].trial \in Trials
           /\ rows[id].shape \in Shapes
           /\ rows[id].shape.count \in Nat
           /\ id \in drawn
<1>1. rows[id] \in ClusterRows /\ id \in drawn
    BY DEF Table
<1>2. rows[id].shape \in Shapes /\ rows[id].trial \in Trials
    BY <1>1 DEF ClusterRows
<1>3. \A s \in Shapes : s.count \in Nat
    BY DEF Shapes
<1>4. QED
    BY <1>1, <1>2, <1>3

LEMMA LivePulsesNat ==
    ASSUME Table, NEW t
    PROVE  LivePulses(t) \in Nat
<1> DEFINE f == [id \in Live(t) |-> rows[id].shape.count]
<1>1. \A id \in Live(t) : f[id] \in Nat
    BY ShapeIs DEF Live, RowsOf
<1>2. IsFiniteSet(Live(t))
    BY RowsOfFinite
<1>3. LivePulses(t) = SumFunctionOnSet(f, Live(t))
    BY LivePulsesIs
<1> HIDE DEF f
<1>4. QED
    BY <1>1, <1>2, <1>3, SumNat

\* A live row more, and the others keep their shape.
LEMMA LivePulsesGrow ==
    ASSUME Table, Table', NEW t, NEW id, id \notin Live(t), Live(t)' = Live(t) \cup {id},
           \A i \in Live(t) : rows'[i].shape = rows[i].shape
    PROVE  LivePulses(t)' = LivePulses(t) + rows'[id].shape.count
<1> DEFINE S == Live(t)
           f == [i \in S |-> rows[i].shape.count]
           g == [i \in S \cup {id} |-> rows'[i].shape.count]
<1>1. LivePulses(t) = SumFunctionOnSet(f, S)
    BY LivePulsesIs
<1>2. LivePulses(t)' = SumFunctionOnSet(g, S \cup {id})
    <2>1. LivePulses(t)' = SumFunctionOnSet([i \in Live(t)' |-> rows'[i].shape.count], Live(t)')
        BY DEF LivePulses, Live, SumFunction
    <2>2. QED
        BY <2>1
<1>3. \A i \in S : f[i] = g[i] /\ f[i] \in Int
    BY ShapeIs DEF Live, RowsOf
<1>4. g[id] = rows'[id].shape.count
    OBVIOUS
<1>5. g[id] \in Int
    <2>1. id \in Stored'
        BY DEF Live, RowsOf
    <2>2. rows'[id] \in ClusterRows
        BY <2>1 DEF Table
    <2>3. rows'[id].shape \in Shapes
        BY <2>2 DEF ClusterRows
    <2>4. \A s \in Shapes : s.count \in Int
        BY DEF Shapes
    <2>5. QED
        BY <1>4, <2>3, <2>4
<1>6. IsFiniteSet(S)
    BY RowsOfFinite
<1>7. id \notin S
    OBVIOUS
<1> HIDE DEF S, f, g
<1>8. QED
    BY <1>1, <1>2, <1>3, <1>4, <1>5, <1>6, <1>7, SumWith

\* A live row less.
LEMMA LivePulsesShrink ==
    ASSUME Table, NEW t, NEW id \in Live(t), Live(t)' = Live(t) \ {id},
           \A i \in Live(t) \ {id} : rows'[i] = rows[i]
    PROVE  LivePulses(t) = rows[id].shape.count + LivePulses(t)' /\ LivePulses(t)' \in Nat
<1> DEFINE S == Live(t)
           f == [i \in S |-> rows[i].shape.count]
           g == [i \in S \ {id} |-> rows'[i].shape.count]
<1>1. LivePulses(t) = SumFunctionOnSet(f, S)
    BY LivePulsesIs
<1>2. LivePulses(t)' = SumFunctionOnSet(g, S \ {id})
    <2>1. LivePulses(t)' = SumFunctionOnSet([i \in Live(t)' |-> rows'[i].shape.count], Live(t)')
        BY DEF LivePulses, Live, SumFunction
    <2>2. QED
        BY <2>1
<1>3. \A i \in S : f[i] \in Nat /\ f[i] \in Int
    BY ShapeIs DEF Live, RowsOf
<1>4. \A i \in S \ {id} : f[i] = g[i]
    OBVIOUS
<1>5. IsFiniteSet(S) /\ IsFiniteSet(S \ {id}) /\ id \in S
    BY RowsOfFinite, FS_Subset
<1>6. f[id] = rows[id].shape.count
    OBVIOUS
<1> HIDE DEF S, f, g
<1>7. SumFunctionOnSet(f, S) = f[id] + SumFunctionOnSet(f, S \ {id})
    BY <1>3, <1>5, SumWithout
<1>8. SumFunctionOnSet(f, S \ {id}) = SumFunctionOnSet(g, S \ {id})
      /\ SumFunctionOnSet(f, S \ {id}) \in Nat
    BY <1>3, <1>4, <1>5, SumSame, SumNat
<1>9. QED
    BY <1>1, <1>2, <1>6, <1>7, <1>8

-----------------------------------------------------------------------------
(* Merges.                                                                 *)

LEMMA GetAKeeps ==
    ASSUME IInv, NEW h \in Handlers, NEW a, NEW b, MergeGetA(h, a, b)
    PROVE  IInv'
<1>1. PICK t : t = rows[a].trial
    OBVIOUS
<1>2. PICK r : r = [pc |-> "getB", trial |-> t, ids |-> <<a, b>>, seenA |-> rows[a],
                    before |-> LivePulses(t)]
    OBVIOUS
<1>3. /\ r.pc = "getB" /\ r.trial = t /\ r.ids[1] = a /\ r.seenA = rows[a]
      /\ r.before = LivePulses(t)
    BY <1>2
<1>4. /\ rows[a] \in ClusterRows /\ t \in Trials /\ a \in drawn
      /\ a \in RowsOf(t)
    BY <1>1, ShapeIs DEF MergeGetA, IInv, RowsOf
<1>5. r # Idle
    BY <1>3 DEF Idle
<1>6. Typed(r)
    BY <1>3, <1>4, <1>5 DEF Typed, ClusterPcs, MergePcs
<1>7. Holds(r)
    BY <1>1, <1>3, <1>4 DEF Holds, Known, MergePcs
<1>8. Solo(r)
    BY <1>3, <1>4 DEF Solo
<1>9. Begin(h, t, r) /\ UNCHANGED <<rows, drawn>>
    BY <1>1, <1>2 DEF MergeGetA
<1>10. QED
    BY <1>3, <1>6, <1>7, <1>8, <1>9, BeginKeeps

LEMMA GetBKeeps ==
    ASSUME IInv, NEW h \in Handlers, MergeGetB(h)
    PROVE  IInv'
<1>1. PICK t : t = req[h].trial
    OBVIOUS
<1>2. PICK q : q = req[h]
    OBVIOUS
<1>3. q.pc = "getB" /\ q # Idle /\ Typed(q) /\ Holds(q)
    BY <1>2 DEF MergeGetB, Idle, IInv, Requests
<1>4. Kept(t) /\ UNCHANGED <<rows, drawn>>
    BY UnchangedKept DEF MergeGetB, IInv
<1>5. CASE Return(h)
    BY <1>1, <1>2, <1>3, <1>4, <1>5, ReturnKeeps
<1>6. ASSUME NEW b, b = q.ids[2], b \in RowsOf(t),
             NEW r, r = [pc |-> "insertMerged", trial |-> t, ids |-> q.ids,
                         seen |-> <<q.seenA.shape, rows[b].shape>>, before |-> q.before,
                         live |-> "rejected" \notin {q.seenA.status, rows[b].status}],
             Continue(h, r)
      PROVE  IInv'
    <2>1. /\ r.pc = "insertMerged" /\ r.trial = t /\ r.ids = q.ids
          /\ r.seen[1] = q.seenA.shape /\ r.seen[2] = rows[b].shape
          /\ r.before = q.before /\ Merging(r)
          /\ r.live => q.seenA.status # "rejected" /\ rows[b].status # "rejected"
        BY <1>6 DEF Merging
    <2>2. b \in Stored /\ rows[b].trial = t
        BY <1>6 DEF RowsOf
    <2>3. b \in drawn /\ rows[b].shape \in Shapes
        BY <2>2, ShapeIs DEF IInv
    <2>4. q.seenA.shape \in Shapes /\ t \in Trials
        BY <1>1, <1>2, <1>3 DEF Typed, ClusterRows
    <2>5. r # Idle
        BY <2>1 DEF Idle
    <2>6. Typed(r)
        BY <2>1, <2>3, <2>4, <2>5 DEF Typed, ClusterPcs, MergePcs
    <2>7. Known(q.ids[1], t, q.seenA.shape)
        BY <1>1, <1>2, <1>3 DEF Holds
    <2>8. Known(b, t, rows[b].shape)
        BY <2>2, <2>3 DEF Known
    <2>9. Holds(r)
        BY <1>6, <2>1, <2>7, <2>8 DEF Holds, MergePcs
    <2>10. ASSUME h \notin overlapped
           PROVE  Solo(r)'
        <3>1. Solo(q)
            BY <1>2, <1>3, <2>10 DEF IInv, Requests
        <3>2. /\ q.before = LivePulses(t) /\ q.ids[1] \in RowsOf(t)
              /\ rows[q.ids[1]] = q.seenA
            BY <1>1, <1>2, <1>3, <3>1 DEF Solo
        <3>3. Solo(r)
            BY <1>6, <2>1, <3>2 DEF Solo, Live
        <3>4. QED
            BY <1>4, <3>3, UnchangedSame, SoloKept DEF Same, IInv
    <2>11. QED
        BY <1>1, <1>2, <1>3, <1>4, <1>6, <2>1, <2>6, <2>9, <2>10, HoldsKept, ContinueKeeps
<1>7. QED
    BY <1>1, <1>2, <1>5, <1>6 DEF MergeGetB

\* A merge that has read both of its sources.
LEMMA MergeHolds ==
    ASSUME IInv, NEW h \in Handlers, NEW q, q = req[h], q.pc \in MergePcs
    PROVE  /\ q # Idle /\ Typed(q) /\ Holds(q) /\ Merging(q)
           /\ q.trial \in Trials
           /\ q.seen[1] \in Shapes /\ q.seen[2] \in Shapes
           /\ Known(q.ids[1], q.trial, q.seen[1]) /\ Known(q.ids[2], q.trial, q.seen[2])
           /\ h \notin overlapped => Solo(q)
<1>1. q # Idle
    BY DEF Idle, MergePcs
<1>2. Typed(q) /\ Holds(q) /\ (h \notin overlapped => Solo(q))
    BY <1>1 DEF IInv, Requests
<1>3. QED
    BY <1>1, <1>2 DEF Typed, Holds

\* It goes on to its next write.
LEMMA NextWriteKeeps ==
    ASSUME IInv, NEW h \in Handlers, NEW q, q = req[h], q.pc \in MergePcs,
           NEW pc \in MergePcs, NEW r, r = [q EXCEPT !.pc = pc], Continue(h, r),
           Kept(q.trial), h \notin overlapped => Solo(r)'
    PROVE  IInv'
<1>1. /\ q # Idle /\ Typed(q) /\ Holds(q) /\ Merging(q)
      /\ q.trial \in Trials
      /\ q.seen[1] \in Shapes /\ q.seen[2] \in Shapes
      /\ Known(q.ids[1], q.trial, q.seen[1]) /\ Known(q.ids[2], q.trial, q.seen[2])
    BY MergeHolds
<1>2. Merging(r) /\ r.pc = pc /\ r.trial = q.trial /\ r.ids = q.ids /\ r.seen = q.seen
    BY <1>1 DEF Merging
<1>3. r # Idle
    BY <1>2 DEF Idle, MergePcs
<1>4. Typed(r)
    BY <1>1, <1>2, <1>3 DEF Typed, ClusterPcs, MergePcs
<1>5. Holds(r)
    BY <1>1, <1>2 DEF Holds, MergePcs
<1>6. q.trial = req[h].trial /\ req[h] # Idle
    BY <1>1
<1>7. QED
    BY <1>2, <1>4, <1>5, <1>6, HoldsKept, ContinueKeeps

LEMMA MergeInsertKeeps ==
    ASSUME IInv, NEW h \in Handlers, MergeInsert(h)
    PROVE  IInv'
<1>1. PICK q : q = req[h]
    OBVIOUS
<1>2. PICK t : t = q.trial
    OBVIOUS
<1>3. q.pc = "insertMerged" /\ q.pc \in MergePcs
    BY <1>1 DEF MergeInsert, MergePcs
<1>4. /\ q # Idle /\ Typed(q) /\ Holds(q) /\ Merging(q)
      /\ q.trial \in Trials
      /\ q.seen[1] \in Shapes /\ q.seen[2] \in Shapes
      /\ Known(q.ids[1], q.trial, q.seen[1]) /\ Known(q.ids[2], q.trial, q.seen[2])
      /\ h \notin overlapped => Solo(q)
    BY <1>1, <1>3, MergeHolds
<1>5. PICK row : row = [trial |-> t, shape |-> Merge(q.seen[1], q.seen[2]), status |-> "candidate"]
    OBVIOUS
<1>6. row \in ClusterRows /\ row.trial = t /\ row.status = "candidate"
      /\ row.shape.count = q.seen[1].count + q.seen[2].count
    BY <1>2, <1>4, <1>5, MergeType DEF ClusterRows, Statuses
<1>7. Insert(row)
    BY <1>1, <1>2, <1>5 DEF MergeInsert
<1>8. PICK id \in Ids \ drawn :
          /\ RowsOf(t)' = RowsOf(t) \cup {id}
          /\ id \notin RowsOf(t)
          /\ rows'[id] = row
          /\ \A i \in RowsOf(t) : rows'[i] = rows[i]
    BY <1>6, <1>7, InsertKept DEF IInv
<1>9. Kept(t)
    BY <1>6, <1>7, InsertKept DEF IInv
<1>10. PICK r : r = [q EXCEPT !.pc = "rejectA"]
    OBVIOUS
<1>11. /\ r.pc = "rejectA" /\ r.trial = t /\ r.ids = q.ids /\ r.seen = q.seen
       /\ r.before = q.before /\ r.live = q.live
    BY <1>2, <1>4, <1>10 DEF Merging
<1>12. ASSUME h \notin overlapped
       PROVE  Solo(r)'
    <2>1. /\ q.before = LivePulses(t)
          /\ q.live => q.ids[1] \in Live(t) /\ q.ids[2] \in Live(t)
        BY <1>2, <1>3, <1>4, <1>12 DEF Solo
    <2>2. Live(t)' = Live(t) \cup {id} /\ id \notin Live(t)
        BY <1>6, <1>8 DEF Live
    <2>3. \A i \in Live(t) : rows'[i].shape = rows[i].shape
        BY <1>8 DEF Live
    <2>4. Table /\ Table'
        BY <1>9 DEF IInv, Kept
    <2>5. LivePulses(t)' = LivePulses(t) + rows'[id].shape.count
        BY <2>2, <2>3, <2>4, LivePulsesGrow
    <2>6. LivePulses(t) \in Nat
        BY <2>4, LivePulsesNat
    <2>7. LivePulses(t)' = r.before + (r.seen[1].count + r.seen[2].count)
        BY <1>6, <1>8, <1>11, <2>1, <2>5
    <2>8. QED
        BY <1>11, <2>1, <2>2, <2>6, <2>7 DEF Solo
<1>13. Continue(h, r)
    BY <1>1, <1>10 DEF MergeInsert
<1>14. "rejectA" \in MergePcs
    BY DEF MergePcs
<1>15. QED
    BY <1>1, <1>2, <1>3, <1>9, <1>10, <1>12, <1>13, <1>14, NextWriteKeeps

\* The rejection of a live source takes its pulses away.
LEMMA RejectShrinks ==
    ASSUME Table, NEW id, NEW t, NEW shape, Known(id, t, shape), id \in Live(t),
           UpdateStatus(id, "rejected"), UNCHANGED drawn
    PROVE  /\ Live(t)' = Live(t) \ {id}
           /\ shape \in Shapes
           /\ LivePulses(t) = shape.count + LivePulses(t)' /\ LivePulses(t)' \in Nat
<1>1. id \in Stored /\ rows[id].shape = shape /\ shape \in Shapes
    BY ShapeIs DEF Known, Live, RowsOf
<1>2. /\ RowsOf(t)' = RowsOf(t)
      /\ \A i \in Stored \ {id} : rows'[i] = rows[i]
      /\ rows'[id].status = "rejected"
    BY <1>1, UpdateKept DEF Statuses
<1>3. Live(t)' = Live(t) \ {id} /\ \A i \in Live(t) \ {id} : rows'[i] = rows[i]
    BY <1>2 DEF Live, RowsOf
<1>4. LivePulses(t) = rows[id].shape.count + LivePulses(t)' /\ LivePulses(t)' \in Nat
    BY <1>3, LivePulsesShrink
<1>5. QED
    BY <1>1, <1>3, <1>4

LEMMA RejectAKeeps ==
    ASSUME IInv, NEW h \in Handlers, MergeRejectA(h)
    PROVE  IInv'
<1>1. PICK q : q = req[h]
    OBVIOUS
<1>2. PICK t : t = q.trial
    OBVIOUS
<1>3. q.pc = "rejectA" /\ q.pc \in MergePcs
    BY <1>1 DEF MergeRejectA, MergePcs
<1>4. /\ q # Idle /\ Merging(q)
      /\ q.seen[1] \in Shapes /\ q.seen[2] \in Shapes
      /\ Known(q.ids[1], t, q.seen[1]) /\ Known(q.ids[2], t, q.seen[2])
      /\ h \notin overlapped => Solo(q)
    BY <1>1, <1>2, <1>3, MergeHolds
<1>5. UpdateStatus(q.ids[1], "rejected") /\ UNCHANGED drawn
    BY <1>1 DEF MergeRejectA
<1>6. Kept(t)
    BY <1>4, <1>5, UpdateKept DEF IInv, Statuses
<1>7. CASE Return(h)
    BY <1>1, <1>2, <1>4, <1>6, <1>7, ReturnKeeps
<1>8. CASE Continue(h, [q EXCEPT !.pc = "rejectB"])
    <2>1. PICK r : r = [q EXCEPT !.pc = "rejectB"]
        OBVIOUS
    <2>2. /\ r.pc = "rejectB" /\ r.trial = t /\ r.ids = q.ids /\ r.seen = q.seen
          /\ r.before = q.before /\ r.live = q.live
        BY <1>2, <1>4, <2>1 DEF Merging
    <2>3. ASSUME h \notin overlapped
          PROVE  Solo(r)'
        <3>1. ASSUME q.live, q.ids[1] # q.ids[2]
              PROVE  /\ q.ids[2] \in Live(t)'
                     /\ LivePulses(t)' = q.before + q.seen[2].count
                     /\ q.before \in Nat
            <4>1. /\ q.ids[1] \in Live(t) /\ q.ids[2] \in Live(t)
                  /\ LivePulses(t) = q.before + (q.seen[1].count + q.seen[2].count)
                  /\ q.before \in Nat
                BY <1>2, <1>3, <1>4, <2>3, <3>1 DEF Solo
            <4>2. Live(t)' = Live(t) \ {q.ids[1]}
                  /\ LivePulses(t) = q.seen[1].count + LivePulses(t)' /\ LivePulses(t)' \in Nat
                BY <1>4, <1>5, <4>1, RejectShrinks DEF IInv
            <4>3. q.seen[1].count \in Nat /\ q.seen[2].count \in Nat
                BY <1>4 DEF Shapes
            <4>4. QED
                BY <3>1, <4>1, <4>2, <4>3
        <3>2. QED
            BY <2>2, <3>1 DEF Solo
    <2>4. "rejectB" \in MergePcs
        BY DEF MergePcs
    <2>5. QED
        BY <1>1, <1>2, <1>3, <1>6, <1>8, <2>1, <2>3, <2>4, NextWriteKeeps
<1>9. QED
    BY <1>1, <1>7, <1>8 DEF MergeRejectA

LEMMA RejectBKeeps ==
    ASSUME IInv, NEW h \in Handlers, MergeRejectB(h), NEW q, q = req[h],
           NEW t, t = q.trial
    PROVE  /\ IInv'
           /\ h \notin overlapped /\ q.live /\ q.ids[1] # q.ids[2] => LivePulses(t)' = q.before
<1>1. q.pc = "rejectB" /\ q.pc \in MergePcs
    BY DEF MergeRejectB, MergePcs
<1>2. /\ q # Idle
      /\ q.seen[2] \in Shapes /\ Known(q.ids[2], t, q.seen[2])
      /\ h \notin overlapped => Solo(q)
    BY <1>1, MergeHolds
<1>3. UpdateStatus(q.ids[2], "rejected") /\ UNCHANGED drawn /\ Return(h)
    BY DEF MergeRejectB, SecondSource
<1>4. Kept(t)
    BY <1>2, <1>3, UpdateKept DEF IInv, Statuses
<1>5. IInv'
    BY <1>2, <1>3, <1>4, ReturnKeeps
<1>6. ASSUME h \notin overlapped, q.live, q.ids[1] # q.ids[2]
      PROVE  LivePulses(t)' = q.before
    <2>1. /\ q.ids[2] \in Live(t)
          /\ LivePulses(t) = q.before + q.seen[2].count
          /\ q.before \in Nat
        BY <1>1, <1>2, <1>6 DEF Solo
    <2>2. LivePulses(t) = q.seen[2].count + LivePulses(t)' /\ LivePulses(t)' \in Nat
        BY <1>2, <1>3, <2>1, RejectShrinks DEF IInv
    <2>3. q.seen[2].count \in Nat
        BY <1>2 DEF Shapes
    <2>4. QED
        BY <2>1, <2>2, <2>3
<1>7. QED
    BY <1>5, <1>6

-----------------------------------------------------------------------------
(* Verdicts, crashes and steps of nobody.                                  *)

LEMMA AdjudicateGetKeeps ==
    ASSUME IInv, NEW h \in Handlers, NEW id, NEW inInterference,
           AdjudicateGet(h, id, inInterference)
    PROVE  IInv'
<1>1. PICK t : t = rows[id].trial
    OBVIOUS
<1>2. PICK r : r = [pc |-> "setVerdict", trial |-> t, id |-> id, seen |-> rows[id].shape,
                    verdict |-> Decide(rows[id].shape, inInterference)]
    OBVIOUS
<1>3. /\ r.pc = "setVerdict" /\ r.trial = t /\ r.id = id /\ r.seen = rows[id].shape
      /\ r.verdict \in Statuses
    BY <1>2 DEF Decide, Statuses
<1>4. t \in Trials /\ id \in drawn
    BY <1>1, ShapeIs DEF AdjudicateGet, IInv
<1>5. r # Idle
    BY <1>3 DEF Idle
<1>6. Typed(r)
    BY <1>3, <1>4, <1>5 DEF Typed, ClusterPcs, MergePcs
<1>7. Holds(r) /\ Solo(r)
    BY <1>1, <1>3, <1>4 DEF Holds, Solo, Known, MergePcs
<1>8. Begin(h, t, r) /\ UNCHANGED <<rows, drawn>>
    BY <1>1, <1>2 DEF AdjudicateGet
<1>9. QED
    BY <1>3, <1>6, <1>7, <1>8, BeginKeeps

LEMMA AdjudicateSetKeeps ==
    ASSUME IInv, NEW h \in Handlers, AdjudicateSet(h)
    PROVE  IInv'
<1>1. PICK q : q = req[h]
    OBVIOUS
<1>2. q.pc = "setVerdict" /\ q # Idle
    BY <1>1 DEF AdjudicateSet, Idle
<1>3. Typed(q) /\ Holds(q)
    BY <1>1, <1>2 DEF IInv, Requests
<1>4. q.verdict \in Statuses /\ Known(q.id, q.trial, q.seen)
    BY <1>2, <1>3 DEF Typed, Holds
<1>5. UpdateStatus(q.id, q.verdict) /\ UNCHANGED drawn /\ Return(h)
    BY <1>1 DEF AdjudicateSet
<1>6. Kept(q.trial)
    BY <1>4, <1>5, UpdateKept DEF IInv
<1>7. QED
    BY <1>1, <1>2, <1>5, <1>6, ReturnKeeps

LEMMA CrashKeeps ==
    ASSUME IInv, Crash
    PROVE  IInv'
<1>1. Table'
    BY DEF IInv, Table, Stored, Crash
<1>2. DOMAIN req' = Handlers /\ \A h \in Handlers : req'[h] = Idle
    BY DEF Crash
<1>3. Meetings' /\ Requests'
    BY <1>2 DEF Meetings, Requests, Crash
<1>4. QED
    BY <1>1, <1>3 DEF IInv

LEMMA StutterKeeps ==
    ASSUME IInv, UNCHANGED vars
    PROVE  IInv'
<1>1. UNCHANGED <<rows, drawn, req, overlapped>>
    BY DEF vars
<1>2. Table' /\ Meetings'
    BY <1>1 DEF IInv, Table, Stored, Meetings
<1>3. ASSUME NEW h \in Handlers, req[h] # Idle
      PROVE  /\ Typed(req'[h])
             /\ \A q : q = req'[h] => Holds(q)'
             /\ h \notin overlapped => \A q : q = req'[h] => Solo(q)'
    <2>1. PICK q : q = req[h]
        OBVIOUS
    <2>2. Typed(q) /\ Holds(q) /\ (h \notin overlapped => Solo(q))
        BY <1>3, <2>1 DEF IInv, Requests
    <2>3. Kept(q.trial) /\ Same(q.trial)
        BY <1>1, UnchangedKept, UnchangedSame DEF IInv
    <2>4. Holds(q)'
        BY <2>2, <2>3, HoldsKept
    <2>5. h \notin overlapped => Solo(q)'
        BY <2>2, <2>3, SoloKept DEF Same, IInv
    <2>6. QED
        BY <1>1, <2>1, <2>2, <2>4, <2>5
<1>4. Requests'
    BY <1>1, <1>3 DEF Requests, IInv
<1>5. QED
    BY <1>2, <1>4 DEF IInv

-----------------------------------------------------------------------------
(* Classification and snapshots.                                           *)

\* Whatever the clusters, a classification finds something, the surest first.
LEMMA ClassifyIs ==
    ASSUME NEW clusters \in Seq(Shapes)
    PROVE  Sure(Classify(clusters))
<1>1. CASE clusters = << >>
    <2>1. Sure(<< Candidate("unknown", 1000) >>)
        BY DEF Sure, Candidate, Candidates, Defects
    <2>2. QED
        BY <1>1, <2>1, NoneClassified
<1>2. CASE clusters # << >>
    <2>1. PICK b \in Balances, c \in BalanceSure, d \in FloatingSure :
              Finding(Classify(clusters), TopOf(clusters), b, c, d)
        BY <1>2, Classified
    <2>2. PICK x, y : x = Candidate(b, c) /\ y = Candidate("floating_electrode", d)
        OBVIOUS
    <2>3. /\ x \in Candidates /\ y \in Candidates
          /\ x.defect # y.defect /\ x.confidence = c /\ y.confidence = d
        <3>1. b \in Defects /\ "floating_electrode" \in Defects /\ b # "floating_electrode"
            BY DEF Balances, Defects
        <3>2. c \in Int /\ d \in Int
            BY DEF BalanceSure, FloatingSure
        <3>3. QED
            BY <2>2, <3>1, <3>2 DEF Candidate, Candidates
    <2>4. PICK found :
              /\ found = Classify(clusters)
              /\ \/ found = << x >>
                 \/ d >= c /\ found = << y, x >>
                 \/ c >= d /\ found = << x, y >>
        BY <2>1, <2>2 DEF Finding
    <2>5. c \in Int /\ d \in Int
        BY DEF BalanceSure, FloatingSure
    <2>6. Sure(<< x >>)
        BY <2>3 DEF Sure
    <2>7. d >= c => Sure(<< y, x >>)
        BY <2>3, <2>5 DEF Sure
    <2>8. c >= d => Sure(<< x, y >>)
        BY <2>3, <2>5 DEF Sure
    <2>9. QED
        BY <2>4, <2>6, <2>7, <2>8
<1>3. QED
    BY <1>1, <1>2

LEMMA CandidatesSure ==
    ASSUME Table, NEW t
    PROVE  Sure(CandidatesOf(t))
<1> DEFINE o == ListByTrial(t)
           n == Cardinality(RowsOf(t))
           shapes == [i \in DOMAIN o |-> rows[o[i]].shape]
<1>1. DOMAIN o = 1 .. n /\ n \in Nat
    BY ListIs, RowsOfFinite, FS_CardinalityType DEF SetToSeqs
<1>2. \A i \in DOMAIN o : rows[o[i]].shape \in Shapes
    BY ListIs, ShapeIs DEF RowsOf
<1>3. shapes \in [1 .. n -> Shapes]
    BY <1>1, <1>2
<1>4. CandidatesOf(t) = Classify(shapes)
    BY DEF CandidatesOf
<1> HIDE DEF shapes, n
<1>5. shapes \in Seq(Shapes)
    BY <1>1, <1>3
<1>6. QED
    BY <1>4, <1>5, ClassifyIs

LEMMA ClassifyListKeeps ==
    ASSUME IInv, NEW h \in Handlers, NEW t \in Trials, ClassifyList(h, t)
    PROVE  /\ IInv'
           /\ req'[h].next = 1 /\ h \notin overlapped
<1>1. PICK r : r = [pc |-> "insertInterp", trial |-> t, candidates |-> CandidatesOf(t), next |-> 1]
    OBVIOUS
<1>2. /\ r.pc = "insertInterp" /\ r.trial = t /\ r.candidates = CandidatesOf(t) /\ r.next = 1
      /\ Classifying(r)
    BY <1>1 DEF Classifying
<1>3. Sure(r.candidates) /\ r # Idle
    BY <1>2, CandidatesSure DEF IInv, Idle
<1>4. Typed(r)
    BY <1>2, <1>3 DEF Typed, Sure, ClusterPcs, MergePcs
<1>5. Holds(r) /\ Solo(r)
    BY <1>2 DEF Holds, Solo, MergePcs
<1>6. Begin(h, t, r) /\ UNCHANGED <<rows, drawn>>
    BY <1>1 DEF ClassifyList
<1>7. QED
    BY <1>2, <1>4, <1>5, <1>6, BeginKeeps

LEMMA SnapshotKeeps ==
    ASSUME IInv, NEW h \in Handlers,
           SnapshotListInterps(h) \/ \E t \in Trials : SnapshotListClusters(h, t)
    PROVE  /\ IInv'
           /\ req'[h].pc # "insertInterp"
<1>1. ASSUME NEW t \in Trials, SnapshotListClusters(h, t)
      PROVE  IInv' /\ req'[h].pc # "insertInterp"
    <2>1. PICK r : r = [pc |-> "listInterps", trial |-> t,
                        clusters |-> [id \in RowsOf(t) |-> rows[id]]]
        OBVIOUS
    <2>2. r.pc = "listInterps" /\ r.trial = t /\ r.clusters = [id \in RowsOf(t) |-> rows[id]]
        BY <2>1
    <2>3. r # Idle
        BY <2>2 DEF Idle
    <2>4. Typed(r) /\ Holds(r) /\ Solo(r)
        BY <2>2, <2>3 DEF Typed, Holds, Solo, ClusterPcs, MergePcs
    <2>5. Begin(h, t, r) /\ UNCHANGED <<rows, drawn>>
        BY <1>1, <2>1 DEF SnapshotListClusters
    <2>6. QED
        BY <2>2, <2>4, <2>5, BeginKeeps
<1>2. CASE SnapshotListInterps(h)
    <2>1. PICK t : t = req[h].trial
        OBVIOUS
    <2>2. Kept(t) /\ Return(h) /\ req[h] # Idle
        BY <1>2, UnchangedKept DEF SnapshotListInterps, IInv, Idle
    <2>3. IInv'
        BY <2>1, <2>2, ReturnKeeps
    <2>4. req'[h] = Idle /\ Idle.pc = "idle"
        BY <2>2 DEF Return, IInv, Requests, Idle
    <2>5. QED
        BY <2>3, <2>4
<1>3. QED
    BY <1>1, <1>2

LEMMA ClassifyInsertKeeps ==
    ASSUME IInv, NEW h \in Handlers, ClassifyInsert(h)
    PROVE  IInv'
<1>1. PICK q : q = req[h]
    OBVIOUS
<1>2. PICK t : t = q.trial
    OBVIOUS
<1>3. q.pc = "insertInterp" /\ q # Idle /\ Kept(t) /\ UNCHANGED <<rows, drawn>>
    BY <1>1, UnchangedKept DEF ClassifyInsert, IInv, Idle
<1>4. Typed(q)
    BY <1>1, <1>3 DEF IInv, Requests
<1>5. CASE Return(h)
    BY <1>1, <1>2, <1>3, <1>5, ReturnKeeps
<1>6. CASE ~LastCandidate(q) /\ Continue(h, [q EXCEPT !.next = @ + 1])
    <2>1. PICK r : r = [q EXCEPT !.next = @ + 1]
        OBVIOUS
    <2>2. Classifying(q) /\ Sure(q.candidates) /\ q.next \in 1 .. Len(q.candidates)
          /\ q.trial \in Trials /\ Len(q.candidates) \in Nat
        BY <1>3, <1>4 DEF Typed, Sure
    <2>3. /\ r.pc = "insertInterp" /\ r.trial = t /\ r.candidates = q.candidates
          /\ r.next = q.next + 1 /\ Classifying(r)
        BY <1>2, <1>3, <2>1, <2>2 DEF Classifying
    <2>4. r # Idle /\ r.next \in 1 .. Len(r.candidates)
        BY <1>6, <2>2, <2>3 DEF Idle, LastCandidate
    <2>5. Typed(r)
        BY <1>2, <2>2, <2>3, <2>4 DEF Typed, ClusterPcs, MergePcs
    <2>6. Holds(r)'
        BY <2>3 DEF Holds, MergePcs
    <2>7. ASSUME h \notin overlapped
          PROVE  Solo(r)'
        <3>1. Solo(q)
            BY <1>1, <1>3, <2>7 DEF IInv, Requests
        <3>2. Solo(r)
            BY <1>2, <1>3, <2>3, <3>1 DEF Solo
        <3>3. QED
            BY <1>3, <3>2, UnchangedSame, SoloKept DEF Same, IInv
    <2>8. QED
        BY <1>1, <1>2, <1>3, <1>6, <2>1, <2>3, <2>5, <2>6, <2>7, ContinueKeeps
<1>7. QED
    BY <1>1, <1>5, <1>6 DEF ClassifyInsert

-----------------------------------------------------------------------------
(* The invariant holds.                                                    *)

LEMMA InitHolds == Init => IInv
<1> SUFFICES ASSUME Init
             PROVE  IInv
    OBVIOUS
<1>1. /\ Stored = {} /\ drawn = {}
      /\ rows = [id \in Ids |-> rows[id]] /\ DOMAIN rows = Ids
    BY DEF Init, Stored
<1>2. Table
    BY <1>1, FS_EmptySet DEF Table
<1>3. DOMAIN req = Handlers /\ \A h \in Handlers : req[h] = Idle
    BY DEF Init
<1>4. QED
    BY <1>2, <1>3 DEF IInv, Meetings, Requests, Init

LEMMA NextKeeps ==
    ASSUME IInv, [Next]_vars
    PROVE  IInv'
<1>1. ASSUME NEW h \in Handlers, Arrive(h)
      PROVE  IInv'
    BY <1>1, PulsesKeep, GetAKeeps, AdjudicateGetKeeps DEF Arrive
<1>2. ASSUME NEW h \in Handlers, Step(h)
      PROVE  IInv'
    <2>1. MergeRejectB(h) => IInv'
        BY RejectBKeeps
    <2>2. QED
        BY <1>2, <2>1, ListOldKeeps, DeleteKeeps, ClusterInsertKeeps, GetBKeeps,
           MergeInsertKeeps, RejectAKeeps, AdjudicateSetKeeps DEF Step
<1>3. QED
    BY <1>1, <1>2, CrashKeeps, StutterKeeps DEF Next

LEMMA DiagnosisKeeps ==
    ASSUME IInv, [DiagnosisNext]_diagnosisVars
    PROVE  IInv'
<1>1. ASSUME NEW h \in Handlers, NEW t \in Trials,
             ClassifyList(h, t) \/ SnapshotListClusters(h, t)
      PROVE  IInv'
    BY <1>1, ClassifyListKeeps, SnapshotKeeps
<1>2. ASSUME NEW h \in Handlers, ClassifyInsert(h) \/ SnapshotListInterps(h)
      PROVE  IInv'
    BY <1>2, ClassifyInsertKeeps, SnapshotKeeps
<1>3. CASE Next
    BY <1>3, NextKeeps
<1>4. CASE UNCHANGED diagnosisVars
    BY <1>4, StutterKeeps DEF diagnosisVars
<1>5. QED
    BY <1>1, <1>2, <1>3, <1>4 DEF DiagnosisNext

LEMMA IInvHolds == Spec => []IInv
BY InitHolds, NextKeeps, PTL DEF Spec

LEMMA DiagnosisHolds == DiagnosisSpec => []IInv
<1>1. DiagnosisInit => IInv
    BY InitHolds DEF DiagnosisInit
<1>2. QED
    BY <1>1, DiagnosisKeeps, PTL DEF DiagnosisSpec

-----------------------------------------------------------------------------
(* What follows from it.                                                   *)

\* The clusters table holds rows of their shape, with ranges in the cycle and at
\* least one pulse, under ids that were given out, whatever clusterings and
\* merges wrote them; and only requests that are under way have met others.
THEOREM TypeCorrect == Spec => []TypeOK
<1>1. IInv => TypeOK
    <2> SUFFICES ASSUME IInv
                 PROVE  TypeOK
        OBVIOUS
    <2>1. Table /\ Meetings
        BY DEF IInv
    <2>2. \A id \in Ids : rows[id] \in ClusterRows \cup {NoCluster}
        BY <2>1 DEF Table, Stored
    <2>3. rows \in [Ids -> ClusterRows \cup {NoCluster}]
        <3>1. rows = [id \in Ids |-> rows[id]]
            BY <2>1 DEF Table
        <3>2. QED
            BY <2>2, <3>1
    <2>4. QED
        BY <2>1, <2>3 DEF TypeOK, Table, Meetings
<1>2. QED
    BY <1>1, IInvHolds, PTL

\* A verdict, and the rejection of a merged source, reach the cluster they
\* were decided on or none, for any number of clusterings, merges, verdicts
\* and crashes between the read and the write.
THEOREM VerdictsHit == Spec => []VerdictHitsItsCluster
<1>1. IInv => VerdictHitsItsCluster
    <2> SUFFICES ASSUME IInv, NEW h \in Handlers
                 PROVE  /\ req[h].pc = "setVerdict" /\ req[h].id \in Stored =>
                              rows[req[h].id].shape = req[h].seen
                        /\ req[h].pc \in MergePcs =>
                              \A n \in 1 .. 2 :
                                  req[h].ids[n] \in Stored =>
                                      rows[req[h].ids[n]].shape = req[h].seen[n]
        BY DEF VerdictHitsItsCluster, MergePcs
    <2>1. req[h].pc \in MergePcs \cup {"setVerdict"} => req[h] # Idle
        BY DEF Idle, MergePcs
    <2>2. req[h] # Idle => Holds(req[h])
        BY DEF IInv, Requests
    <2>3. \A n \in 1 .. 2 : n = 1 \/ n = 2
        OBVIOUS
    <2>4. QED
        BY <2>1, <2>2, <2>3 DEF Holds, Known
<1>2. QED
    BY <1>1, IInvHolds, PTL

\* A clustering that met no other request on its trial ends with exactly the
\* clusters of the pulses it listed, whatever came before it on that trial.
THEOREM SoloReplaces == Spec => SoloClusterReplaces
<1>1. ASSUME IInv, NEW h \in Handlers, NEW t \in Trials,
             ClusterInsert(h), req'[h] = Idle, h \notin overlapped, req[h].trial = t
      PROVE  /\ Cardinality(RowsOf(t)') = Len(req[h].new)
             /\ {rows'[id].shape : id \in RowsOf(t)'} = {req[h].new[k] : k \in DOMAIN req[h].new}
    <2>1. PICK q : q = req[h]
        OBVIOUS
    <2>2. /\ Cardinality(RowsOf(t)') = q.next
          /\ ShapesOf(t)' = {q.new[k] : k \in 1 .. q.next}
          /\ Typed(q) /\ q.pc = "insertNew"
        BY <1>1, <2>1, InsertAdds
    <2>3. q.new \in Seq(Shapes) /\ Inserting(q)
        BY <2>2 DEF Typed, ClusterPcs
    <2>4. q.next = Len(q.new)
        <3>1. SUFFICES ASSUME q.next # Len(q.new)
                       PROVE  FALSE
            OBVIOUS
        <3>2. req' = [req EXCEPT ![h] = [q EXCEPT !.next = @ + 1]]
            BY <1>1, <2>1, <3>1 DEF ClusterInsert, Continue
        <3>3. req'[h] = [q EXCEPT !.next = @ + 1]
            BY <1>1, <3>2 DEF IInv, Requests
        <3>4. [q EXCEPT !.next = @ + 1].pc = "insertNew"
            BY <2>2, <2>3 DEF Inserting
        <3>5. QED
            BY <1>1, <3>3, <3>4 DEF Idle
    <2>5. DOMAIN q.new = 1 .. q.next
        BY <2>3, <2>4
    <2>6. ShapesOf(t)' = {rows'[id].shape : id \in RowsOf(t)'}
        BY DEF ShapesOf
    <2>7. {rows'[id].shape : id \in RowsOf(t)'} = {q.new[k] : k \in DOMAIN q.new}
        BY <2>2, <2>5, <2>6
    <2>8. QED
        BY <2>1, <2>2, <2>4, <2>7
<1>2. IInv /\ [Next]_vars =>
          [\A h \in Handlers, t \in Trials :
              ClusterInsert(h) /\ req'[h] = Idle /\ h \notin overlapped /\ req[h].trial = t =>
                  LET stored == RowsOf(t)'
                  IN  /\ Cardinality(stored) = Len(req[h].new)
                      /\ {rows'[id].shape : id \in stored} = {req[h].new[k] : k \in DOMAIN req[h].new}
          ]_vars
    BY <1>1
<1>3. QED
    BY <1>2, IInvHolds, PTL DEF Spec, SoloClusterReplaces

\* A merge of two live clusters that met no other request on their trial leaves
\* as many live pulses as there were: what Merge adds up, its two rejections
\* take away.
THEOREM SoloConserves == Spec => SoloMergeConserves
<1>1. ASSUME IInv, NEW h \in Handlers, NEW t \in Trials,
             MergeRejectB(h), h \notin overlapped, req[h].trial = t,
             req[h].live, req[h].ids[1] # req[h].ids[2]
      PROVE  LivePulses(t)' = req[h].before
    <2>1. PICK q : q = req[h]
        OBVIOUS
    <2>2. QED
        BY <1>1, <2>1, RejectBKeeps
<1>2. IInv /\ [Next]_vars =>
          [\A h \in Handlers, t \in Trials :
              /\ MergeRejectB(h) /\ h \notin overlapped /\ req[h].trial = t
              /\ req[h].live /\ req[h].ids[1] # req[h].ids[2]
              => LivePulses(t)' = req[h].before]_vars
    BY <1>1
<1>3. QED
    BY <1>2, IInvHolds, PTL DEF Spec, SoloMergeConserves

\* What a snapshot whose creation met no other request on its trial lists of the
\* clusters is still in the table when it lists the interpretations.
THEOREM SoloMoment == DiagnosisSpec => SoloSnapshotMoment
<1>1. ASSUME IInv, NEW h \in Handlers, NEW t \in Trials,
             SnapshotListInterps(h), h \notin overlapped, req[h].trial = t
      PROVE  req[h].clusters = [id \in RowsOf(t) |-> rows[id]]
    <2>1. req[h].pc = "listInterps" /\ req[h] # Idle
        BY <1>1 DEF SnapshotListInterps, Idle
    <2>2. Solo(req[h])
        BY <1>1, <2>1 DEF IInv, Requests
    <2>3. QED
        BY <1>1, <2>1, <2>2 DEF Solo
<1>2. IInv /\ [DiagnosisNext]_diagnosisVars =>
          [\A h \in Handlers, t \in Trials :
              SnapshotListInterps(h) /\ h \notin overlapped /\ req[h].trial = t =>
                  req[h].clusters = [id \in RowsOf(t) |-> rows[id]]]_diagnosisVars
    BY <1>1
<1>3. QED
    BY <1>2, DiagnosisHolds, PTL DEF DiagnosisSpec, SoloSnapshotMoment

-----------------------------------------------------------------------------
(* The interpretations table.  A classification inserts its two rows in    *)
(* two steps: whatever comes between or instead of the second one, no      *)
(* second candidate is there without a first one.                          *)

InterpRows ==
    {row \in [found : Seq(Candidates), defect : Defects, confidence : Int] :
        Sure(row.found) /\ \E k \in DOMAIN row.found : row = Row(row.found, k)}

\* Of every row, the first candidate of its classification is there, and was
\* there before it.
Listed ==
    /\ DOMAIN interps = Trials
    /\ \A t \in Trials : interps[t] \in Seq(InterpRows)
    /\ \A t \in Trials : \A i \in DOMAIN interps[t] :
          \E j \in 1 .. i : interps[t][j] = Row(interps[t][i].found, 1)

\* A request that has its second candidate still to insert.
HalfDone(r) == r.pc = "insertInterp" /\ r.next = 2

LastIs(t, row) == interps[t] # << >> /\ interps[t][Len(interps[t])] = row

Begun ==
    \A h \in Handlers : HalfDone(req[h]) =>
        /\ \E j \in DOMAIN interps[req[h].trial] :
              interps[req[h].trial][j] = Row(req[h].candidates, 1)
        /\ h \notin overlapped => LastIs(req[h].trial, Row(req[h].candidates, 1))

Waiting(t, found) ==
    {h \in Handlers : HalfDone(req[h]) /\ req[h].trial = t /\ req[h].candidates = found}

\* The second candidates that are there, or still come, are no more than the
\* first ones.
Counted(t, found) ==
    /\ IsFiniteSet(Waiting(t, found))
    /\ Cardinality(RowsWith(t, found, 2)) + Cardinality(Waiting(t, found))
          <= Cardinality(RowsWith(t, found, 1))

AllCounted ==
    \A t \in Trials : \A found : Sure(found) /\ Len(found) = 2 => Counted(t, found)

Interpretations == Listed /\ Begun /\ AllCounted

\* Nobody but a classification goes half-way through one.
LEMMA OthersKeepInterps ==
    ASSUME Interpretations, UNCHANGED interps,
           \A h \in Handlers : HalfDone(req'[h]) =>
               req'[h] = req[h] /\ (h \in overlapped => h \in overlapped')
    PROVE  Interpretations'
<1>1. Listed'
    BY DEF Interpretations, Listed
<1>2. Begun'
    BY DEF Interpretations, Begun, LastIs
<1>3. ASSUME NEW t \in Trials, NEW found, Sure(found), Len(found) = 2
      PROVE  Counted(t, found)'
    <2>1. Counted(t, found)
        BY <1>3 DEF Interpretations, AllCounted
    <2>2. RowsWith(t, found, 1)' = RowsWith(t, found, 1)
          /\ RowsWith(t, found, 2)' = RowsWith(t, found, 2)
        BY DEF RowsWith
    <2>3. Waiting(t, found)' \in SUBSET Waiting(t, found)
        BY DEF Waiting
    <2>4. IsFiniteSet(Waiting(t, found)')
          /\ Cardinality(Waiting(t, found)') <= Cardinality(Waiting(t, found))
          /\ Cardinality(Waiting(t, found)') \in Nat /\ Cardinality(Waiting(t, found)) \in Nat
        BY <2>1, <2>3, FS_Subset, FS_CardinalityType DEF Counted
    <2>5. \A n \in 1 .. 2 : Cardinality(RowsWith(t, found, n)) \in Nat
        <3>1. IsFiniteSet(DOMAIN interps[t])
            <4>1. DOMAIN interps[t] = 1 .. Len(interps[t]) /\ Len(interps[t]) \in Int /\ 1 \in Int
                BY DEF Interpretations, Listed
            <4>2. QED
                BY <4>1, FS_Interval
        <3>2. \A n \in 1 .. 2 : RowsWith(t, found, n) \in SUBSET (DOMAIN interps[t])
            BY DEF RowsWith
        <3>3. QED
            BY <3>1, <3>2, FS_Subset, FS_CardinalityType
    <2>6. QED
        BY <2>1, <2>2, <2>4, <2>5 DEF Counted
<1>4. QED
    BY <1>1, <1>2, <1>3 DEF Interpretations, AllCounted

\* What a step of g leaves to the others.
Leaves(g) ==
    \E r : /\ req' = [req EXCEPT ![g] = r]
           /\ ~HalfDone(r)
           /\ overlapped \ {g} \subseteq overlapped'

LEMMA LeavesHalfDone ==
    ASSUME IInv, NEW g \in Handlers, Leaves(g)
    PROVE  \A h \in Handlers : HalfDone(req'[h]) =>
               req'[h] = req[h] /\ (h \in overlapped => h \in overlapped')
BY DEF Leaves, IInv, Requests

LEMMA ClusterStepLeaves ==
    ASSUME IInv, NEW h \in Handlers, Arrive(h) \/ Step(h)
    PROVE  Leaves(h)
<1>1. Idle.pc = "idle"
    BY DEF Idle
<1>2. ~HalfDone(Idle)
    BY <1>1 DEF HalfDone
<1>3. Return(h) => Leaves(h)
    BY <1>2 DEF Return, Leaves
<1>4. \A r : Continue(h, r) /\ r.pc # "insertInterp" => Leaves(h)
    BY DEF Continue, Leaves, HalfDone
<1>5. \A t, r : Begin(h, t, r) /\ r.pc # "insertInterp" => Leaves(h)
    BY DEF Begin, Leaves, HalfDone
<1>6. CASE Arrive(h)
    <2>1. ASSUME NEW t \in Trials, NEW s \in Spectra, ClusterPulses(h, t, s)
          PROVE  Leaves(h)
        BY <1>5, <2>1 DEF ClusterPulses
    <2>2. ASSUME NEW a \in Ids, NEW b \in Ids, MergeGetA(h, a, b)
          PROVE  Leaves(h)
        BY <1>5, <2>2 DEF MergeGetA
    <2>3. ASSUME NEW id \in Ids, NEW inInterference \in BOOLEAN,
                 AdjudicateGet(h, id, inInterference)
          PROVE  Leaves(h)
        BY <1>5, <2>3 DEF AdjudicateGet
    <2>4. QED
        BY <1>6, <2>1, <2>2, <2>3 DEF Arrive
<1>7. CASE ClusterListOld(h)
    BY <1>4, <1>7 DEF ClusterListOld
<1>8. CASE ClusterDelete(h)
    BY <1>4, <1>8 DEF ClusterDelete
<1>9. CASE ClusterInsert(h)
    <2>1. Inserting(req[h]) /\ req[h].pc = "insertNew"
        BY <1>9, InsertAdds DEF Typed
    <2>2. [req[h] EXCEPT !.next = @ + 1].pc = "insertNew"
        BY <2>1 DEF Inserting
    <2>3. QED
        BY <1>3, <1>4, <1>9, <2>2 DEF ClusterInsert
<1>10. CASE MergeGetB(h)
    BY <1>3, <1>4, <1>10 DEF MergeGetB
<1>11. CASE MergeInsert(h)
    <2>1. req[h].pc \in MergePcs
        BY <1>11 DEF MergeInsert, MergePcs
    <2>2. Merging(req[h])
        BY <2>1, MergeHolds
    <2>3. [req[h] EXCEPT !.pc = "rejectA"].pc = "rejectA"
        BY <2>2 DEF Merging
    <2>4. QED
        BY <1>4, <1>11, <2>3 DEF MergeInsert
<1>12. CASE MergeRejectA(h)
    <2>1. req[h].pc \in MergePcs
        BY <1>12 DEF MergeRejectA, MergePcs
    <2>2. Merging(req[h])
        BY <2>1, MergeHolds
    <2>3. [req[h] EXCEPT !.pc = "rejectB"].pc = "rejectB"
        BY <2>2 DEF Merging
    <2>4. QED
        BY <1>3, <1>4, <1>12, <2>3 DEF MergeRejectA
<1>13. CASE MergeRejectB(h) \/ AdjudicateSet(h)
    BY <1>3, <1>13 DEF MergeRejectB, AdjudicateSet
<1>14. QED
    BY <1>6, <1>7, <1>8, <1>9, <1>10, <1>11, <1>12, <1>13 DEF Step

LEMMA RowIs ==
    ASSUME NEW found, Sure(found), NEW k \in DOMAIN found
    PROVE  /\ Row(found, k) \in InterpRows
           /\ Row(found, k).found = found /\ Row(found, k).defect = found[k].defect
           /\ Row(found, k).confidence = found[k].confidence
<1>1. found \in Seq(Candidates)
    BY DEF Sure
<1>2. found[k] \in Candidates
    BY <1>1
<1>3. found[k].defect \in Defects /\ found[k].confidence \in Int
    BY <1>2 DEF Candidates
<1>4. QED
    BY <1>1, <1>3 DEF Row, InterpRows

\* One more row.
LEMMA ClassifyInsertIs ==
    ASSUME IInv, Listed, NEW h \in Handlers, ClassifyInsert(h),
           NEW q, q = req[h], NEW t, t = q.trial, NEW n, n = Len(interps[t])
    PROVE  /\ q.pc = "insertInterp" /\ q # Idle /\ t \in Trials /\ Sure(q.candidates)
           /\ q.next \in DOMAIN q.candidates /\ n \in Nat
           /\ interps' = [interps EXCEPT ![t] = Append(@, Row(q.candidates, q.next))]
           /\ interps'[t] \in Seq(InterpRows)
           /\ DOMAIN interps[t] = 1 .. n /\ DOMAIN interps'[t] = 1 .. n + 1
           /\ Len(interps'[t]) = n + 1
           /\ \A i \in 1 .. n : interps'[t][i] = interps[t][i]
           /\ interps'[t][n + 1] = Row(q.candidates, q.next)
           /\ \A u \in Trials \ {t} : interps'[u] = interps[u]
           /\ DOMAIN interps' = Trials
<1>1. q.pc = "insertInterp" /\ q # Idle
    BY DEF ClassifyInsert, Idle
<1>2. Typed(q)
    BY <1>1 DEF IInv, Requests
<1>3. Sure(q.candidates) /\ q.next \in 1 .. Len(q.candidates) /\ t \in Trials
    BY <1>1, <1>2 DEF Typed
<1>4. q.next \in DOMAIN q.candidates
    BY <1>3 DEF Sure
<1>5. PICK row : row = Row(q.candidates, q.next)
    OBVIOUS
<1>6. row \in InterpRows
    BY <1>3, <1>4, <1>5, RowIs
<1>7. interps' = [interps EXCEPT ![t] = Append(@, row)]
    BY <1>5 DEF ClassifyInsert
<1>8. interps[t] \in Seq(InterpRows) /\ DOMAIN interps = Trials
    BY <1>3 DEF Listed
<1>9. interps'[t] = Append(interps[t], row)
    BY <1>3, <1>7, <1>8
<1>10. /\ interps'[t] \in Seq(InterpRows) /\ Len(interps'[t]) = n + 1 /\ n \in Nat
       /\ DOMAIN interps[t] = 1 .. n /\ DOMAIN interps'[t] = 1 .. n + 1
       /\ \A i \in 1 .. n : interps'[t][i] = interps[t][i]
       /\ interps'[t][n + 1] = row
    BY <1>6, <1>8, <1>9
<1>11. DOMAIN interps' = Trials /\ \A u \in Trials \ {t} : interps'[u] = interps[u]
    BY <1>7, <1>8
<1>12. QED
    BY <1>1, <1>3, <1>4, <1>5, <1>7, <1>10, <1>11

\* What a classification does after an insert.
LEMMA ClassifyGoesOn ==
    ASSUME IInv, NEW h \in Handlers, ClassifyInsert(h), NEW q, q = req[h],
           Sure(q.candidates), q.next \in DOMAIN q.candidates
    PROVE  /\ \A g \in Handlers \ {h} : req'[g] = req[g]
           /\ \A g \in Handlers \ {h} : g \in overlapped => g \in overlapped'
           /\ q.next = Len(q.candidates) => req'[h] = Idle
           /\ q.next # Len(q.candidates) =>
                 /\ overlapped' = overlapped
                 /\ req'[h].pc = "insertInterp" /\ req'[h].next = q.next + 1
                 /\ req'[h].trial = q.trial /\ req'[h].candidates = q.candidates
<1>1. q.pc = "insertInterp" /\ q # Idle /\ Typed(q)
    BY DEF ClassifyInsert, Idle, IInv, Requests
<1>2. Classifying(q)
    BY <1>1 DEF Typed
<1>3. CASE q.next = Len(q.candidates)
    <2>1. Return(h)
        BY <1>3 DEF ClassifyInsert, LastCandidate
    <2>2. QED
        BY <1>3, <2>1 DEF Return, IInv, Requests
<1>4. CASE q.next # Len(q.candidates)
    <2>1. PICK r : r = [q EXCEPT !.next = @ + 1]
        OBVIOUS
    <2>2. Continue(h, r)
        BY <1>4, <2>1 DEF ClassifyInsert, LastCandidate
    <2>3. r.pc = "insertInterp" /\ r.next = q.next + 1 /\ r.trial = q.trial
          /\ r.candidates = q.candidates
        BY <1>1, <1>2, <2>1 DEF Classifying
    <2>4. req'[h] = r /\ overlapped' = overlapped /\ \A g \in Handlers \ {h} : req'[g] = req[g]
        BY <2>2 DEF Continue, IInv, Requests
    <2>5. QED
        BY <1>4, <2>3, <2>4
<1>5. QED
    BY <1>3, <1>4

LEMMA InsertKeepsListed ==
    ASSUME IInv, Interpretations, NEW h \in Handlers, ClassifyInsert(h)
    PROVE  Listed' /\ Begun'
<1>1. PICK q : q = req[h]
    OBVIOUS
<1>2. PICK t : t = q.trial
    OBVIOUS
<1>3. PICK n : n = Len(interps[t])
    OBVIOUS
<1>4. PICK row : row = Row(q.candidates, q.next)
    OBVIOUS
<1>5. /\ q.pc = "insertInterp" /\ q # Idle /\ t \in Trials /\ Sure(q.candidates)
      /\ q.next \in DOMAIN q.candidates /\ n \in Nat
      /\ interps'[t] \in Seq(InterpRows)
      /\ DOMAIN interps[t] = 1 .. n /\ DOMAIN interps'[t] = 1 .. n + 1
      /\ Len(interps'[t]) = n + 1
      /\ \A i \in 1 .. n : interps'[t][i] = interps[t][i]
      /\ interps'[t][n + 1] = row
      /\ \A u \in Trials \ {t} : interps'[u] = interps[u]
      /\ DOMAIN interps' = Trials
    BY <1>1, <1>2, <1>3, <1>4, ClassifyInsertIs DEF Interpretations
<1>6. row.found = q.candidates
    BY <1>4, <1>5, RowIs
<1>7. q.next \in 1 .. 2 /\ Len(q.candidates) \in 1 .. 2 /\ q.next <= Len(q.candidates)
    BY <1>5 DEF Sure
<1>8. \E j \in 1 .. n + 1 : interps'[t][j] = Row(q.candidates, 1)
    <2>1. CASE q.next = 1
        BY <1>4, <1>5, <2>1
    <2>2. CASE q.next = 2
        <3>1. HalfDone(req[h])
            BY <1>1, <1>5, <2>2 DEF HalfDone
        <3>2. PICK j \in 1 .. n : interps[t][j] = Row(q.candidates, 1)
            BY <1>1, <1>2, <1>5, <3>1 DEF Interpretations, Begun
        <3>3. QED
            BY <1>5, <3>2
    <2>3. QED
        BY <1>7, <2>1, <2>2
<1>9. Listed'
    <2>1. \A u \in Trials : interps'[u] \in Seq(InterpRows)
        BY <1>5 DEF Interpretations, Listed
    <2>2. ASSUME NEW u \in Trials, NEW i \in DOMAIN interps'[u]
          PROVE  \E j \in 1 .. i : interps'[u][j] = Row(interps'[u][i].found, 1)
        <3>1. CASE u # t
            BY <1>5, <2>2, <3>1 DEF Interpretations, Listed
        <3>2. CASE u = t /\ i \in 1 .. n
            <4>1. PICK j \in 1 .. i : interps[t][j] = Row(interps[t][i].found, 1)
                BY <1>5, <3>2 DEF Interpretations, Listed
            <4>2. j \in 1 .. n
                BY <1>5, <3>2
            <4>3. QED
                BY <1>5, <3>2, <4>1, <4>2
        <3>3. CASE u = t /\ i = n + 1
            BY <1>5, <1>6, <1>8, <3>3
        <3>4. QED
            BY <1>5, <2>2, <3>1, <3>2, <3>3
    <2>3. QED
        BY <1>5, <2>1, <2>2 DEF Listed
<1>10. /\ \A g \in Handlers \ {h} : req'[g] = req[g]
       /\ \A g \in Handlers \ {h} : g \in overlapped => g \in overlapped'
       /\ q.next = Len(q.candidates) => req'[h] = Idle
       /\ q.next # Len(q.candidates) =>
             /\ req'[h].next = q.next + 1
             /\ req'[h].trial = q.trial /\ req'[h].candidates = q.candidates
    BY <1>1, <1>5, ClassifyGoesOn
<1>11. ASSUME NEW g \in Handlers, HalfDone(req'[g])
       PROVE  /\ \E j \in DOMAIN interps'[req'[g].trial] :
                    interps'[req'[g].trial][j] = Row(req'[g].candidates, 1)
              /\ g \notin overlapped' =>
                    interps'[req'[g].trial] # << >>
                    /\ interps'[req'[g].trial][Len(interps'[req'[g].trial])] = Row(req'[g].candidates, 1)
    <2>1. CASE g = h
        <3>1. req'[h] # Idle
            BY <1>11, <2>1 DEF HalfDone, Idle
        <3>2. q.next = 1 /\ req'[h].trial = t /\ req'[h].candidates = q.candidates
            BY <1>2, <1>7, <1>10, <1>11, <2>1, <3>1 DEF HalfDone
        <3>3. interps'[t] # << >>
            BY <1>5
        <3>4. QED
            BY <1>4, <1>5, <2>1, <3>2, <3>3
    <2>2. CASE g # h
        <3>1. PICK p : p = req[g]
            OBVIOUS
        <3>2. req'[g] = p /\ HalfDone(p) /\ p # Idle
            BY <1>10, <1>11, <2>2, <3>1 DEF HalfDone, Idle
        <3>3. p.trial \in Trials
            BY <3>1, <3>2 DEF IInv, Requests, Typed
        <3>4. PICK j \in DOMAIN interps[p.trial] : interps[p.trial][j] = Row(p.candidates, 1)
            BY <3>1, <3>2 DEF Interpretations, Begun
        <3>5. j \in DOMAIN interps'[p.trial] /\ interps'[p.trial][j] = Row(p.candidates, 1)
            BY <1>5, <3>3, <3>4
        <3>6. ASSUME g \notin overlapped'
              PROVE  interps'[p.trial] # << >>
                     /\ interps'[p.trial][Len(interps'[p.trial])] = Row(p.candidates, 1)
            <4>1. g \notin overlapped
                BY <1>10, <2>2, <3>6
            <4>2. p.trial # t
                BY <1>1, <1>2, <1>5, <2>2, <3>1, <3>2, <4>1 DEF IInv, Meetings
            <4>3. interps'[p.trial] = interps[p.trial]
                BY <1>5, <3>3, <4>2
            <4>4. LastIs(p.trial, Row(p.candidates, 1))
                BY <3>1, <3>2, <4>1 DEF Interpretations, Begun
            <4>5. QED
                BY <4>3, <4>4 DEF LastIs
        <3>7. QED
            BY <3>2, <3>5, <3>6
    <2>3. QED
        BY <2>1, <2>2
<1>12. Begun'
    BY <1>11 DEF Begun, LastIs
<1>13. QED
    BY <1>9, <1>12

LEMMA InsertKeepsCounted ==
    ASSUME IInv, Interpretations, NEW h \in Handlers, ClassifyInsert(h),
           NEW t \in Trials, NEW found, Sure(found), Len(found) = 2
    PROVE  Counted(t, found)'
<1>1. PICK q : q = req[h]
    OBVIOUS
<1>2. PICK u : u = q.trial
    OBVIOUS
<1>3. PICK n : n = Len(interps[u])
    OBVIOUS
<1>4. PICK row : row = Row(q.candidates, q.next)
    OBVIOUS
<1>5. /\ q.pc = "insertInterp" /\ q # Idle /\ u \in Trials /\ Sure(q.candidates)
      /\ q.next \in DOMAIN q.candidates /\ n \in Nat
      /\ DOMAIN interps[u] = 1 .. n /\ DOMAIN interps'[u] = 1 .. n + 1
      /\ \A i \in 1 .. n : interps'[u][i] = interps[u][i]
      /\ interps'[u][n + 1] = row
      /\ \A v \in Trials \ {u} : interps'[v] = interps[v]
    BY <1>1, <1>2, <1>3, <1>4, ClassifyInsertIs DEF Interpretations
<1>6. row.found = q.candidates /\ row.defect = q.candidates[q.next].defect
    BY <1>4, <1>5, RowIs
<1>7. q.next \in 1 .. 2 /\ found[1].defect # found[2].defect
    BY <1>5 DEF Sure
<1>8. /\ \A g \in Handlers \ {h} : req'[g] = req[g]
      /\ q.next = Len(q.candidates) => req'[h] = Idle
      /\ q.next # Len(q.candidates) =>
            /\ req'[h].pc = "insertInterp" /\ req'[h].next = q.next + 1
            /\ req'[h].trial = q.trial /\ req'[h].candidates = q.candidates
    BY <1>1, <1>5, ClassifyGoesOn
<1>9. ~HalfDone(Idle)
    <2>1. Idle.pc = "idle"
        BY DEF Idle
    <2>2. QED
        BY <2>1 DEF HalfDone
<1>10. /\ Counted(t, found)
       /\ IsFiniteSet(Waiting(t, found)) /\ Cardinality(Waiting(t, found)) \in Nat
    BY FS_CardinalityType DEF Interpretations, AllCounted, Counted
<1>11. \A k \in 1 .. 2 : /\ IsFiniteSet(RowsWith(t, found, k))
                         /\ Cardinality(RowsWith(t, found, k)) \in Nat
    <2>1. IsFiniteSet(DOMAIN interps[t])
        <3>1. DOMAIN interps[t] = 1 .. Len(interps[t]) /\ Len(interps[t]) \in Int /\ 1 \in Int
            BY DEF Interpretations, Listed
        <3>2. QED
            BY <3>1, FS_Interval
    <2>2. \A k \in 1 .. 2 : RowsWith(t, found, k) \in SUBSET (DOMAIN interps[t])
        BY DEF RowsWith
    <2>3. QED
        BY <2>1, <2>2, FS_Subset, FS_CardinalityType
<1>12. CASE t # u \/ q.candidates # found
    <2>1. \A k \in 1 .. 2 : RowsWith(t, found, k)' = RowsWith(t, found, k)
        <3>1. CASE t # u
            BY <1>5, <3>1 DEF RowsWith
        <3>2. CASE t = u /\ q.candidates # found
            <4>1. interps'[u][n + 1].found # found
                BY <1>5, <1>6, <3>2
            <4>2. QED
                BY <1>5, <3>2, <4>1 DEF RowsWith
        <3>3. QED
            BY <1>12, <3>1, <3>2
    <2>2. h \notin Waiting(t, found)
        BY <1>1, <1>2, <1>12 DEF Waiting
    <2>3. ~(HalfDone(req'[h]) /\ req'[h].trial = t /\ req'[h].candidates = found)
        BY <1>2, <1>8, <1>9, <1>12
    <2>4. Waiting(t, found)' = Waiting(t, found)
        BY <1>8, <2>2, <2>3 DEF Waiting
    <2>5. QED
        BY <1>10, <2>1, <2>4 DEF Counted
<1>13. CASE t = u /\ q.candidates = found /\ q.next = 1
    <2>1. RowsWith(t, found, 1)' = RowsWith(t, found, 1) \cup {n + 1}
          /\ n + 1 \notin RowsWith(t, found, 1)
        BY <1>5, <1>6, <1>13 DEF RowsWith
    <2>2. RowsWith(t, found, 2)' = RowsWith(t, found, 2)
        BY <1>5, <1>6, <1>7, <1>13 DEF RowsWith
    <2>3. Cardinality(RowsWith(t, found, 1)') = Cardinality(RowsWith(t, found, 1)) + 1
        BY <1>11, <2>1, FS_AddElement
    <2>4. Waiting(t, found)' = Waiting(t, found) \cup {h} /\ h \notin Waiting(t, found)
        <3>1. HalfDone(req'[h]) /\ req'[h].trial = t /\ req'[h].candidates = found
            BY <1>2, <1>8, <1>13 DEF HalfDone
        <3>2. ~HalfDone(req[h])
            BY <1>1, <1>13 DEF HalfDone
        <3>3. QED
            BY <1>8, <3>1, <3>2 DEF Waiting
    <2>5. /\ IsFiniteSet(Waiting(t, found)')
          /\ Cardinality(Waiting(t, found)') = Cardinality(Waiting(t, found)) + 1
        BY <1>10, <2>4, FS_AddElement
    <2>6. QED
        BY <1>10, <1>11, <2>2, <2>3, <2>5 DEF Counted
<1>14. CASE t = u /\ q.candidates = found /\ q.next = 2
    <2>1. RowsWith(t, found, 2)' = RowsWith(t, found, 2) \cup {n + 1}
          /\ n + 1 \notin RowsWith(t, found, 2)
        <3>1. interps'[t][n + 1].found = found /\ interps'[t][n + 1].defect = found[2].defect
            BY <1>5, <1>6, <1>14
        <3>2. /\ DOMAIN interps[t] = 1 .. n /\ DOMAIN interps'[t] = (1 .. n) \cup {n + 1}
              /\ n + 1 \notin 1 .. n
              /\ \A i \in 1 .. n : interps'[t][i] = interps[t][i]
            BY <1>5, <1>14
        <3>3. QED
            BY <3>1, <3>2 DEF RowsWith
    <2>2. RowsWith(t, found, 1)' = RowsWith(t, found, 1)
        BY <1>5, <1>6, <1>7, <1>14 DEF RowsWith
    <2>3. Cardinality(RowsWith(t, found, 2)') = Cardinality(RowsWith(t, found, 2)) + 1
        BY <1>11, <2>1, FS_AddElement
    <2>4. Waiting(t, found)' = Waiting(t, found) \ {h} /\ h \in Waiting(t, found)
        <3>1. ~HalfDone(req'[h])
            BY <1>8, <1>9, <1>14
        <3>2. HalfDone(req[h])
            BY <1>1, <1>5, <1>14 DEF HalfDone
        <3>3. QED
            BY <1>1, <1>2, <1>8, <1>14, <3>1, <3>2 DEF Waiting
    <2>5. /\ IsFiniteSet(Waiting(t, found)')
          /\ Cardinality(Waiting(t, found)') = Cardinality(Waiting(t, found)) - 1
        BY <1>10, <2>4, FS_RemoveElement
    <2>6. QED
        BY <1>10, <1>11, <2>2, <2>3, <2>5 DEF Counted
<1>15. QED
    BY <1>7, <1>12, <1>13, <1>14

LEMMA InterpretationsKeep ==
    ASSUME IInv, Interpretations, [DiagnosisNext]_diagnosisVars
    PROVE  Interpretations'
<1>1. \A h \in Handlers : Leaves(h) /\ UNCHANGED interps => Interpretations'
    BY LeavesHalfDone, OthersKeepInterps
<1>2. CASE Crash /\ UNCHANGED interps
    <2>1. \A h \in Handlers : req'[h] = Idle /\ Idle.pc = "idle"
        BY <1>2 DEF Crash, Idle
    <2>2. \A h \in Handlers : ~HalfDone(req'[h])
        BY <2>1 DEF HalfDone
    <2>3. QED
        BY <1>2, <2>2, OthersKeepInterps
<1>3. CASE UNCHANGED diagnosisVars
    BY <1>3, OthersKeepInterps DEF diagnosisVars, vars
<1>4. ASSUME NEW h \in Handlers, Arrive(h) \/ Step(h), UNCHANGED interps
      PROVE  Interpretations'
    BY <1>1, <1>4, ClusterStepLeaves
<1>5. ASSUME NEW h \in Handlers, NEW t \in Trials,
             ClassifyList(h, t) \/ SnapshotListClusters(h, t)
      PROVE  Interpretations'
    <2>1. \A r : Begin(h, t, r) /\ ~HalfDone(r) => Leaves(h)
        BY DEF Begin, Leaves
    <2>2. CASE ClassifyList(h, t)
        <3>1. \A c : ~HalfDone([pc |-> "insertInterp", trial |-> t, candidates |-> c, next |-> 1])
            BY DEF HalfDone
        <3>2. QED
            BY <1>1, <2>1, <2>2, <3>1 DEF ClassifyList
    <2>3. CASE SnapshotListClusters(h, t)
        <3>1. \A c : ~HalfDone([pc |-> "listInterps", trial |-> t, clusters |-> c])
            BY DEF HalfDone
        <3>2. QED
            BY <1>1, <2>1, <2>3, <3>1 DEF SnapshotListClusters
    <2>4. QED
        BY <1>5, <2>2, <2>3
<1>6. ASSUME NEW h \in Handlers, SnapshotListInterps(h)
      PROVE  Interpretations'
    <2>1. Idle.pc = "idle"
        BY DEF Idle
    <2>2. Leaves(h)
        BY <1>6, <2>1 DEF SnapshotListInterps, Return, Leaves, HalfDone
    <2>3. QED
        BY <1>1, <1>6, <2>2 DEF SnapshotListInterps
<1>7. ASSUME NEW h \in Handlers, ClassifyInsert(h)
      PROVE  Interpretations'
    <2>1. Listed' /\ Begun'
        BY <1>7, InsertKeepsListed
    <2>2. AllCounted'
        BY <1>7, InsertKeepsCounted DEF AllCounted
    <2>3. QED
        BY <2>1, <2>2 DEF Interpretations
<1>8. QED
    BY <1>2, <1>3, <1>4, <1>5, <1>6, <1>7 DEF DiagnosisNext, Next

LEMMA InterpretationsHold == DiagnosisSpec => [](IInv /\ Interpretations)
<1>1. DiagnosisInit => IInv /\ Interpretations
    <2> SUFFICES ASSUME DiagnosisInit
                 PROVE  IInv /\ Interpretations
        OBVIOUS
    <2>1. Idle.pc = "idle" /\ \A h \in Handlers : req[h] = Idle
        BY DEF DiagnosisInit, Init, Idle
    <2>2. \A h \in Handlers : ~HalfDone(req[h])
        BY <2>1 DEF HalfDone
    <2>3. DOMAIN interps = Trials /\ \A t \in Trials : interps[t] = << >>
        BY DEF DiagnosisInit
    <2>4. Listed /\ Begun
        <3>1. << >> \in Seq(InterpRows) /\ DOMAIN << >> = {}
            OBVIOUS
        <3>2. Begun
            BY <2>2 DEF Begun
        <3>3. Listed
            BY <2>3, <3>1 DEF Listed
        <3>4. QED
            BY <3>2, <3>3
    <2>5. ASSUME NEW t \in Trials, NEW found
          PROVE  Counted(t, found)
        <3>1. Waiting(t, found) = {} /\ RowsWith(t, found, 1) = {} /\ RowsWith(t, found, 2) = {}
            BY <2>2, <2>3 DEF Waiting, RowsWith
        <3>2. QED
            BY <3>1, FS_EmptySet DEF Counted
    <2>6. IInv
        BY InitHolds DEF DiagnosisInit
    <2>7. QED
        BY <2>4, <2>5, <2>6 DEF Interpretations, AllCounted
<1>2. IInv /\ Interpretations /\ [DiagnosisNext]_diagnosisVars => (IInv /\ Interpretations)'
    BY DiagnosisKeeps, InterpretationsKeep
<1>3. QED
    BY <1>1, <1>2, PTL DEF DiagnosisSpec

LEMMA SuffixIs ==
    ASSUME NEW S, NEW s \in Seq(S), NEW u \in Seq(S), Len(s) <= Len(u),
           \A i \in 1 .. Len(s) : s[i] = u[(Len(u) - Len(s)) + i]
    PROVE  IsSuffix(s, u)
<1> DEFINE m == Len(s)
           n == Len(u)
           a == Reverse(s)
           b == Reverse(u)
<1>1. m \in Nat /\ n \in Nat /\ m <= n
    OBVIOUS
<1>2. a = [i \in 1 .. m |-> s[(m - i) + 1]] /\ b = [i \in 1 .. n |-> u[(n - i) + 1]]
    BY DEF Reverse
<1>3. a \in Seq(S) /\ Len(a) = m /\ b \in Seq(S) /\ Len(b) = n
    <2>1. /\ \A i \in 1 .. m : (m - i) + 1 \in 1 .. m
          /\ \A i \in 1 .. n : (n - i) + 1 \in 1 .. n
        BY <1>1
    <2>2. a \in [1 .. m -> S] /\ b \in [1 .. n -> S]
        BY <1>1, <1>2, <2>1
    <2> HIDE DEF a, b, m, n
    <2>3. QED
        BY <1>1, <2>2
<1>4. ASSUME NEW i \in 1 .. m
      PROVE  a[i] = b[i]
    <2>1. (m - i) + 1 \in 1 .. m /\ i \in 1 .. n
        BY <1>1
    <2>2. s[(m - i) + 1] = u[(n - m) + ((m - i) + 1)]
        BY <2>1
    <2>3. (n - m) + ((m - i) + 1) = (n - i) + 1
        BY <1>1
    <2>4. QED
        BY <1>2, <2>1, <2>2, <2>3
<1> HIDE DEF a, b
<1>5. SubSeq(a, 1, m) = [i \in 1 .. m |-> a[i]] /\ SubSeq(b, 1, m) = [i \in 1 .. m |-> b[i]]
    <2>1. \A i \in 1 .. m : (1 + i) - 1 = i
        BY <1>1
    <2>2. QED
        BY <1>1, <1>3, <2>1
<1>6. SubSeq(a, 1, m) = SubSeq(b, 1, m)
    BY <1>4, <1>5
<1>7. QED
    BY <1>1, <1>3, <1>6 DEF IsSuffix, IsPrefix, a, b

\* A classification that met no other request on its trial leaves all that the
\* clusters which are then in the table call for.
THEOREM SoloExplains == DiagnosisSpec => SoloClassifyExplains
<1>1. ASSUME IInv, Interpretations, NEW h \in Handlers, NEW t \in Trials,
             ClassifyInsert(h), req'[h] = Idle, h \notin overlapped, req[h].trial = t
      PROVE  IsSuffix([i \in DOMAIN CandidatesOf(t) |-> Row(CandidatesOf(t), i)], interps'[t])
    <2>1. PICK q : q = req[h]
        OBVIOUS
    <2>2. PICK n : n = Len(interps[t])
        OBVIOUS
    <2>3. PICK c : c = q.candidates
        OBVIOUS
    <2>4. /\ q.pc = "insertInterp" /\ q # Idle /\ Sure(c)
          /\ q.next \in DOMAIN c /\ n \in Nat
          /\ interps'[t] \in Seq(InterpRows)
          /\ DOMAIN interps[t] = 1 .. n
          /\ Len(interps'[t]) = n + 1
          /\ \A i \in 1 .. n : interps'[t][i] = interps[t][i]
          /\ interps'[t][n + 1] = Row(c, q.next)
        BY <1>1, <2>1, <2>2, <2>3, ClassifyInsertIs DEF Interpretations
    <2>5. Len(c) \in 1 .. 2 /\ DOMAIN c = 1 .. Len(c) /\ Len(c) \in Nat
        BY <2>4 DEF Sure
    <2>6. c = CandidatesOf(t)
        BY <1>1, <2>1, <2>3, <2>4 DEF IInv, Requests, Solo
    <2>7. q.next = Len(c)
        <3>1. q.next # Len(c) => req'[h].pc = "insertInterp"
            BY <1>1, <2>1, <2>3, <2>4, ClassifyGoesOn
        <3>2. QED
            BY <1>1, <3>1 DEF Idle
    <2>8. Len(c) = 2 => n \in 1 .. n /\ interps[t][n] = Row(c, 1)
        <3>1. Len(c) = 2 => HalfDone(req[h])
            BY <2>1, <2>4, <2>7 DEF HalfDone
        <3>2. Len(c) = 2 => LastIs(t, Row(c, 1))
            BY <1>1, <2>1, <2>3, <3>1 DEF Interpretations, Begun
        <3>3. interps[t] # << >> => n \in 1 .. n
            BY <1>1, <2>2, <2>4 DEF Interpretations, Listed
        <3>4. QED
            BY <2>2, <3>2, <3>3 DEF LastIs
    <2> DEFINE s == [i \in 1 .. Len(c) |-> Row(c, i)]
    <2>9. s \in Seq(InterpRows) /\ Len(s) = Len(c)
        <3>1. \A i \in 1 .. Len(c) : Row(c, i) \in InterpRows
            BY <2>4, <2>5, RowIs
        <3>2. s \in [1 .. Len(c) -> InterpRows]
            BY <3>1
        <3> HIDE DEF s
        <3>3. QED
            BY <2>5, <3>2
    <2>10. \A i \in 1 .. Len(c) : s[i] = interps'[t][((n + 1) - Len(c)) + i]
        <3>1. CASE Len(c) = 1
            BY <2>4, <2>7, <3>1
        <3>2. CASE Len(c) = 2
            <4>1. interps'[t][n] = Row(c, 1) /\ interps'[t][n + 1] = Row(c, 2)
                BY <2>4, <2>7, <2>8, <3>2
            <4>2. ((n + 1) - 2) + 1 = n /\ ((n + 1) - 2) + 2 = n + 1
                BY <2>4
            <4>3. s[1] = Row(c, 1) /\ s[2] = Row(c, 2)
                BY <3>2
            <4>4. \A i \in 1 .. 2 : i = 1 \/ i = 2
                OBVIOUS
            <4>5. QED
                BY <3>2, <4>1, <4>2, <4>3, <4>4
        <3>3. QED
            BY <2>5, <3>1, <3>2
    <2>11. Len(c) <= n + 1
        BY <2>4, <2>5, <2>8
    <2>12. IsSuffix(s, interps'[t])
        <3> HIDE DEF s
        <3>1. QED
            BY <2>4, <2>9, <2>10, <2>11, SuffixIs
    <2>13. s = [i \in DOMAIN CandidatesOf(t) |-> Row(CandidatesOf(t), i)]
        BY <2>5, <2>6
    <2>14. QED
        BY <2>12, <2>13
<1>2. IInv /\ Interpretations /\ [DiagnosisNext]_diagnosisVars =>
          [\A h \in Handlers, t \in Trials :
              /\ ClassifyInsert(h) /\ req'[h] = Idle
              /\ h \notin overlapped /\ req[h].trial = t
              => IsSuffix([i \in DOMAIN CandidatesOf(t) |-> Row(CandidatesOf(t), i)], interps'[t])
          ]_diagnosisVars
    BY <1>1
<1>3. QED
    BY <1>2, InterpretationsHold, PTL DEF DiagnosisSpec, SoloClassifyExplains

\* The list of a trial's interpretations is one of its rows, and nothing in it is
\* surer than its first row.
LEMMA ListInterpsIs ==
    ASSUME Listed, NEW t \in Trials, interps[t] # << >>
    PROVE  /\ DOMAIN ListInterps(t) = DOMAIN interps[t] /\ 1 \in DOMAIN interps[t]
           /\ \A k \in DOMAIN interps[t] : NthRow(t, k) \in DOMAIN interps[t]
           /\ RowsBefore(t, NthRow(t, 1)) = {}
<1> DEFINE s == interps[t]
           S == DOMAIN s
           R == {p \in S \X S : \/ s[p[1]].confidence > s[p[2]].confidence
                                \/ s[p[1]].confidence = s[p[2]].confidence /\ p[1] < p[2]}
<1>1. s \in Seq(InterpRows) /\ Len(s) \in Nat /\ S = 1 .. Len(s) /\ 1 \in S
    BY DEF Listed
<1>2. \A i \in S : s[i].confidence \in Int /\ i \in Int
    <2>1. \A row \in InterpRows : row.confidence \in Int
        BY DEF InterpRows
    <2> HIDE DEF s
    <2>2. QED
        BY <1>1, <2>1
<1>3. IsFiniteSet(S) /\ Cardinality(S) = Len(s)
    <2>1. 1 \in Int /\ Len(s) \in Int
        BY <1>1
    <2>2. IsFiniteSet(1 .. Len(s)) /\ Cardinality(1 .. Len(s)) = IF 1 > Len(s) THEN 0 ELSE Len(s) - 1 + 1
        BY <2>1, FS_Interval
    <2> HIDE DEF s
    <2>3. QED
        BY <1>1, <2>2
<1>4. \A a, b \in S : <<a, b>> \in R <=>
          \/ s[a].confidence > s[b].confidence
          \/ s[a].confidence = s[b].confidence /\ a < b
    OBVIOUS
<1>5. /\ \A a \in S : <<a, a>> \notin R
      /\ \A a, b, c \in S : <<a, b>> \in R /\ <<b, c>> \in R => <<a, c>> \in R
      /\ \A a, b \in S : a = b \/ <<a, b>> \in R \/ <<b, a>> \in R
    <2> HIDE DEF s, S, R
    <2>1. QED
        BY <1>2, <1>4
<1>6. \A k \in 1 .. Cardinality(S) : \E b \in S : Cardinality(LessThan(R, S, b)) = k - 1
    <2> HIDE DEF s, S, R
    <2>1. QED
        BY <1>3, <1>5, Ranked
<1>7. \A b \in S : LessThan(R, S, b) = RowsBefore(t, b)
    BY <1>4 DEF LessThan, RowsBefore
<1>8. ASSUME NEW k \in S
      PROVE  NthRow(t, k) \in S /\ Cardinality(RowsBefore(t, NthRow(t, k))) = k - 1
    <2>1. k \in 1 .. Cardinality(S)
        BY <1>1, <1>3
    <2>2. \E b \in S : Cardinality(RowsBefore(t, b)) = k - 1
        BY <1>6, <1>7, <2>1
    <2>3. QED
        BY <2>2 DEF NthRow
<1>9. RowsBefore(t, NthRow(t, 1)) = {}
    <2>1. RowsBefore(t, NthRow(t, 1)) \in SUBSET S
        BY DEF RowsBefore
    <2>2. IsFiniteSet(RowsBefore(t, NthRow(t, 1)))
        BY <1>3, <2>1, FS_Subset
    <2>3. Cardinality(RowsBefore(t, NthRow(t, 1))) = 0
        BY <1>1, <1>8
    <2>4. QED
        BY <2>2, <2>3, FS_EmptySet
<1>10. DOMAIN ListInterps(t) = S
    BY DEF ListInterps
<1>11. QED
    BY <1>1, <1>8, <1>9, <1>10

\* The first of a list that nothing is surer than is the one that is picked.
LEMMA FirstIsHighest ==
    ASSUME NEW s, NEW n \in Nat, DOMAIN s = 1 .. n, 1 \in DOMAIN s,
           \A i \in DOMAIN s : s[i].confidence \in Int /\ s[i].confidence <= s[1].confidence
    PROVE  Highest(s) = 1
<1> DEFINE P(i) == \A j \in DOMAIN s : /\ s[j].confidence <= s[i].confidence
                                       /\ j < i => s[j].confidence < s[i].confidence
<1>1. P(1)
    OBVIOUS
<1>2. ASSUME NEW i \in DOMAIN s, P(i)
      PROVE  i = 1
    <2>1. s[1].confidence \in Int /\ s[i].confidence \in Int
        OBVIOUS
    <2>2. ~(1 < i)
        BY <1>2, <2>1
    <2>3. QED
        BY <2>2
<1>3. Highest(s) = CHOOSE i \in DOMAIN s : P(i)
    BY DEF Highest
<1> HIDE DEF P
<1>4. QED
    BY <1>1, <1>2, <1>3

\* Whatever of a classification is in the table, after a crash between its
\* inserts too, is its best candidates in their order, and what a snapshot calls
\* the dominant defect was at the head of a classification.
THEOREM BestStored == DiagnosisSpec => []BestStoredFirst
<1>1. ASSUME Interpretations, NEW t \in Trials, NEW i \in DOMAIN interps[t],
             NEW found, found = interps[t][i].found
      PROVE  /\ interps[t][i] \in InterpRows /\ Sure(found)
             /\ \E k \in DOMAIN found : interps[t][i] = Row(found, k)
             /\ Len(found) = 2 =>
                   Cardinality(RowsWith(t, found, 2)) <= Cardinality(RowsWith(t, found, 1))
    <2>1. interps[t][i] \in InterpRows
        <3>1. interps[t] \in Seq(InterpRows)
            BY <1>1 DEF Interpretations, Listed
        <3>2. QED
            BY <3>1
    <2>2. Sure(found) /\ \E k \in DOMAIN found : interps[t][i] = Row(found, k)
        BY <1>1, <2>1 DEF InterpRows
    <2>3. ASSUME Len(found) = 2
          PROVE  Cardinality(RowsWith(t, found, 2)) <= Cardinality(RowsWith(t, found, 1))
        <3>1. Counted(t, found)
            BY <1>1, <2>2, <2>3 DEF Interpretations, AllCounted
        <3>2. Cardinality(Waiting(t, found)) \in Nat
            BY <3>1, FS_CardinalityType DEF Counted
        <3>3. \A k \in 1 .. 2 : Cardinality(RowsWith(t, found, k)) \in Nat
            <4>1. IsFiniteSet(DOMAIN interps[t])
                <5>1. DOMAIN interps[t] = 1 .. Len(interps[t]) /\ Len(interps[t]) \in Int /\ 1 \in Int
                    BY <1>1 DEF Interpretations, Listed
                <5>2. QED
                    BY <5>1, FS_Interval
            <4>2. \A k \in 1 .. 2 : RowsWith(t, found, k) \in SUBSET (DOMAIN interps[t])
                BY DEF RowsWith
            <4>3. QED
                BY <4>1, <4>2, FS_Subset, FS_CardinalityType
        <3>4. QED
            BY <3>1, <3>2, <3>3 DEF Counted
    <2>4. QED
        BY <2>1, <2>2, <2>3
<1>2. ASSUME Interpretations, NEW t \in Trials, NEW i \in DOMAIN interps[t],
             NEW m \in 1 .. 2, NEW n \in 1 .. 2, NEW found, found = interps[t][i].found,
             n <= Len(found), m < n
      PROVE  /\ found[m].confidence >= found[n].confidence
             /\ Cardinality(RowsWith(t, found, m)) >= Cardinality(RowsWith(t, found, n))
    <2>1. m = 1 /\ n = 2
        BY <1>2
    <2>2. Sure(found) /\ Len(found) = 2
          /\ Cardinality(RowsWith(t, found, 2)) <= Cardinality(RowsWith(t, found, 1))
        <3>1. Sure(found)
            BY <1>1, <1>2
        <3>2. Len(found) = 2
            BY <1>2, <2>1, <3>1 DEF Sure
        <3>3. QED
            BY <1>1, <1>2, <3>1, <3>2
    <2>3. \A k \in 1 .. 2 : Cardinality(RowsWith(t, found, k)) \in Int
        <3>1. IsFiniteSet(DOMAIN interps[t])
            <4>1. DOMAIN interps[t] = 1 .. Len(interps[t]) /\ Len(interps[t]) \in Int /\ 1 \in Int
                BY <1>2 DEF Interpretations, Listed
            <4>2. QED
                BY <4>1, FS_Interval
        <3>2. \A k \in 1 .. 2 : RowsWith(t, found, k) \in SUBSET (DOMAIN interps[t])
            BY DEF RowsWith
        <3>3. \A k \in 1 .. 2 : Cardinality(RowsWith(t, found, k)) \in Nat
            BY <3>1, <3>2, FS_Subset, FS_CardinalityType
        <3>4. QED
            BY <3>3
    <2>4. QED
        BY <2>1, <2>2, <2>3 DEF Sure
<1>3. ASSUME Interpretations, NEW t \in Trials, interps[t] # << >>
      PROVE  \E i \in DOMAIN interps[t] :
                 DominantDefect(ListInterps(t)) = ResolveInterpretation(interps[t][i].found).defect
    <2> DEFINE list == ListInterps(t)
    <2>1. PICK i : i = NthRow(t, 1)
        OBVIOUS
    <2>2. PICK n : n = Len(interps[t])
        OBVIOUS
    <2>3. n \in Nat /\ DOMAIN interps[t] = 1 .. n
        BY <1>3, <2>2 DEF Interpretations, Listed
    <2>4. /\ DOMAIN list = 1 .. n /\ 1 \in 1 .. n
          /\ \A k \in 1 .. n : NthRow(t, k) \in 1 .. n
          /\ i \in 1 .. n /\ RowsBefore(t, i) = {}
        BY <1>3, <2>1, <2>3, ListInterpsIs DEF Interpretations
    <2>5. \A k \in 1 .. n : interps[t][k].confidence \in Int
        <3>1. \A row \in InterpRows : row.confidence \in Int
            BY DEF InterpRows
        <3>2. QED
            BY <1>1, <1>3, <2>3, <3>1
    <2>6. \A k \in 1 .. n : interps[t][k].confidence <= interps[t][i].confidence
        BY <2>3, <2>4, <2>5 DEF RowsBefore
    <2>7. \A k \in 1 .. n : k < i => interps[t][k].confidence # interps[t][i].confidence
        BY <2>3, <2>4 DEF RowsBefore
    <2>8. \A k \in 1 .. n : list[k] = interps[t][NthRow(t, k)]
        BY <2>3 DEF ListInterps
    <2>9. list[1] = interps[t][i]
        BY <2>1, <2>4, <2>8
    <2>10. \A k \in 1 .. n : list[k].confidence \in Int /\ list[k].confidence <= list[1].confidence
        BY <2>4, <2>5, <2>6, <2>8, <2>9
    <2> HIDE DEF list
    <2>11. Highest(list) = 1
        BY <2>3, <2>4, <2>10, FirstIsHighest
    <2>12. list # << >>
        <3>1. DOMAIN << >> = {}
            OBVIOUS
        <3>2. QED
            BY <2>4, <3>1
    <2>13. DominantDefect(list) = interps[t][i].defect
        BY <2>9, <2>11, <2>12 DEF DominantDefect
    <2>14. PICK found : found = interps[t][i].found
        OBVIOUS
    <2>15. Sure(found) /\ \E k \in DOMAIN found : interps[t][i] = Row(found, k)
        BY <1>1, <1>3, <2>3, <2>4, <2>14
    <2>16. PICK k \in DOMAIN found : interps[t][i] = Row(found, k)
        BY <2>15
    <2>17. /\ found \in Seq(Candidates) /\ Len(found) \in 1 .. 2 /\ DOMAIN found = 1 .. Len(found)
           /\ \A x \in DOMAIN found : found[x].confidence \in Int
           /\ \A x \in DOMAIN found : found[x].confidence <= found[1].confidence
        <3>1. found \in Seq(Candidates) /\ Len(found) \in 1 .. 2 /\ DOMAIN found = 1 .. Len(found)
            BY <2>15 DEF Sure
        <3>2. \A c \in Candidates : c.confidence \in Int
            BY DEF Candidates
        <3>3. \A x \in DOMAIN found : found[x].confidence \in Int
            BY <3>1, <3>2
        <3>4. \A x \in DOMAIN found : x = 1 \/ (x = 2 /\ Len(found) = 2)
            BY <3>1
        <3>5. QED
            BY <2>15, <3>1, <3>3, <3>4 DEF Sure
    <2>18. ResolveInterpretation(found) = found[1]
        <3>1. 1 \in DOMAIN found /\ Len(found) \in Nat
            BY <2>17
        <3>2. Highest(found) = 1
            BY <2>17, <3>1, FirstIsHighest
        <3>3. QED
            BY <3>2 DEF ResolveInterpretation
    <2>19. interps[t][i].defect = found[1].defect
        <3>1. PICK j \in 1 .. i : interps[t][j] = Row(found, 1)
            BY <1>3, <2>3, <2>4, <2>14 DEF Interpretations, Listed
        <3>2. 1 \in DOMAIN found /\ j \in 1 .. n
            BY <2>3, <2>4, <2>17, <3>1
        <3>3. /\ interps[t][j].confidence = found[1].confidence
              /\ interps[t][j].defect = found[1].defect
              /\ interps[t][i].confidence = found[k].confidence
            BY <2>15, <2>16, <3>1, <3>2, RowIs
        <3>4. interps[t][j].confidence = interps[t][i].confidence
            BY <2>4, <2>5, <2>6, <2>17, <3>2, <3>3
        <3>5. j = i
            BY <2>4, <2>7, <3>1, <3>2, <3>4
        <3>6. QED
            BY <3>3, <3>5
    <2>20. QED
        BY <2>3, <2>4, <2>13, <2>14, <2>18, <2>19 DEF list
<1>4. Interpretations => BestStoredFirst
    BY <1>2, <1>3 DEF BestStoredFirst
<1>5. QED
    BY <1>4, InterpretationsHold, PTL
=============================================================================
