-------------------------- MODULE DiagnosisService --------------------------
(***************************************************************************)
(* Classify of internal/service/diagnosis_service.go and the two lists of  *)
(* SnapshotService.Create, together with everything that changes the       *)
(* clusters they read (ClusterService, of which this module takes every    *)
(* step).  What Create does after its lists is in SnapshotService.         *)
(***************************************************************************)
EXTENDS ClusterService, Classification

CONSTANT MaxInterps   \* bound: no classification starts with more rows

\* The interpretations table: the rows of each trial as they came.  A row has
\* all the candidates of its classification as history.
VARIABLE interps

diagnosisVars == <<vars, interps>>

\* ORDER BY confidence DESC: SQLite sorts stably, so that rows of one confidence
\* stay in the order they came.
RowsBefore(t, i) ==
    {j \in DOMAIN interps[t] :
        \/ interps[t][j].confidence > interps[t][i].confidence
        \/ interps[t][j].confidence = interps[t][i].confidence /\ j < i}

NthRow(t, k) == CHOOSE i \in DOMAIN interps[t] : Cardinality(RowsBefore(t, i)) = k - 1

ListInterps(t) == [k \in DOMAIN interps[t] |-> interps[t][NthRow(t, k)]]

DiagnosisInit == Init /\ interps = [t \in Trials |-> <<>>]

-----------------------------------------------------------------------------
(* Classify: list the clusters, rejected ones too, and insert the          *)
(* candidates one by one.  The trial is not looked up.                     *)

CandidatesOf(t) ==
    Classify([i \in DOMAIN ListByTrial(t) |-> rows[ListByTrial(t)[i]].shape])

Row(candidates, i) ==
    [found |-> candidates, defect |-> candidates[i].defect,
     confidence |-> candidates[i].confidence]

ClassifyList(h, t) ==
    /\ SumFunction([u \in Trials |-> Len(interps[u])]) < MaxInterps
    /\ Begin(h, t, [pc |-> "insertInterp", trial |-> t, candidates |-> CandidatesOf(t), next |-> 1])
    /\ UNCHANGED <<rows, drawn, interps>>

\* Mutant: the loop ends one candidate early.
LastCandidateEarly(r) == r.next + 1 >= Len(r.candidates)

LastCandidate(r) == r.next = Len(r.candidates)

ClassifyInsert(h) ==
    LET r == req[h]
    IN  /\ r.pc = "insertInterp"
        /\ interps' = [interps EXCEPT ![r.trial] = Append(@, Row(r.candidates, r.next))]
        /\ IF LastCandidate(r) THEN Return(h) ELSE Continue(h, [r EXCEPT !.next = @ + 1])
        /\ UNCHANGED <<rows, drawn>>

-----------------------------------------------------------------------------
(* SnapshotService.Create: list the clusters, list the interpretations.    *)

SnapshotListClusters(h, t) ==
    /\ Begin(h, t, [pc |-> "listInterps", trial |-> t,
                    clusters |-> [id \in RowsOf(t) |-> rows[id]]])
    /\ UNCHANGED <<rows, drawn, interps>>

SnapshotListInterps(h) ==
    /\ req[h].pc = "listInterps"
    /\ Return(h)
    /\ UNCHANGED <<rows, drawn, interps>>

-----------------------------------------------------------------------------
DiagnosisNext ==
    \/ Next /\ UNCHANGED interps
    \/ \E h \in Handlers :
          \/ \E t \in Trials : ClassifyList(h, t) \/ SnapshotListClusters(h, t)
          \/ ClassifyInsert(h) \/ SnapshotListInterps(h)

DiagnosisSpec == DiagnosisInit /\ [][DiagnosisNext]_diagnosisVars

-----------------------------------------------------------------------------
(* Properties.                                                             *)

\* The rows that hold the n-th candidate of a classification.
RowsWith(t, found, n) ==
    {i \in DOMAIN interps[t] :
        interps[t][i].found = found /\ interps[t][i].defect = found[n].defect}

\* Whatever of a classification is in the table, after a crash between its
\* inserts too, is its best candidates in their order, so that the dominant
\* defect a snapshot shows was at the head of a classification: it is one that
\* ResolveInterpretation recommends (Classify inserts by falling confidence).
BestStoredFirst ==
    \A t \in Trials :
        /\ \A i \in DOMAIN interps[t], m, n \in 1 .. 2 :
              LET found == interps[t][i].found
              IN  n <= Len(found) /\ m < n =>
                      /\ found[m].confidence >= found[n].confidence
                      /\ Cardinality(RowsWith(t, found, m)) >= Cardinality(RowsWith(t, found, n))
        /\ interps[t] # <<>> =>
              \E i \in DOMAIN interps[t] :
                  DominantDefect(ListInterps(t)) = ResolveInterpretation(interps[t][i].found).defect

\* A classification that met no other request on its trial leaves all its
\* candidates, and they are what the clusters that are in the table then call
\* for, whatever requests on other trials did.
SoloClassifyExplains ==
    [][\A h \in Handlers, t \in Trials :
          /\ ClassifyInsert(h) /\ req'[h] = Idle
          /\ h \notin overlapped /\ req[h].trial = t
          => IsSuffix([i \in DOMAIN CandidatesOf(t) |-> Row(CandidatesOf(t), i)], interps'[t])
      ]_diagnosisVars

\* The clusters and the interpretations of a snapshot whose creation met no
\* other request on its trial were in the tables at one moment (Snapshot: "the
\* clusters and interpretations of a moment").
SoloSnapshotMoment ==
    [][\A h \in Handlers, t \in Trials :
          SnapshotListInterps(h) /\ h \notin overlapped /\ req[h].trial = t =>
              req[h].clusters = [id \in RowsOf(t) |-> rows[id]]]_diagnosisVars
=============================================================================
