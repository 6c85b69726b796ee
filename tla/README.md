# pdcluster: specifications, model checking and proofs

TLA+ specifications of the partial-discharge clustering service in this
repository: a Go HTTP server over one SQLite file. A trial of a cable is
registered, gets a phase reference and channels, takes in discharge pulses,
calibrates channel delays, clusters pulses by phase, proposes defects,
publishes snapshots of the diagnosis, and is sealed.

## How the system runs

* `net/http` runs each request in its own goroutine. Handlers share nothing in
  memory; they meet in the database.
* No service method opens a transaction, and the pool holds one connection
  (`store/db.go:24,42`). Each SQL statement is atomic; **handlers interleave
  between statements**. A check in one statement may be stale when the next one
  writes. Nearly every hazard of this code comes from that.
* Updates are by id alone (`WHERE id = ?`), never conditional on what was read.
  What does protect the data are the unique keys: trial fingerprint,
  `(trial, channel index)`, `(trial, channel index, seq)`, `(trial, version)`.
* No request context reaches the database calls: a handler runs to its end also
  when its client has gone. A restart loses the handlers and keeps what was
  committed.

All models share one shape: the tables are variables, `req[h]` is what
handler `h` still has to do (the local variables of the Go method that are
still needed), and one action is one SQL statement together with the local code
up to the next one. The first statement of a request is also its arrival; if it
refuses the request nothing has changed and there is no step. Reads that write
nothing (the GET routes) are left out. `Crash` ends all handlers. A statement
that fails with an I/O error ends its own request in the same way; the model
has it only in the form of `Crash`.

## Inventory

| component | state | operations that write | hard behaviour | correct when |
|---|---|---|---|---|
| trial service | `trials`, `phase_references`, `channels` | create, start, finish, review, seal, set reference, add channel | two registrations of one trial; status check and update are two statements; seal check before the write | one trial per fingerprint, stages in order, seal refuses writes |
| pulse service | `pulses`, `channels.delay_ns` | ingest (single, batch), calibrate, background filter, duplicate marking | long read-then-update loops against ingests, new references and each other; partial batches; resubmission | raw data never lost, phases and delays agree, excluded stays excluded |
| snapshot service | `snapshots` | create, publish (supersedes others) | version from MAX, publish in many statements, content from two lists | versions contiguous, content frozen, one published |
| cluster service | `clusters` | cluster (delete, insert), merge | two clusterings at once, death between delete and insert, merge of deleted clusters | one clustering per trial, no pulse counted twice |
| diagnosis service | `interpretations`, cluster status | classify, confirm, interference | adjudication of a cluster another request replaces; death between two candidates; clusters replaced after they were read | a verdict hits its cluster, the best candidate is stored first, candidates explain the clusters |
| phase, pulse, cluster, diagnosis packages | none | pure algorithms | boundaries: zero crossing, ties, medians, tolerances | agree with a reference definition |
| store, httpapi, cmd | the file, the pool | open, migrate, routing | death within migrate, foreign keys per connection, one connection for all | complete schema before use, no row without its trial, requests end |

`PROJECT.json` lists every component with its status and every hazard at its line.

## Modules

| module | models | how state and actions correspond |
|---|---|---|
| `TrialStates` | `model/entities.go`, `trial/state.go` | stages, transition table, `IsSealed`, `Writable` |
| `TrialLifecycle` | abstract | a trial is registered once and moves one stage at a time |
| `TrialService` | `service/trial_service.go`, trial, reference and channel stores | `status`, `fingerprint`, `reference`, `channels` are the tables; `CreateLookup`/`CreateInsert`, `TransitionRead`/`TransitionWrite`, `SetReferenceGet`/`Check`/`Upsert`, `AddChannelGet`/`Check`/`Insert` are the statements |
| `SnapshotService` | `service/snapshot_service.go`, `snapshot/version.go`, snapshot store | `rows` is the table; create is list, list, max, insert; publish is get, list, one update per old snapshot, update. `Diagnose` is the other services changing what a snapshot reads |
| `PhaseAlign` | `phase/align.go`, `phase/delay.go` | `Align`, `CompensateDelay`, `Estimate`, `Median` |
| `Periodicity` | `pulse/dedup.go`, `Near` | `DetectInChannel` as a recursive function over the start index |
| `PulseService` | `service/pulse_service.go`, pulse store, batch handler | `pulses` is the table by its unique key; one trial, since every statement names one. `TrialWrites` is the trial service at work |
| `PhaseClusters` | `internal/cluster`, `phase/prpd.go`, `WrapPhase`, `PhaseDiffDeg`, `Decide` | a spectrum is a function from bins to count, sum and maximum of amplitudes; `BuildPRPD`, `Extract`, `Merge`, `MergeAll`, `Stable` (the verdict of `Compare`) and `Decide` are operators |
| `Classification` | `diagnosis/classify.go`, `ResolveInterpretation`, `DominantDefect` | `Classify` is an operator on a sequence of clusters |
| `Interference` | `diagnosis/interference.go` | windows of phase, `FilterClusters`, `MergeOverlapping` |
| `Amplitudes` | `pulse/background.go` | noise floor, threshold, median, statistics |
| `Algorithms` | the pure functions together | `subject` is one input, made longer step by step; `Build`, `ExtractClusters` and `MergeClusters` feed `BuildPRPD`, `Extract` and `MergeAll` one another's result. The properties define what is right without following the code |
| `ClusterService` | `service/cluster_service.go`, adjudication in `service/diagnosis_service.go`, cluster store | `rows` is the table, `drawn` the ids given out. `ClusterPulses`/`ListOld`/`Delete`/`Insert`, `MergeGetA`/`GetB`/`Insert`/`RejectA`/`RejectB` and `AdjudicateGet`/`Set` are the statements |
| `DiagnosisService` | `Classify` of `service/diagnosis_service.go`, the lists of `SnapshotService.Create`, interpretation store | composes with `ClusterService`: each of its steps is one here. `interps` is the table; `ClassifyList`/`Insert` and `SnapshotListClusters`/`ListInterps` are the statements |
| `DatabaseServer` | `store/db.go`, `cmd/pdcluster/main.go`, and `database/sql` as the code uses it | `schema` is what is in the file, `conns` the pool, `Programs` the statements of each service method by kind and table; `Boot`, `OpenStep`, `OpenFails` open and migrate, `Take`, `Execute`, `Abandon` serve, `Crash` ends the process |
| `MCTrial`, `MCSnapshot`, `MCPulse`, `MCCluster`, `MCDiagnosis`, `MCDatabase`, `MCAlgorithms` | | constants and symmetry for TLC |
| `TrialServiceProofs`, `SnapshotServiceProofs`, `PulseServiceProofs`, `DatabaseServerProofs` | | theorems about the module of that name |
| `ClusterServiceProofs` | | theorems about `ClusterService` and `DiagnosisService` |
| `PhaseAlignProofs`, `PhaseClustersProofs` | | lemmas about the operators of `PhaseAlign`, and of `PhaseClusters` and `Classification` |
| `AlgorithmsProofs` | | theorems about `Algorithms` |

The modules of the services share the statement as their unit of atomicity and
meet where one reads what another writes: `PulseService` takes over the status,
reference and channels of `TrialService` (`TrialWrites`), `DiagnosisService` takes
every step of `ClusterService`, `SnapshotService` takes the other two as
`Diagnose`. `DatabaseServer` is under all of them: it shows that a statement gets
its connection and what rows may refer to, and leaves rows to the services.

History variables (`reached`, `overlapped`, `sealedOnEntry`, `late`) and the
history fields of requests and rows (`before`, `live`; `seen` of a verdict; `found`
of an interpretation) are only for stating properties; no guard reads them.

### What is abstracted

* Ids are drawn at random by the code; here a free one is chosen. Names, codes,
  texts and time stamps are left out. `published_at` is kept as set or not set.
* `SnapshotService`: all of a trial's clusters are one opaque value, its
  interpretations another.
* `PhaseAlign`: the code computes an angle in floating point. Here times are
  integers in ns, a period is a whole number of ns (50 Hz is 20 000 000), and an
  angle is represented by its remainder, 0 to period - 1. Delays are doubled so
  that the median of an even number of integers stays an integer; `RoundHalf`
  is `math.Round` of the half, away from zero. Rounding errors, and frequencies
  so small that the division overflows, are out of the model.
* `Periodicity`: amplitudes are integers, so that the 15 % tolerance is exact.
  `sort.Slice` is not stable: pulses of equal time come in any order.
* `PhaseClusters`: the unit of phase is half a bin (2.5 degrees), which makes the
  centre of a cluster an integer, so comparisons with 10 degrees are exact.
  Amplitudes are integers in mV, and an average is kept as the sum it is
  computed from, so that tolerances are exact. The 5 degree bins of every caller
  are taken for granted.
* `Classification`: confidences are in thousandths, and the logarithm that says
  how sure a surface discharge is, is rounded down to tenths. Whether the half
  cycles are symmetric is decided with e^0.35 to six places.
* `Amplitudes`: quantiles are in percent.
* `DiagnosisService`: a row of interpretations has its defect and confidence; the
  evidence text and the status, which nothing changes, are left out. Rows are in
  the order of their inserts; those of one confidence are listed in that order.
* `DatabaseServer`: a statement is its kind and table. Which rows it finds is left
  open except for the trial that a method looks up (`Find`); a method may end
  after any of its statements (`Abandon`), as it does on errors and on checks.
  Loops go round twice. The file is a database file, not ":memory:", whose branch of
  `Open` does not switch foreign keys on.
* `ClusterService`: valid pulses are read once, by the first statement of a
  clustering, so their spectrum is an input of it and changes freely from one
  clustering to the next. A trial with no valid pulse is refused without a
  step. An id is never drawn twice (16 random bytes); ids of deleted clusters
  stay known to clients, who may still name them as the second one of a merge.
  Clusters of one centre are listed in any order, which the comparison of
  centres cannot tell apart.
* `PulseService`: `TrialWrites` moves the status along the transition table
  (lifecycle calls one at a time; `TrialService` shows what happens otherwise)
  and lets a reference or channel arrive at any time, also after the seal, as
  a request that checked before the seal can.

## Runs

| run | question | result |
|---|---|---|
| `TrialConcurrent` | Three handlers of any kind, two trials, two fingerprints: is a fingerprint one trial, and does no stale update skip a stage? | passes |
| `TrialSerial` | If lifecycle calls come one at a time: do statuses implement `TrialLifecycle`, and is every request that finds a sealed trial refused? | passes |
| `TrialSealRegress` | Is sealed final under concurrent lifecycle calls (`entities.go:10`)? | **violated**: a stale update takes the trial back |
| `SnapConcurrent` | Three handlers on one trial, three snapshots: versions, stamps, frozen contents, a publish that meets no other | passes |
| `SnapTwoPublished` | Is at most one snapshot published (`snapshot_service.go:58`)? | **violated** by two publishers |
| `PulseConcurrent` | Two handlers, two channels, two references: are phases angles of a cycle, and do phases, delays and reference agree after a calibration that met no other? | passes |
| `PulseRun` | One handler, a periodic run and a resubmission: are pulses kept, and does closing the trial stop a batch? | passes |
| `PulseExcluded` | Is an exclusion reason only on excluded pulses (`entities.go:96`)? | **violated**: calibration makes them valid again |
| `ClusterConcurrent` | Two handlers on one trial: does a verdict only reach the cluster it is for, does a clustering that met no other request replace everything, and does such a merge keep every pulse once? | passes |
| `DiagnosisConcurrent` | Two handlers, two trials, death between inserts: is the dominant defect one that was recommended, does a classification that met no other request explain the clusters in the table, does a snapshot that met none show one moment? | passes |
| `ServerLife` | Three handlers, two deaths, opening at any point of the schema: complete schema before use, no row without its trial, and does every request get the one connection and end? | passes |
| `Algorithms` | Does each pure function return, for every input up to a size, what a definition that does not follow the code says? | passes |

What `Algorithms` says of each function: `ExtractPartitions` - clusters take every
pulse once, end where pulses do and lie as far apart as the gap asks;
`MergeAllSettles` - merging reaches a list with no two mergeable neighbours and
keeps every pulse once; `HalvesAgree` - counting half cycles by clusters and by bins
agrees unless a cluster lies across 180 degrees; `CandidatesExclusive` - the
candidates are the ones the clusters call for, best first; `StableMeansPaired` - a
greedy match never invents a pairing; `InterferenceFound` - a train of four equal
pulses is never missed altogether, and nothing is marked alone; `DelayRobust` - a
majority of good discharges gives the true delay, and the phases of the reference
channel; `WindowsCover` - merging windows changes no coverage unless one goes
around the zero; `NoiseFloorRobust` - a noise floor discards no more than its
quantile, and large pulses do not move it.

**Bounds.** Two handlers suffice for each race between a check and a write; the
third in the trial, snapshot and server runs lets two races chain (a stale update
of a stale update; two that wait for one connection). Two trials and two
fingerprints suffice for duplicates. Three snapshots give a published one, a
competitor and a successor. Snapshot ids are finite: with all of them used, an
insert cannot happen and its request waits; every handler can still crash and
`Diagnose` goes on. For pulses, three alike equidistant pulses are the shortest
run that `DetectInChannel` marks, two channels the fewest with a delay; a delay of
31 ns makes rounding of a half delay matter, and one reference has its zero after
the first pulses, so that compensated times before the zero occur. `PulseRun` needs
one handler only: `TrialWrites` interleaves with it. For clusters, three ids allow
a clustering of two and a merge, or a clustering that died after one insert and a
whole one behind it. With all ids drawn an insert waits; crashes and verdicts go
on. A cycle of twelve bins holds a cluster with a gap in reach and one that ends
with the cycle. `DiagnosisConcurrent` has a spectrum with two candidates, the fewest
that a death can separate; with two ids a trial's clusters can change once after
they were classified, and `MaxInterps` lets at least two classifications start.
`ServerLife` has a registration, a write that looks the trial up and two that do
not (one of them with two lists), and `MaxCrashes` two deaths: one may leave part
of the schema, the other part of what the next start adds. `Algorithms` has a cycle
of ten bins with up to four bursts of pulses, three centres on each side of a
match, five pulses of a channel, five discharges, three windows, five amplitudes:
each function meets each of its cases, and a run of three behind an unlike pulse,
two outliers against three good delays, and a chain that needs two passes are
among them. No state constraint is used. Sets of interchangeable values are
declared symmetric where no liveness is checked and it is needed.

**Deadlock.** Trial runs switch the check off: with all fingerprints registered
and all trials sealed, each request is refused by its first statement, which is
an idle server. `Algorithms` switches it off too: an input of the largest size is
not made longer. The other runs keep it on; for `ServerLife` it also says
that the processes never wait for each other.

**Fairness.** Only `DatabaseServer` has a liveness property, `RequestsEnd`, and its
`Spec` states the fairness. It is weak fairness of three things for each process.
`Take` and `Finish`: the Go scheduler runs a goroutine that can go on, no method
loops for ever, and SQLite answers. `HandedTo`: a process that waits gets the
connection in the end. When the connection is given back `database/sql` hands it to
a waiting request drawn at random, so that none is passed over for ever; while
one waits another holds the connection, so the condition of weak fairness is that
of the draw. Nothing is assumed of arrivals, crashes or restarts: `Crash` ends
requests and nobody has to start the process again. The services' modules state no
fairness: that their requests end follows from there, since every one of their
methods is a program of `DatabaseServer` and each loop is over a list that was read
before it.

## Proofs

Every invariant and action property of the passing runs is a theorem, checked by
TLAPS for all values of the constants that meet the named assumptions:

* `TrialAssumption`, `SnapshotAssumption`, `ClusterAssumption`, `PulseAssumption`,
  `ServerAssumption`: "no row" is not a row, times, amplitudes, indexes and lags are
  integers, a period is positive, the spectra that a clustering reads count pulses
  and add up amplitudes.
* `BinsAssumption`: a cycle has at least one bin. `LagsAssumption`: a lag is an
  integer or missing.
* `InputsAssumption`: bursts have a number of pulses and an amplitude that is
  not negative, pulses of a channel come in the order of time, centres are
  phases of the cycle, edges of windows any integers. `Valid` (`pulse/pulse.go:12`)
  refuses negative amplitudes, `Extract` puts a centre between its bins and `Merge`
  wraps it (`merge.go:63`), `DetectPeriodic` sorts a channel by time before it scans,
  and `Normalize` wraps edges itself.

* `TrialServiceProofs`: `TypeCorrect`; `FingerprintsUnique`, which needs types
  and that the insert itself refuses; `StagesInOrder`, from an
  invariant that also speaks about requests under way: a handler about to write
  `to` checked a predecessor of `to` that the trial has reached, and what was
  reached stays reached. Without that conjunct `NoStageSkipped` is not
  inductive. `SealRefuses` and `LifecycleRefined` assume `SingleDriver`, at
  most one handler with lifecycle calls; their invariant says that what that
  handler read is still the status when it writes. `TrialSealRegress` shows the
  assumption is needed.
* `SnapshotServiceProofs`: `TypeCorrect`; `VersionsRun`, where a creator under
  way holds a version that is at most one above what is there (it may
  have been taken meanwhile; then the unique key refuses it); `StampsCorrect`,
  where what a publisher listed as published carries a stamp; `SnapshotsFrozen`;
  `SoloTakesOver`, from an invariant that a publisher that has met no other has
  in its list every other published snapshot it has not yet superseded.

* `ClusterServiceProofs`, about `ClusterService` and, from `SoloMoment` on, its
  composition with `DiagnosisService`. `IInv` has three parts. `Table`: ids that are
  taken were drawn, and their rows are clusters. `Meetings`: two requests on one
  trial are both in `overlapped`. `Requests`: what a request read of a cluster, at any
  of its statements, holds of that id - it was given out, and the row under it, if
  any, has the shape that was read (`Holds`); and while a request has met no
  other, the table is what its own statements have made of it (`Solo`). Each
  statement that writes keeps ids and shapes (`Kept`), since ids are drawn once and
  no update touches a shape; so one lemma serves every other request under way.
  `VerdictsHit` needs `Holds` only; `TypeCorrect`, `SoloReplaces` and `SoloConserves`
  need that `Extract` and `Merge` return clusters and what their counts add up to,
  which `PhaseClustersProofs` gives. `SoloMoment` and `SoloExplains` say of the lists
  that a lone snapshot or classification has read that they are still those in
  the tables. `BestStored` needs `Interpretations`: a row that is second among its
  candidates has the first of them in front of it (`Listed`), a request with a
  second candidate to insert has inserted the first (`Begun`), and of two
  candidates that no tie can swap there are at least as many first ones as second
  ones, stored or still to come (`AllCounted`). The last part is what makes it
  inductive: requests may die between the two inserts, so only the numbers can be
  compared.

* `PhaseClustersProofs`: lemmas about `Extract`, `Merge`, `MergeAll` and `Classify`.
  Induction is an argument from a least counterexample, written out where it is
  needed: a family of subsets of a finite set has a smallest member
  (`LeastSubset`), a property that goes from each place of an interval to the next
  holds on all of it (`Ascend`). Recursive functions come as `CHOOSE` of a function
  that meets its equation, so each is first shown to have a value
  (`SumsExist`, `RecursionExists`). On that rest sums over finite sets (`SumEquation`,
  `SumWithout`, `SumUnion`) and over groups (`GroupCounts`, `GroupSums`); the starts
  of the clusters in their order (`Ranked`); and `Covers`: clusters lie one after the
  other, each counts and adds up the pulses in its bins, and every pulse is in one.
  `Extract` returns clusters that cover the pulses of its spectrum (`ExtractCovers`).
  A pass of `MergeAll` keeps that at each step (`StepPasses`), sorting included, and is
  either shorter than what it began with or leaves no two neighbours to merge
  (`PassCovers`), so the bounded repetition settles (`MergeAllCovers`).

* `DatabaseServerProofs`: `TypeCorrect`, `SchemaComplete`, `ForeignKeysHold`. `IInv`
  adds to the types that connections and their users agree one to one, that a
  request under way is at a statement of a service method, and that while the
  database is opened only the opening process is at work, with the part of the
  program it has done in the file (`Migrated`) or on the connection (`Enforcing`:
  from the second pragma on every open connection enforces foreign keys).
  `ForeignKeysHold` rests on `MaxOpen` being 1: then the connection that was told
  to enforce them is the only one there is.

* `PhaseAlignProofs`: lemmas about medians, delays and angles. A finite list of
  integers has a k-th smallest element and only one (`KthExists`, `KthUnique`: the
  least value with at least k elements at or below it, by well-foundedness of
  strict inclusion of finite sets, since `KthSmallest` counts repetitions), so the
  median is an integer, and it is the value that more than half of the elements
  have (`MedianOfMajority`). An angle is at least 0 and less than the period, also
  for negative times.

* `PulseServiceProofs`: `PulsesStay`, `LateOnce`, `TypeCorrect`, `SoloAgrees`. The
  first part of the invariant (`Sound`) is about tables and requests: stored
  pulses are finitely many (so that a median of them exists), each lies on a
  registered channel, and every request under way is right about the tables -
  angles computed from the listed times are those of the times in the table, what
  is left to mark is stored, a request that inserted late finds the trial closed.
  Every step leaves the tables `Grown`: rows keep what they came with, channels
  stay, a closed trial stays closed. What requests read survives that, so one
  lemma (`OKKept`) serves every request that does not step. The second part
  is for calibrations: two that are under way are both in `overlapped` (`Met`), and
  one that is not has its delays and angles in the tables, as far as it has
  written (`Alone`). `SoloAgrees` needs all of it: without the first part a pulse
  could change between listing and writing, without `Met` another calibration
  could write between. What `DetectInChannel` marks is not looked into: it only
  has to be stored.

* `AlgorithmsProofs`: one theorem for each property of `Algorithms`. The invariant
  `Shaped` says of each kind of input what its steps can have made of it; in
  particular a spectrum is that of some list of pulses, clusters are what
  `Extract` returns for one, and the pulses of a channel are in the order of time.
  With it each theorem is a statement about all inputs of a shape, of any length:
  - `DelaysRobust` from `MedianOfMajority`, and that stamps of the two channels
    differ by the lags;
  - `Extracts`, `MergingSettles`, `HalvesMatch`, `Excludes` from `Covers`: what clusters
    count is what the pulses in their bins count;
  - `FloorsHold`: the floor is a k-th smallest amplitude, and has less than k
    below it; raising an amplitude above it leaves the numbers at or below each
    value up to it as they are;
  - `WindowsKept`: exchange sort keeps the contents and orders them (`SortSorts`), and
    absorbing the windows in that order keeps what is covered; a window around the
    zero can lose coverage, never add it, whence the two halves of the property;
  - `StabilityHolds`: each match takes a centre that is not taken and close
    enough, so the matches of all are a pairing; a centre that has not moved is
    nearest to itself;
  - `InterferenceHolds`: the scan of a channel, from the last place to the first
    (`Descend`). What is marked is a union of long runs, and a run has three
    pulses near its first (`ScanInRuns`, `MarkedTogether`). Of four pulses of a train the
    first two would both start a long run (`TrainMarked`), and a scan that comes from
    before steps over one place at most or ends a run inside the train, so it
    meets one of them or has marked one (`FourMet`).

Only model-checked: `RequestsEnd`, the liveness of `DatabaseServer`, which needs `ENABLED`
and fairness, out of the prover's reach; and the findings, which are
counterexamples. The proofs about `PulseService` do not look into what
`DetectInChannel` marks; that is `InterferenceHolds`, which is about the function alone.

## Findings

The three violated runs are disagreements between the code and what its comments
say; `PROJECT.json` quotes both sides. One more was met that no comment rules
out: a channel that shares no discharge with the reference channel gets no
entry in the estimate; its pulses are compensated by 0 while `delay_ns` keeps
the value of an earlier calibration. Registering a lower channel index after a
calibration is enough. `SoloCalibrationAgrees` therefore speaks only of channels
in the estimate. Likewise, no comment says what a merge of a cluster with
itself, or with a rejected one, should count; the code counts its pulses twice,
and `SoloMergeConserves` excludes both.

What two requests on one trial can tear, the comments promise without a condition:
a snapshot of one moment (`entities.go:127`) and one clustering per trial
(`cluster_service.go:15`). `SoloSnapshotMoment` and `SoloClusterReplaces` state the
condition under which they hold, no other request on that trial meanwhile. Sealed
means "no more writes" (`entities.go:10`), but calibration, filter and duplicate
marking never look at the status; `TrialSealRegress` and `LateBounded` are about the
writes that do. `phaseGap` says that it considers the wrap around the zero
(`merge.go:23`) and does not; nothing in the services calls it.

## Plan

Done, in this order: what several requests can break (trial, snapshot, pulse and
cluster services), the proofs about them, the pure functions against reference
definitions, the composition of clustering, classification and snapshots, the
server, its schema and its pool, with liveness and the fault of dying at any
statement, and the proofs about clusters, interpretations and the pure functions.
Left, by worth:

1. `PublishedDiagnosis`: an abstract register of published diagnoses that the
   snapshot service with one publisher implements, and the refinement as a theorem.
2. `DetectInChannel` in `PulseService`: that marking by a request that met no other
   marks long runs of what it listed, from the lemmas of `InterferenceHolds`.
3. The ":memory:" branch of `Open` as a parameter of `DatabaseServer`.

## Not modelled

Routing and decoding of HTTP requests, status codes and messages (`httpapi`), which
hold no state and only choose the service method; the values of the statistics,
seven counts for display; JSON and summary text of a snapshot; the hash of the
fingerprint; the smoke test, one sequential scenario. Functions that nothing calls
and that repeat modelled ones: `IsDuplicate`, `CountByChannel`, `SortByCount`,
`DecideAll`, `SortedClusters`, `ResolvePhases`, `HalfCycle`.
