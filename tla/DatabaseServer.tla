--------------------------- MODULE DatabaseServer ---------------------------
(***************************************************************************)
(* cmd/pdcluster/main.go, internal/store/db.go and the pool of             *)
(* database/sql between the services and the one SQLite file: the server   *)
(* opens the file, migrates it and serves requests, each of which borrows  *)
(* a connection for every statement.  What the statements do to rows is in *)
(* the modules of the services; here are the trials that exist and the     *)
(* rows that refer to none.                                                *)
(***************************************************************************)
EXTENDS Integers, Sequences, FiniteSets

CONSTANTS
    Handlers,    \* request goroutines
    Main,        \* the goroutine that opens the database
    Trials,      \* trial ids that clients name, registered or not
    Operations,  \* the service methods that are called
    MaxCrashes   \* bound: times the process dies

Processes == Handlers \cup {Main}

VARIABLES
    phase,    \* of the server process
    schema,   \* tables and indexes in the file
    trials,   \* rows of the trials table
    orphans,  \* <<table, trial>> of rows that refer to no trial
    conns,    \* connections of the pool
    req,      \* what each process still has to do
    crashes

vars == <<phase, schema, trials, orphans, conns, req, crashes>>

-----------------------------------------------------------------------------
(* Statements.                                                             *)

Statement(does, table) == [does |-> does, table |-> table]

\* A row of the trials table, without which the method ends.
Find == Statement("find", "trials")

Get(table) == Statement("get", table)

List(table) == Statement("list", table)

Insert(table) == Statement("insert", table)

\* UPDATE and DELETE
Update(table) == Statement("update", table)

\* The statements of the service methods, a loop being gone through twice.
Programs ==
    [createTrial |-> <<Get("trials"), Insert("trials")>>,
     transition |-> <<Find, Update("trials")>>,
     setReference |-> <<Find, Insert("phase_references")>>,
     addChannel |-> <<Find, Insert("channels")>>,
     ingest |-> <<Find, Get("channels"), Insert("pulses")>>,
     calibrate |-> <<Get("phase_references"), List("channels"), List("pulses"),
                     Update("channels"), Update("channels"), Update("pulses"), Update("pulses")>>,
     mark |-> <<List("pulses"), Update("pulses"), Update("pulses")>>,
     cluster |-> <<List("pulses"), List("clusters"), Update("clusters"),
                   Insert("clusters"), Insert("clusters")>>,
     mergeClusters |-> <<Get("clusters"), Get("clusters"), Insert("clusters"),
                         Update("clusters"), Update("clusters")>>,
     adjudicate |-> <<Get("clusters"), Update("clusters")>>,
     classify |-> <<List("clusters"), Insert("interpretations"), Insert("interpretations")>>,
     createSnapshot |-> <<List("clusters"), List("interpretations"), Get("snapshots"),
                          Insert("snapshots")>>,
     publish |-> <<Get("snapshots"), List("snapshots"), Update("snapshots"), Update("snapshots")>>,
     stats |-> <<Get("trials"), Get("channels"), Get("pulses"), Get("pulses"),
                 Get("clusters"), Get("interpretations"), Get("snapshots")>>]

Pragmas ==
    <<Statement("pragma", "journal_mode"), Statement("pragma", "foreign_keys"),
      Statement("pragma", "busy_timeout")>>

\* CREATE TABLE IF NOT EXISTS and CREATE INDEX IF NOT EXISTS, in this order.
Objects ==
    <<"trials", "idx_trials_fingerprint", "phase_references", "channels", "pulses",
      "idx_pulses_trial", "clusters", "idx_clusters_trial", "interpretations",
      "idx_interpretations_trial", "snapshots", "idx_snapshots_trial">>

AllObjects == {Objects[i] : i \in DOMAIN Objects}

CreateAll == [i \in DOMAIN Objects |-> Statement("create", Objects[i])]

\* Mutant: a file that has tables is taken for a migrated one.
MigrationOnce(found) == IF found = {} THEN CreateAll ELSE <<CreateAll[1]>>

Migration(found) == CreateAll

-----------------------------------------------------------------------------
(* The pool.                                                               *)

\* Mutant
TwoOpen == 2

\* SetMaxOpenConns(1)
MaxOpen == 1

Conns == 1 .. MaxOpen

Nobody == "nobody"

Closed == [open |-> FALSE, foreignKeys |-> FALSE, user |-> Nobody]

\* SQLite enforces foreign keys on a connection only once it is told to.
Opened(p) == [open |-> TRUE, foreignKeys |-> FALSE, user |-> p]

Idle == [at |-> "idle"]

Request(program, trial) == [at |-> "ready", program |-> program, next |-> 1, trial |-> trial]

At(p, at) == req[p].at = at

StatementOf(p) == req[p].program[req[p].next]

Waiting == {p \in Processes : At(p, "waiting")}

ConnOf(p) == CHOOSE c \in Conns : conns[c].user = p

IdleConns == {c \in Conns : conns[c].open /\ conns[c].user = Nobody}

\* A process asks for a connection: it gets one that is idle, or a new one,
\* or waits for one to be given back.
TakeIdle(p) ==
    \E c \in IdleConns :
        /\ conns' = [conns EXCEPT ![c].user = p]
        /\ req' = [req EXCEPT ![p].at = "using"]

TakeNew(p) ==
    /\ IdleConns = {}
    /\ \E c \in Conns :
          /\ ~conns[c].open
          /\ conns' = [conns EXCEPT ![c] = Opened(p)]
          /\ req' = [req EXCEPT ![p].at = "using"]

Queue(p) ==
    /\ \A c \in Conns : conns[c].open /\ conns[c].user # Nobody
    /\ req' = [req EXCEPT ![p].at = "waiting"]
    /\ UNCHANGED conns

Take(p) ==
    /\ At(p, "ready")
    /\ TakeIdle(p) \/ TakeNew(p) \/ Queue(p)
    /\ UNCHANGED <<phase, schema, trials, orphans, crashes>>

\* Mutant: the rows of a list are not closed.
GivesBackUnlessList(statement) == statement.does # "list"

\* Exec and Scan give the connection back, and every list closes its rows.
GivesBack(statement) == TRUE

\* The connection of p, after its statement, goes to one of those that wait,
\* in no order, or is idle.  r is what p has to do next.
Release(p, r) ==
    LET c == ConnOf(p)
        after == IF StatementOf(p) = Pragmas[2]
                 THEN [conns EXCEPT ![c].foreignKeys = TRUE] ELSE conns
    IN  IF ~GivesBack(StatementOf(p))
        THEN conns' = after /\ req' = [req EXCEPT ![p] = r]
        ELSE IF Waiting = {}
        THEN conns' = [after EXCEPT ![c].user = Nobody] /\ req' = [req EXCEPT ![p] = r]
        ELSE \E w \in Waiting :
                /\ conns' = [after EXCEPT ![c].user = w]
                /\ req' = [req EXCEPT ![p] = r, ![w].at = "using"]

ASSUME ServerAssumption ==
    /\ Main \notin Handlers
    /\ Nobody \notin Processes
    /\ Operations \subseteq DOMAIN Programs
    /\ MaxCrashes \in Nat

-----------------------------------------------------------------------------
(* The process.                                                            *)

Init ==
    /\ phase = "down"
    /\ schema = {}
    /\ trials = {}
    /\ orphans = {}
    /\ conns = [c \in Conns |-> Closed]
    /\ req = [p \in Processes |-> Idle]
    /\ crashes = 0

Boot ==
    /\ phase = "down"
    /\ phase' = "pragmas"
    /\ req' = [req EXCEPT ![Main] = Request(Pragmas, Nobody)]
    /\ UNCHANGED <<schema, trials, orphans, conns, crashes>>

Arrive(h, operation, t) ==
    /\ phase = "serving"
    /\ req[h] = Idle
    /\ req' = [req EXCEPT ![h] = Request(Programs[operation], t)]
    /\ UNCHANGED <<phase, schema, trials, orphans, conns, crashes>>

Die ==
    /\ phase' = "down"
    /\ conns' = [c \in Conns |-> Closed]
    /\ req' = [p \in Processes |-> Idle]

Crash ==
    /\ phase # "down"
    /\ crashes < MaxCrashes
    /\ crashes' = crashes + 1
    /\ Die
    /\ UNCHANGED <<schema, trials, orphans>>

-----------------------------------------------------------------------------
(* Statements are executed.                                                *)

Last(p) == req[p].next = Len(req[p].program)

Advanced(p) == [req[p] EXCEPT !.at = "ready", !.next = @ + 1]

\* The next pragma or CREATE; after the last one, the next phase.
OpenStep ==
    /\ At(Main, "using")
    /\ schema' = IF StatementOf(Main).does = "create"
                 THEN schema \cup {StatementOf(Main).table} ELSE schema
    /\ IF ~Last(Main) THEN Release(Main, Advanced(Main)) /\ UNCHANGED phase
       ELSE IF phase = "pragmas"
       THEN Release(Main, Request(Migration(schema), Nobody)) /\ phase' = "migrating"
       ELSE Release(Main, Idle) /\ phase' = "serving"
    /\ UNCHANGED <<trials, orphans, crashes>>

\* An error while opening closes the pool and ends the process.
OpenFails ==
    /\ At(Main, "using")
    /\ crashes < MaxCrashes
    /\ crashes' = crashes + 1
    /\ Die
    /\ UNCHANGED <<schema, trials, orphans>>

\* A row whose trial is not there: refused if the connection enforces the
\* foreign key.
Refused(h) ==
    /\ req[h].trial \notin trials
    /\ StatementOf(h).does = "insert" /\ StatementOf(h).table # "trials"
    /\ conns[ConnOf(h)].foreignKeys

\* The row a method cannot go on without.
Missing(h) == StatementOf(h).does = "find" /\ req[h].trial \notin trials

Execute(h) ==
    /\ At(h, "using")
    /\ ~Refused(h) /\ ~Missing(h)
    /\ LET inserts == StatementOf(h).does = "insert"
           table == StatementOf(h).table
       IN  /\ trials' = IF inserts /\ table = "trials" THEN trials \cup {req[h].trial} ELSE trials
           /\ orphans' = IF inserts /\ table # "trials" /\ req[h].trial \notin trials
                         THEN orphans \cup {<<table, req[h].trial>>} ELSE orphans
    /\ Release(h, IF Last(h) THEN Idle ELSE Advanced(h))
    /\ UNCHANGED <<phase, schema, crashes>>

\* The statement fails, or the method ends at what it has read.
Abandon(h) ==
    /\ At(h, "using")
    /\ Release(h, Idle)
    /\ UNCHANGED <<phase, schema, trials, orphans, crashes>>

Finish(p) == IF p = Main THEN OpenStep ELSE Execute(p) \/ Abandon(p)

Next ==
    \/ Boot \/ Crash \/ OpenFails \/ OpenStep
    \/ \E h \in Handlers :
          \/ \E operation \in Operations, t \in Trials : Arrive(h, operation, t)
          \/ Execute(h) \/ Abandon(h)
    \/ \E p \in Processes : Take(p)

\* A connection that is given back goes to p.
HandedTo(p) ==
    /\ At(p, "waiting")
    /\ \E q \in Processes \ {p} : Finish(q)
    /\ req'[p].at = "using"

\* The scheduler runs every goroutine that can go on, and SQLite answers.  While
\* p waits some process has the connection, so that it can be given to p at any
\* time; as database/sql draws the waiter at random, p is not passed over for
\* ever.  Clients need not call, and nobody has to start the process.
Fairness ==
    \A p \in Processes :
        /\ WF_vars(Take(p))
        /\ WF_vars(Finish(p))
        /\ WF_vars(HandedTo(p))

Spec == Init /\ [][Next]_vars /\ Fairness

-----------------------------------------------------------------------------
(* Properties.                                                             *)

\* Connections and processes agree on who uses which, in every phase.
TypeOK ==
    /\ phase \in {"down", "pragmas", "migrating", "serving"}
    /\ schema \subseteq AllObjects
    /\ trials \subseteq Trials
    /\ conns \in [Conns -> [open : BOOLEAN, foreignKeys : BOOLEAN,
                            user : Processes \cup {Nobody}]]
    /\ \A p \in Processes :
          At(p, "using") <=> \E c \in Conns : conns[c].open /\ conns[c].user = p

\* Requests are served, and statements run, only on a complete schema: a
\* process that died in the middle of migrate leaves part of it, which the
\* next start completes (migrate: IF NOT EXISTS, one statement at a time).
SchemaBeforeUse ==
    /\ phase = "serving" => schema = AllObjects
    /\ \A h \in Handlers : At(h, "using") => StatementOf(h).table \in schema

\* No row refers to a trial that is not there, although Classify and Create of
\* snapshots never look the trial up: the foreign keys refuse it, which are
\* switched on once, on one connection of the pool (Open).
NoOrphans == orphans = {}

\* Every request ends, also when it has to wait for the one connection, and
\* so does opening the database, unless the process dies (MaxOpenConns is 1:
\* a statement issued while the rows of a list are open would wait for ever).
RequestsEnd == \A p \in Processes : req[p] # Idle ~> req[p] = Idle
=============================================================================
