------------------------ MODULE DatabaseServerProofs ------------------------
(***************************************************************************)
(* DatabaseServer for every set of handlers, trials and operations and any *)
(* number of crashes: the schema is complete before it is used, and the    *)
(* foreign keys hold because the one connection that enforces them is the  *)
(* only one there is.                                                      *)
(***************************************************************************)
EXTENDS DatabaseServer, TLAPS

Phases == {"down", "pragmas", "migrating", "serving"}

MethodPrograms == {Programs[o] : o \in Operations}

AllPrograms == MethodPrograms \cup {Pragmas, CreateAll}

Requests ==
    {Idle}
    \cup [at : {"ready", "waiting", "using"}, program : AllPrograms, next : Nat,
          trial : Trials \cup {Nobody}]

Connections == [open : BOOLEAN, foreignKeys : BOOLEAN, user : Processes \cup {Nobody}]

Typed ==
    /\ phase \in Phases
    /\ schema \subseteq AllObjects
    /\ trials \subseteq Trials
    /\ conns \in [Conns -> Connections]
    /\ req \in [Processes -> Requests]

\* The connection is used by the process that believes to use it.
Linked ==
    /\ \A p \in Processes : At(p, "using") <=> conns[1].user = p
    /\ conns[1].user # Nobody => conns[1].open

\* Requests run while the process serves, each in its method.
InMethod ==
    \A h \in Handlers :
        ~At(h, "idle") =>
            /\ phase = "serving"
            /\ req[h].program \in MethodPrograms
            /\ req[h].next \in DOMAIN req[h].program
            /\ req[h].trial \in Trials

\* Main is in the program of its phase, before the statement it will send.
Opening ==
    /\ phase \in {"down", "serving"} => At(Main, "idle")
    /\ phase = "pragmas" => /\ req[Main].program = Pragmas
                            /\ req[Main].next \in 1 .. 3
                            /\ ~At(Main, "idle")
    /\ phase = "migrating" => /\ req[Main].program = CreateAll
                              /\ req[Main].next \in 1 .. 12
                              /\ ~At(Main, "idle")

\* From the second pragma on, the connection enforces foreign keys.
Enforcing ==
    /\ phase = "pragmas" /\ req[Main].next = 3 => conns[1].open /\ conns[1].foreignKeys
    /\ phase \in {"migrating", "serving"} => conns[1].open /\ conns[1].foreignKeys

\* What migrate has gone through is in the file.
Migrated ==
    /\ phase = "migrating" => \A i \in 1 .. (req[Main].next - 1) : Objects[i] \in schema
    /\ phase = "serving" => schema = AllObjects

IInv == Typed /\ Linked /\ InMethod /\ Opening /\ Enforcing /\ Migrated /\ NoOrphans

-----------------------------------------------------------------------------
(* Facts about the constants.                                              *)

LEMMA OneConnection == MaxOpen = 1 /\ Conns = {1}
BY DEF MaxOpen, Conns

LEMMA OpeningPrograms ==
    /\ Len(Pragmas) = 3 /\ DOMAIN Pragmas = 1 .. 3
    /\ Len(CreateAll) = 12 /\ DOMAIN Objects = 1 .. 12
    /\ \A i \in 1 .. 12 : CreateAll[i] = Statement("create", Objects[i])
    /\ \A i \in 1 .. 3 : Pragmas[i].does = "pragma"
<1>1. Len(Pragmas) = 3 /\ DOMAIN Pragmas = 1 .. 3
    BY DEF Pragmas
<1>2. DOMAIN Objects = 1 .. 12
    BY DEF Objects
<1>3. CreateAll \in [1 .. 12 -> {Statement("create", Objects[i]) : i \in 1 .. 12}]
      /\ \A i \in 1 .. 12 : CreateAll[i] = Statement("create", Objects[i])
    BY <1>2 DEF CreateAll
<1>4. Len(CreateAll) = 12
    BY <1>2, <1>3 DEF CreateAll
<1>5. \A i \in 1 .. 3 : Pragmas[i].does = "pragma"
    BY DEF Pragmas, Statement
<1>6. QED
    BY <1>1, <1>2, <1>3, <1>4, <1>5

Tables ==
    {"trials", "phase_references", "channels", "pulses", "clusters", "interpretations",
     "snapshots"}

MethodStatements == [does : {"find", "get", "list", "insert", "update"}, table : Tables]

LEMMA MethodSequences ==
    \A o \in DOMAIN Programs : Programs[o] \in Seq(MethodStatements) \ {<<>>}
<1>1. /\ Find \in MethodStatements
      /\ \A t \in Tables : /\ Get(t) \in MethodStatements
                           /\ List(t) \in MethodStatements
                           /\ Insert(t) \in MethodStatements
                           /\ Update(t) \in MethodStatements
    <2>1. Find \in MethodStatements
        BY DEF MethodStatements, Tables, Statement, Find
    <2>2. \A t \in Tables : Get(t) \in MethodStatements
        BY DEF MethodStatements, Statement, Get
    <2>3. \A t \in Tables : List(t) \in MethodStatements
        BY DEF MethodStatements, Statement, List
    <2>4. \A t \in Tables : Insert(t) \in MethodStatements
        BY DEF MethodStatements, Statement, Insert
    <2>5. \A t \in Tables : Update(t) \in MethodStatements
        BY DEF MethodStatements, Statement, Update
    <2>6. QED
        BY <2>1, <2>2, <2>3, <2>4, <2>5
<1> DEFINE S == MethodStatements
           Some == Seq(S) \ {<<>>}
<1>2. \A a, b \in S : <<a, b>> \in Some
    OBVIOUS
<1>3. \A a, b, c \in S : <<a, b, c>> \in Some
    OBVIOUS
<1>4. \A a, b, c, d \in S : <<a, b, c, d>> \in Some
    OBVIOUS
<1>5. \A a, b, c, d, e \in S : <<a, b, c, d, e>> \in Some
    OBVIOUS
<1>6. \A a, b, c, d, e, f, g \in S : <<a, b, c, d, e, f, g>> \in Some
    OBVIOUS
<1> HIDE DEF Some, S
<1>7. /\ Programs.createTrial \in Some
      /\ Programs.transition \in Some
      /\ Programs.setReference \in Some
      /\ Programs.addChannel \in Some
      /\ Programs.ingest \in Some
      /\ Programs.calibrate \in Some
      /\ Programs.mark \in Some
    BY <1>1, <1>2, <1>3, <1>6 DEF Programs, Tables, S
<1>8. /\ Programs.cluster \in Some
      /\ Programs.mergeClusters \in Some
      /\ Programs.adjudicate \in Some
      /\ Programs.classify \in Some
      /\ Programs.createSnapshot \in Some
      /\ Programs.publish \in Some
      /\ Programs.stats \in Some
    BY <1>1, <1>2, <1>3, <1>4, <1>5, <1>6 DEF Programs, Tables, S
<1>9. DOMAIN Programs =
          {"createTrial", "transition", "setReference", "addChannel", "ingest", "calibrate",
           "mark", "cluster", "mergeClusters", "adjudicate", "classify", "createSnapshot",
           "publish", "stats"}
    BY DEF Programs
<1>10. \A o \in DOMAIN Programs : Programs[o] \in Some
    BY <1>7, <1>8, <1>9
<1>11. QED
    BY <1>10 DEF Some, S

LEMMA MethodShape ==
    ASSUME NEW program \in MethodPrograms
    PROVE  /\ Len(program) \in Nat \ {0}
           /\ DOMAIN program = 1 .. Len(program)
           /\ \A i \in DOMAIN program : program[i].table \in AllObjects
<1>1. program \in Seq(MethodStatements) \ {<<>>}
    BY MethodSequences, ServerAssumption DEF MethodPrograms
<1>2. Tables \subseteq AllObjects
    BY DEF Tables, AllObjects, Objects
<1>3. \A x \in MethodStatements : x.table \in AllObjects
    BY <1>2 DEF MethodStatements
<1>4. QED
    BY <1>1, <1>3

-----------------------------------------------------------------------------
(* What the pool does.                                                     *)

Others(p) == \A q \in Processes \ {p} : req'[q] = req[q]

LEMMA RequestParts ==
    ASSUME Typed, NEW p \in Processes
    PROVE  /\ At(p, "idle") <=> req[p] = Idle
           /\ ~At(p, "idle") =>
                 req[p] \in [at : {"ready", "waiting", "using"}, program : AllPrograms,
                             next : Nat, trial : Trials \cup {Nobody}]
BY DEF Typed, Requests, Idle, At

\* A request that goes from one stage of a statement to another.
LEMMA MovedRequest ==
    ASSUME Typed, NEW p \in Processes, ~At(p, "idle"),
           NEW at \in {"ready", "waiting", "using"}
    PROVE  LET r == [req[p] EXCEPT !.at = at]
           IN  /\ r \in Requests
               /\ r.at = at
               /\ r.program = req[p].program
               /\ r.next = req[p].next
               /\ r.trial = req[p].trial
<1>1. req[p] \in [at : {"ready", "waiting", "using"}, program : AllPrograms,
                  next : Nat, trial : Trials \cup {Nobody}]
    BY RequestParts
<1> HIDE DEF AllPrograms
<1>2. QED
    BY <1>1 DEF Requests

\* A request that goes on to its next statement.
LEMMA AdvancedRequest ==
    ASSUME Typed, NEW p \in Processes, ~At(p, "idle")
    PROVE  /\ Advanced(p) \in Requests
           /\ Advanced(p).at = "ready"
           /\ Advanced(p).program = req[p].program
           /\ Advanced(p).next = req[p].next + 1
           /\ Advanced(p).trial = req[p].trial
<1> DEFINE Stages == {"ready", "waiting", "using"}
<1>1. /\ req[p] \in [at : Stages, program : AllPrograms, next : Nat,
                     trial : Trials \cup {Nobody}]
      /\ req[p].next + 1 \in Nat
      /\ "ready" \in Stages
    BY RequestParts
<1> HIDE DEF AllPrograms, Stages
<1>2. ASSUME NEW at \in Stages, NEW n \in Nat
      PROVE  LET r == [req[p] EXCEPT !.at = at, !.next = n]
             IN  /\ r \in [at : Stages, program : AllPrograms, next : Nat,
                           trial : Trials \cup {Nobody}]
                 /\ r.at = at
                 /\ r.program = req[p].program
                 /\ r.next = n
                 /\ r.trial = req[p].trial
    BY <1>1
<1>3. PICK at \in Stages, n \in Nat : at = "ready" /\ n = req[p].next + 1
    BY <1>1
<1>4. Advanced(p) = [req[p] EXCEPT !.at = at, !.next = n]
    BY <1>3 DEF Advanced
<1>5. /\ Advanced(p) \in [at : Stages, program : AllPrograms, next : Nat,
                         trial : Trials \cup {Nobody}]
      /\ Advanced(p).at = at
      /\ Advanced(p).program = req[p].program
      /\ Advanced(p).next = n
      /\ Advanced(p).trial = req[p].trial
    BY <1>2, <1>4
<1>6. QED
    BY <1>3, <1>5 DEF Requests, Stages

LEMMA UsedConnection ==
    ASSUME Linked, NEW p \in Processes, At(p, "using")
    PROVE  ConnOf(p) = 1 /\ conns[1].user = p /\ conns[1].open
<1>1. conns[1].user = p
    BY DEF Linked
<1>2. ConnOf(p) = 1
    BY <1>1, OneConnection DEF ConnOf
<1>3. QED
    BY <1>1, <1>2, ServerAssumption DEF Linked

\* A process p does r next; its connection is idle or goes to one that waited.
LEMMA ReleaseEffect ==
    ASSUME Typed, Linked, NEW p \in Processes, At(p, "using"),
           NEW r \in Requests, r.at # "using", Release(p, r)
    PROVE  /\ conns' \in [Conns -> Connections]
           /\ req' \in [Processes -> Requests]
           /\ Linked'
           /\ conns'[1].open
           /\ conns[1].foreignKeys \/ StatementOf(p) = Pragmas[2] => conns'[1].foreignKeys
           /\ req'[p] = r
           /\ \A q \in Processes \ {p} :
                 \/ req'[q] = req[q]
                 \/ ~At(q, "idle") /\ req'[q] = [req[q] EXCEPT !.at = "using"]
<1> DEFINE after == IF StatementOf(p) = Pragmas[2]
                    THEN [conns EXCEPT ![1].foreignKeys = TRUE] ELSE conns
<1>1. ConnOf(p) = 1 /\ conns[1].user = p /\ conns[1].open
    BY UsedConnection
<1>2. conns \in [{1} -> Connections] /\ conns[1] \in Connections
    BY OneConnection DEF Typed
<1>3. /\ after \in [{1} -> Connections]
      /\ after[1].open
      /\ conns[1].foreignKeys \/ StatementOf(p) = Pragmas[2] => after[1].foreignKeys
    <2>1. CASE StatementOf(p) = Pragmas[2]
        <3>1. [conns[1] EXCEPT !.foreignKeys = TRUE] \in Connections
              /\ [conns[1] EXCEPT !.foreignKeys = TRUE].open = conns[1].open
              /\ [conns[1] EXCEPT !.foreignKeys = TRUE].foreignKeys = TRUE
            BY <1>2 DEF Connections
        <3>2. after = [conns EXCEPT ![1] = [conns[1] EXCEPT !.foreignKeys = TRUE]]
            BY <2>1, <1>2
        <3>3. QED
            BY <1>1, <1>2, <3>1, <3>2
    <2>2. CASE StatementOf(p) # Pragmas[2]
        BY <1>1, <1>2, <2>2
    <2>3. QED
        BY <2>1, <2>2
<1>4. \/ /\ Waiting = {}
         /\ conns' = [after EXCEPT ![1].user = Nobody]
         /\ req' = [req EXCEPT ![p] = r]
      \/ \E w \in Waiting : /\ conns' = [after EXCEPT ![1].user = w]
                            /\ req' = [req EXCEPT ![p] = r, ![w].at = "using"]
    BY <1>1 DEF Release, GivesBack
<1> HIDE DEF after
<1>5. ASSUME NEW u \in Processes \cup {Nobody}, conns' = [after EXCEPT ![1].user = u]
      PROVE  /\ conns' \in [Conns -> Connections]
             /\ conns'[1].open
             /\ conns'[1].foreignKeys = after[1].foreignKeys
             /\ conns'[1].user = u
    <2>1. after[1] \in Connections
        BY <1>3
    <2>2. /\ [after[1] EXCEPT !.user = u] \in Connections
          /\ [after[1] EXCEPT !.user = u].open = after[1].open
          /\ [after[1] EXCEPT !.user = u].foreignKeys = after[1].foreignKeys
          /\ [after[1] EXCEPT !.user = u].user = u
        BY <2>1 DEF Connections
    <2>3. conns' = [after EXCEPT ![1] = [after[1] EXCEPT !.user = u]]
        BY <1>5, <1>3
    <2>4. QED
        BY <1>3, <2>2, <2>3, OneConnection
<1>6. req \in [Processes -> Requests] /\ req[p] \in Requests
    BY DEF Typed
<1>7. CASE Waiting = {} /\ conns' = [after EXCEPT ![1].user = Nobody]
           /\ req' = [req EXCEPT ![p] = r]
    <2>1. req' \in [Processes -> Requests] /\ req'[p] = r /\ Others(p)
        BY <1>6, <1>7 DEF Others
    <2>2. \A q \in Processes : ~(req'[q].at = "using")
        BY <1>1, <2>1 DEF Others, Linked, At
    <2>3. Linked'
        BY <1>5, <1>7, <2>2, ServerAssumption DEF Linked, At
    <2>4. QED
        BY <1>3, <1>5, <1>7, <2>1, <2>3 DEF Others
<1>8. ASSUME NEW w \in Waiting, conns' = [after EXCEPT ![1].user = w],
             req' = [req EXCEPT ![p] = r, ![w].at = "using"]
      PROVE  /\ req' \in [Processes -> Requests]
             /\ Linked'
             /\ req'[p] = r
             /\ \A q \in Processes \ {p} :
                   \/ req'[q] = req[q]
                   \/ ~At(q, "idle") /\ req'[q] = [req[q] EXCEPT !.at = "using"]
    <2>1. w \in Processes /\ w # p /\ ~At(w, "idle") /\ w # Nobody
        BY ServerAssumption DEF Waiting, At
    <2>2. [req[w] EXCEPT !.at = "using"] \in Requests
          /\ [req[w] EXCEPT !.at = "using"].at = "using"
        BY <2>1, MovedRequest
    <2>3. /\ req' = [[req EXCEPT ![p] = r] EXCEPT ![w] = [req[w] EXCEPT !.at = "using"]]
        BY <1>8, <2>1, <1>6
    <2>4. /\ req' \in [Processes -> Requests]
          /\ req'[p] = r
          /\ req'[w] = [req[w] EXCEPT !.at = "using"]
          /\ \A q \in Processes \ {p, w} : req'[q] = req[q]
        BY <1>6, <2>1, <2>2, <2>3
    <2>5. \A q \in Processes : req'[q].at = "using" <=> q = w
        <3>1. req'[w].at = "using" /\ req'[p].at # "using"
            BY <2>2, <2>4
        <3>2. \A q \in Processes \ {p} : req[q].at # "using"
            BY <1>1 DEF Linked, At
        <3>3. QED
            BY <2>4, <3>1, <3>2
    <2>6. Linked'
        BY <1>5, <1>8, <2>1, <2>5 DEF Linked, At
    <2>7. QED
        BY <2>1, <2>4, <2>6
<1>9. ASSUME NEW w \in Waiting, conns' = [after EXCEPT ![1].user = w],
             req' = [req EXCEPT ![p] = r, ![w].at = "using"]
      PROVE  w \in Processes
    BY DEF Waiting
<1>10. QED
    BY <1>3, <1>4, <1>5, <1>7, <1>8, <1>9

LEMMA TakeEffect ==
    ASSUME Typed, Linked, NEW p \in Processes, Take(p)
    PROVE  /\ conns' \in [Conns -> Connections]
           /\ req' \in [Processes -> Requests]
           /\ Linked'
           /\ conns[1].open => conns'[1].open
           /\ conns[1].open /\ conns[1].foreignKeys => conns'[1].foreignKeys
           /\ At(p, "ready")
           /\ \E at \in {"using", "waiting"} : req'[p] = [req[p] EXCEPT !.at = at]
           /\ Others(p)
<1>1. conns \in [{1} -> Connections] /\ conns[1] \in Connections
    BY OneConnection DEF Typed
<1>2. At(p, "ready") /\ ~At(p, "idle") /\ p # Nobody
    BY ServerAssumption DEF Take, At
<1>3. ASSUME NEW at \in {"using", "waiting"}, req' = [req EXCEPT ![p].at = at]
      PROVE  /\ req' \in [Processes -> Requests]
             /\ req'[p] = [req[p] EXCEPT !.at = at]
             /\ req'[p].at = at
             /\ Others(p)
    <2>1. [req[p] EXCEPT !.at = at] \in Requests /\ [req[p] EXCEPT !.at = at].at = at
        BY <1>2, MovedRequest
    <2>2. req' = [req EXCEPT ![p] = [req[p] EXCEPT !.at = at]]
        BY <1>3
    <2>3. QED
        BY <2>1, <2>2 DEF Typed, Others
<1>4. ASSUME conns[1].user = Nobody, req' = [req EXCEPT ![p].at = "using"],
             conns' \in [{1} -> Connections], conns'[1].user = p, conns'[1].open
      PROVE  Linked'
    BY <1>2, <1>3, <1>4, ServerAssumption DEF Linked, At, Others
<1>5. CASE TakeIdle(p)
    <2>1. /\ conns[1].open /\ conns[1].user = Nobody
          /\ conns' = [conns EXCEPT ![1].user = p]
          /\ req' = [req EXCEPT ![p].at = "using"]
        BY <1>5, OneConnection DEF TakeIdle, IdleConns
    <2>2. /\ [conns[1] EXCEPT !.user = p] \in Connections
          /\ [conns[1] EXCEPT !.user = p].user = p
          /\ [conns[1] EXCEPT !.user = p].open = conns[1].open
          /\ [conns[1] EXCEPT !.user = p].foreignKeys = conns[1].foreignKeys
        BY <1>1 DEF Connections
    <2>3. /\ conns' \in [{1} -> Connections]
          /\ conns'[1] = [conns[1] EXCEPT !.user = p]
        BY <1>1, <2>1, <2>2
    <2>4. QED
        BY <1>2, <1>3, <1>4, <2>1, <2>2, <2>3, OneConnection
<1>6. CASE TakeNew(p)
    <2>1. /\ ~conns[1].open
          /\ conns' = [conns EXCEPT ![1] = Opened(p)]
          /\ req' = [req EXCEPT ![p].at = "using"]
        BY <1>6, OneConnection DEF TakeNew
    <2>2. Opened(p) \in Connections /\ Opened(p).user = p /\ Opened(p).open
        BY DEF Opened, Connections
    <2>3. conns' \in [{1} -> Connections] /\ conns'[1] = Opened(p)
        BY <1>1, <2>1, <2>2
    <2>4. conns[1].user = Nobody
        BY <2>1 DEF Linked
    <2>5. QED
        BY <1>2, <1>3, <1>4, <2>1, <2>2, <2>3, <2>4, OneConnection
<1>7. CASE Queue(p)
    <2>1. conns' = conns /\ req' = [req EXCEPT ![p].at = "waiting"]
        BY <1>7 DEF Queue
    <2>2. Linked'
        BY <1>2, <1>3, <2>1 DEF Linked, At, Others
    <2>3. QED
        BY <1>1, <1>2, <1>3, <2>1, <2>2, OneConnection
<1>8. QED
    BY <1>5, <1>6, <1>7 DEF Take

-----------------------------------------------------------------------------
(* The invariant.                                                          *)

LEMMA InvInit == Init => IInv
<1> SUFFICES ASSUME Init PROVE IInv
    OBVIOUS
<1>1. conns = [c \in {1} |-> Closed] /\ Closed \in Connections /\ ~Closed.open
      /\ Closed.user = Nobody
    BY OneConnection DEF Init, Closed, Connections
<1>2. \A p \in Processes : req[p] = Idle /\ At(p, "idle") /\ ~At(p, "using")
    BY DEF Init, At, Idle
<1>3. Main \in Processes
    BY DEF Processes
<1>4. Typed
    BY <1>1, OneConnection DEF Init, Typed, Phases, Requests
<1>5. Linked
    BY <1>1, <1>2, ServerAssumption DEF Linked
<1>6. InMethod /\ Opening /\ Enforcing /\ Migrated /\ NoOrphans
    BY <1>2, <1>3 DEF Init, InMethod, Opening, Enforcing, Migrated, NoOrphans, Processes
<1>7. QED
    BY <1>4, <1>5, <1>6 DEF IInv

\* The process ends: what is left is the file.
LEMMA DieStep ==
    ASSUME IInv, Die, UNCHANGED <<schema, trials, orphans>> PROVE IInv'
<1>1. /\ conns' = [c \in {1} |-> Closed] /\ Closed \in Connections
      /\ ~Closed.open /\ Closed.user = Nobody
    BY OneConnection DEF Die, Closed, Connections
<1>2. \A p \in Processes : req'[p] = Idle /\ At(p, "idle")' /\ ~At(p, "using")'
    BY DEF Die, At, Idle
<1>3. Main \in Processes /\ phase' = "down"
    BY DEF Processes, Die
<1>4. Typed'
    BY <1>1, OneConnection DEF Die, Typed, Phases, Requests, IInv
<1>5. Linked'
    BY <1>1, <1>2, ServerAssumption DEF Linked
<1>6. (InMethod /\ Opening /\ Enforcing /\ Migrated /\ NoOrphans)'
    BY <1>2, <1>3 DEF InMethod, Opening, Enforcing, Migrated, NoOrphans, Processes, IInv
<1>7. QED
    BY <1>4, <1>5, <1>6 DEF IInv

\* A step of p after which every other process goes on where it was.
Proceed(p) ==
    \A q \in Processes \ {p} :
        \/ req'[q] = req[q]
        \/ ~At(q, "idle") /\ req'[q] = [req[q] EXCEPT !.at = "using"]

LEMMA ProceedKeeps ==
    ASSUME Typed, NEW p \in Processes, Proceed(p), NEW q \in Processes \ {p}
    PROVE  /\ At(q, "idle")' <=> At(q, "idle")
           /\ ~At(q, "idle") => /\ req'[q].program = req[q].program
                                /\ req'[q].next = req[q].next
                                /\ req'[q].trial = req[q].trial
<1>1. CASE req'[q] = req[q]
    BY <1>1 DEF At
<1>2. CASE ~At(q, "idle") /\ req'[q] = [req[q] EXCEPT !.at = "using"]
    BY <1>2, MovedRequest DEF At
<1>3. QED
    BY <1>1, <1>2 DEF Proceed

LEMMA BootStep ==
    ASSUME IInv, Boot PROVE IInv'
<1> DEFINE r == Request(Pragmas, Nobody)
<1>1. r \in Requests /\ r.at = "ready" /\ r.program = Pragmas /\ r.next = 1
    BY DEF Request, Requests, AllPrograms
<1> HIDE DEF r
<1>2. Main \in Processes /\ \A h \in Handlers : h \in Processes /\ h # Main
    BY ServerAssumption DEF Processes
<1>3. /\ req' \in [Processes -> Requests] /\ req'[Main] = r
      /\ \A q \in Processes \ {Main} : req'[q] = req[q]
    BY <1>1, <1>2 DEF Boot, IInv, Typed, r
<1>4. Typed'
    BY <1>3 DEF Boot, IInv, Typed, Phases
<1>5. Linked'
    BY <1>1, <1>2, <1>3 DEF Boot, IInv, Linked, Opening, At
<1>6. InMethod'
    BY <1>2, <1>3 DEF Boot, IInv, InMethod, At
<1>7. (Opening /\ Enforcing /\ Migrated /\ NoOrphans)'
    BY <1>1, <1>3 DEF Boot, IInv, Opening, Enforcing, Migrated, NoOrphans, At
<1>8. QED
    BY <1>4, <1>5, <1>6, <1>7 DEF IInv

LEMMA ArriveStep ==
    ASSUME IInv, NEW h \in Handlers, NEW o \in Operations, NEW t \in Trials, Arrive(h, o, t)
    PROVE  IInv'
<1> DEFINE r == Request(Programs[o], t)
<1>1. /\ r \in Requests /\ r.at = "ready" /\ r.program = Programs[o]
      /\ r.next = 1 /\ r.trial = t
      /\ Programs[o] \in MethodPrograms
    BY DEF Request, Requests, AllPrograms, MethodPrograms
<1> HIDE DEF r
<1>2. h \in Processes /\ Main \in Processes /\ h # Main /\ Handlers \subseteq Processes
    BY ServerAssumption DEF Processes
<1>3. /\ req' \in [Processes -> Requests] /\ req'[h] = r
      /\ \A q \in Processes \ {h} : req'[q] = req[q]
    BY <1>1, <1>2 DEF Arrive, IInv, Typed, r
<1>4. 1 \in DOMAIN Programs[o]
    BY <1>1, MethodShape
<1>5. Typed'
    BY <1>3 DEF Arrive, IInv, Typed
<1>6. Linked'
    BY <1>1, <1>2, <1>3 DEF Arrive, IInv, Linked, At, Idle
<1>7. InMethod'
    BY <1>1, <1>2, <1>3, <1>4 DEF Arrive, IInv, InMethod, At
<1>8. (Opening /\ Enforcing /\ Migrated /\ NoOrphans)'
    BY <1>2, <1>3 DEF Arrive, IInv, Opening, Enforcing, Migrated, NoOrphans, At
<1>9. QED
    BY <1>5, <1>6, <1>7, <1>8 DEF IInv

LEMMA TakeStep ==
    ASSUME IInv, NEW p \in Processes, Take(p) PROVE IInv'
<1>1. Typed /\ Linked
    BY DEF IInv
<1>2. /\ conns' \in [Conns -> Connections]
      /\ req' \in [Processes -> Requests]
      /\ Linked'
      /\ conns[1].open => conns'[1].open
      /\ conns[1].open /\ conns[1].foreignKeys => conns'[1].foreignKeys
      /\ At(p, "ready")
      /\ \E at \in {"using", "waiting"} : req'[p] = [req[p] EXCEPT !.at = at]
      /\ Others(p)
    BY <1>1, TakeEffect
<1>3. UNCHANGED <<phase, schema, trials, orphans>>
    BY DEF Take
<1>4. \A q \in Processes :
          /\ At(q, "idle")' <=> At(q, "idle")
          /\ ~At(q, "idle") => /\ req'[q].program = req[q].program
                               /\ req'[q].next = req[q].next
                               /\ req'[q].trial = req[q].trial
    <2>1. ~At(p, "idle")
        BY <1>2 DEF At
    <2>2. PICK at \in {"using", "waiting"} : req'[p] = [req[p] EXCEPT !.at = at]
        BY <1>2
    <2>3. /\ req'[p].at = at
          /\ req'[p].program = req[p].program
          /\ req'[p].next = req[p].next
          /\ req'[p].trial = req[p].trial
        BY <1>1, <2>1, <2>2, MovedRequest
    <2>4. QED
        BY <1>2, <2>1, <2>3 DEF Others, At
<1>5. Typed'
    BY <1>1, <1>2, <1>3 DEF Typed
<1>6. Handlers \subseteq Processes /\ Main \in Processes
    BY DEF Processes
<1>7. InMethod'
    BY <1>3, <1>4, <1>6 DEF IInv, InMethod
<1>8. (Opening /\ Enforcing /\ Migrated /\ NoOrphans)'
    BY <1>2, <1>3, <1>4, <1>6 DEF IInv, Opening, Enforcing, Migrated, NoOrphans
<1>9. QED
    BY <1>2, <1>5, <1>7, <1>8 DEF IInv

\* A handler sends its next statement, or its method ends.
LEMMA HandlerStep ==
    ASSUME IInv, NEW h \in Handlers, At(h, "using"),
           Release(h, Idle) \/ (~Last(h) /\ Release(h, Advanced(h))),
           UNCHANGED <<phase, schema>>, trials' \subseteq Trials, NoOrphans'
    PROVE  IInv'
<1>1. /\ Typed /\ Linked
      /\ h \in Processes /\ h # Main /\ Handlers \subseteq Processes /\ Main \in Processes
    BY ServerAssumption DEF IInv, Processes
<1>2. ~At(h, "idle")
    BY DEF At
<1>3. /\ phase = "serving"
      /\ req[h].program \in MethodPrograms
      /\ req[h].next \in DOMAIN req[h].program
      /\ req[h].trial \in Trials
    BY <1>2 DEF IInv, InMethod
<1>4. req[h] \in [at : {"ready", "waiting", "using"}, program : AllPrograms,
                  next : Nat, trial : Trials \cup {Nobody}]
    BY <1>1, <1>2, RequestParts
<1> DEFINE Good(r) ==
        /\ r \in Requests
        /\ r.at \in {"idle", "ready"}
        /\ r.at = "ready" => /\ r.program \in MethodPrograms
                             /\ r.next \in DOMAIN r.program
                             /\ r.trial \in Trials
<1>5. Good(Idle)
    BY DEF Idle, Requests
<1>6. ASSUME ~Last(h) PROVE Good(Advanced(h))
    <2>1. /\ Len(req[h].program) \in Nat
          /\ DOMAIN req[h].program = 1 .. Len(req[h].program)
        BY <1>3, MethodShape
    <2>2. req[h].next + 1 \in DOMAIN req[h].program
        BY <1>3, <1>6, <2>1 DEF Last
    <2>3. /\ Advanced(h) \in Requests
          /\ Advanced(h).at = "ready"
          /\ Advanced(h).program = req[h].program
          /\ Advanced(h).next = req[h].next + 1
          /\ Advanced(h).trial = req[h].trial
        BY <1>1, <1>2, AdvancedRequest
    <2>4. QED
        BY <1>3, <2>2, <2>3
<1>7. PICK r : Good(r) /\ Release(h, r)
    BY <1>5, <1>6
<1>8. r \in Requests /\ r.at # "using"
    BY <1>7
<1>9. /\ conns' \in [Conns -> Connections]
      /\ req' \in [Processes -> Requests]
      /\ Linked'
      /\ conns'[1].open
      /\ conns[1].foreignKeys => conns'[1].foreignKeys
      /\ req'[h] = r
      /\ Proceed(h)
    BY <1>1, <1>7, <1>8, ReleaseEffect DEF Proceed
<1>10. Typed'
    BY <1>1, <1>9 DEF Typed
<1>11. InMethod'
    <2> SUFFICES ASSUME NEW g \in Handlers, ~At(g, "idle")'
                 PROVE  /\ phase' = "serving"
                        /\ req'[g].program \in MethodPrograms
                        /\ req'[g].next \in DOMAIN req'[g].program
                        /\ req'[g].trial \in Trials
        BY DEF InMethod
    <2>1. CASE g = h
        BY <1>3, <1>7, <1>9, <2>1 DEF At
    <2>2. CASE g # h
        BY <1>1, <1>3, <1>9, <2>2, ProceedKeeps DEF IInv, InMethod
    <2>3. QED
        BY <2>1, <2>2
<1>12. (Opening /\ Enforcing /\ Migrated)'
    <2>1. At(Main, "idle")'
        BY <1>1, <1>3, <1>9, ProceedKeeps DEF IInv, Opening
    <2>2. QED
        BY <1>3, <1>9, <2>1 DEF IInv, Opening, Enforcing, Migrated
<1>13. QED
    BY <1>9, <1>10, <1>11, <1>12 DEF IInv

\* The connection a handler uses enforces the foreign keys, so a row that
\* refers to no trial is refused.
LEMMA ExecuteStep ==
    ASSUME IInv, NEW h \in Handlers, Execute(h) PROVE IInv'
<1>1. h \in Processes /\ At(h, "using") /\ ~At(h, "idle") /\ Typed /\ Linked
    BY DEF Execute, At, IInv, Processes
<1>2. phase = "serving" /\ req[h].trial \in Trials
    BY <1>1 DEF IInv, InMethod
<1>3. ConnOf(h) = 1 /\ conns[1].foreignKeys
    BY <1>1, <1>2, UsedConnection DEF IInv, Enforcing
<1>4. trials' \subseteq Trials
    BY <1>1, <1>2 DEF Execute, Typed
<1>5. NoOrphans'
    BY <1>3 DEF Execute, Refused, NoOrphans, IInv
<1>6. Release(h, Idle) \/ (~Last(h) /\ Release(h, Advanced(h)))
    BY DEF Execute
<1>7. QED
    BY <1>1, <1>4, <1>5, <1>6, HandlerStep DEF Execute

LEMMA AbandonStep ==
    ASSUME IInv, NEW h \in Handlers, Abandon(h) PROVE IInv'
BY HandlerStep DEF Abandon, IInv, Typed, NoOrphans

LEMMA SendsAgain ==
    ASSUME NEW program \in {Pragmas, CreateAll}
    PROVE  /\ Request(program, Nobody) \in Requests
           /\ Request(program, Nobody).at = "ready"
           /\ Request(program, Nobody).program = program
           /\ Request(program, Nobody).next = 1
BY DEF Request, Requests, AllPrograms

\* What main does next: its next pragma or CREATE, the migration after the
\* last pragma, and nothing after the last CREATE.
LEMMA OpenStepStep ==
    ASSUME IInv, OpenStep PROVE IInv'
<1>1. /\ Typed /\ Linked /\ Opening
      /\ Main \in Processes /\ Main \notin Handlers /\ Handlers \subseteq Processes
      /\ At(Main, "using") /\ ~At(Main, "idle")
    BY ServerAssumption DEF IInv, Processes, OpenStep, At
<1>2. phase \in {"pragmas", "migrating"}
    BY <1>1 DEF Typed, Phases, Opening
<1>3. \A h \in Handlers : At(h, "idle")
    BY <1>2 DEF IInv, InMethod
<1>4. UNCHANGED <<trials, orphans>>
    BY DEF OpenStep
<1>5. conns[1].open
    BY <1>1, UsedConnection
\* Whatever main does next, the other processes and the pool are in order.
<1>6. ASSUME NEW r \in Requests, r.at # "using", Release(Main, r),
             phase' \in Phases, schema' \subseteq AllObjects
      PROVE  /\ Typed' /\ Linked' /\ InMethod' /\ NoOrphans'
             /\ req'[Main] = r
             /\ conns'[1].open
             /\ conns[1].foreignKeys \/ StatementOf(Main) = Pragmas[2]
                   => conns'[1].foreignKeys
    <2>1. /\ conns' \in [Conns -> Connections]
          /\ req' \in [Processes -> Requests]
          /\ Linked'
          /\ conns'[1].open
          /\ conns[1].foreignKeys \/ StatementOf(Main) = Pragmas[2] => conns'[1].foreignKeys
          /\ req'[Main] = r
          /\ Proceed(Main)
        BY <1>1, <1>6, ReleaseEffect DEF Proceed
    <2>2. \A h \in Handlers : At(h, "idle")'
        BY <1>1, <1>3, <2>1, ProceedKeeps
    <2>3. Typed'
        BY <1>1, <1>4, <1>6, <2>1 DEF Typed
    <2>4. InMethod' /\ NoOrphans'
        BY <1>4, <2>2 DEF InMethod, NoOrphans, IInv
    <2>5. QED
        BY <2>1, <2>3, <2>4
<1>7. /\ Advanced(Main) \in Requests
      /\ Advanced(Main).at = "ready"
      /\ Advanced(Main).program = req[Main].program
      /\ Advanced(Main).next = req[Main].next + 1
    BY <1>1, AdvancedRequest
<1>8. CASE phase = "pragmas"
    <2>1. /\ req[Main].program = Pragmas
          /\ req[Main].next \in 1 .. 3
          /\ StatementOf(Main) = Pragmas[req[Main].next]
          /\ StatementOf(Main).does = "pragma"
          /\ Last(Main) <=> req[Main].next = 3
        BY <1>1, <1>8, OpeningPrograms DEF Opening, StatementOf, Last
    <2>2. schema' = schema /\ schema \subseteq AllObjects
        BY <1>1, <2>1 DEF OpenStep, Typed
    <2>3. CASE ~Last(Main)
        <3>1. Release(Main, Advanced(Main)) /\ phase' = "pragmas"
            BY <1>8, <2>3 DEF OpenStep
        <3>2. /\ Typed' /\ Linked' /\ InMethod' /\ NoOrphans'
              /\ req'[Main] = Advanced(Main)
              /\ conns'[1].open
              /\ StatementOf(Main) = Pragmas[2] => conns'[1].foreignKeys
            BY <1>6, <1>7, <2>2, <3>1 DEF Phases
        <3>3. Opening'
            BY <1>7, <2>1, <2>3, <3>1, <3>2 DEF Opening, At
        <3>4. Enforcing'
            BY <1>7, <2>1, <3>1, <3>2 DEF Enforcing
        <3>5. Migrated'
            BY <3>1 DEF Migrated
        <3>6. QED
            BY <3>2, <3>3, <3>4, <3>5 DEF IInv
    <2>4. CASE Last(Main)
        <3>1. Release(Main, Request(CreateAll, Nobody)) /\ phase' = "migrating"
            BY <1>8, <2>4 DEF OpenStep, Migration
        <3>2. /\ Typed' /\ Linked' /\ InMethod' /\ NoOrphans'
              /\ req'[Main] = Request(CreateAll, Nobody)
              /\ conns'[1].open
              /\ conns[1].foreignKeys => conns'[1].foreignKeys
            BY <1>6, <2>2, <3>1, SendsAgain DEF Phases
        <3>3. Opening'
            BY <3>1, <3>2, SendsAgain DEF Opening, At
        <3>4. conns[1].foreignKeys
            BY <1>8, <2>1, <2>4 DEF IInv, Enforcing
        <3>5. Enforcing'
            BY <3>1, <3>2, <3>4 DEF Enforcing
        <3>6. Migrated'
            BY <3>1, <3>2, SendsAgain DEF Migrated
        <3>7. QED
            BY <3>2, <3>3, <3>5, <3>6 DEF IInv
    <2>5. QED
        BY <2>3, <2>4
<1>9. CASE phase = "migrating"
    <2>1. /\ req[Main].program = CreateAll
          /\ req[Main].next \in 1 .. 12
          /\ StatementOf(Main) = Statement("create", Objects[req[Main].next])
          /\ Last(Main) <=> req[Main].next = 12
        BY <1>1, <1>9, OpeningPrograms DEF Opening, StatementOf, Last
    <2>2. schema' = schema \cup {Objects[req[Main].next]}
        BY <2>1 DEF OpenStep, Statement
    <2>3. \A i \in 1 .. req[Main].next : Objects[i] \in schema'
        BY <1>9, <2>1, <2>2 DEF IInv, Migrated
    <2>4. schema' \subseteq AllObjects
        BY <1>1, <2>1, <2>2, OpeningPrograms DEF Typed, AllObjects
    <2>5. conns[1].foreignKeys
        BY <1>9 DEF IInv, Enforcing
    <2>6. CASE ~Last(Main)
        <3>1. Release(Main, Advanced(Main)) /\ phase' = "migrating"
            BY <1>9, <2>6 DEF OpenStep
        <3>2. /\ Typed' /\ Linked' /\ InMethod' /\ NoOrphans'
              /\ req'[Main] = Advanced(Main)
              /\ conns'[1].open /\ conns'[1].foreignKeys
            BY <1>6, <1>7, <2>4, <2>5, <3>1 DEF Phases
        <3>3. Opening'
            BY <1>7, <2>1, <2>6, <3>1, <3>2 DEF Opening, At
        <3>4. Enforcing'
            BY <3>1, <3>2 DEF Enforcing
        <3>5. Migrated'
            BY <1>7, <2>1, <2>3, <3>1, <3>2 DEF Migrated
        <3>6. QED
            BY <3>2, <3>3, <3>4, <3>5 DEF IInv
    <2>7. CASE Last(Main)
        <3>1. Release(Main, Idle) /\ phase' = "serving"
            BY <1>9, <2>7 DEF OpenStep
        <3>2. Idle \in Requests /\ Idle.at = "idle"
            BY DEF Requests, Idle
        <3>3. /\ Typed' /\ Linked' /\ InMethod' /\ NoOrphans'
              /\ req'[Main] = Idle
              /\ conns'[1].open /\ conns'[1].foreignKeys
            BY <1>6, <2>4, <2>5, <3>1, <3>2 DEF Phases
        <3>4. Opening' /\ Enforcing'
            BY <3>1, <3>2, <3>3 DEF Opening, Enforcing, At
        <3>5. AllObjects \subseteq schema'
            BY <2>1, <2>3, <2>7, OpeningPrograms DEF AllObjects
        <3>6. Migrated'
            BY <2>4, <3>1, <3>5 DEF Migrated
        <3>7. QED
            BY <3>3, <3>4, <3>6 DEF IInv
    <2>8. QED
        BY <2>6, <2>7
<1>10. QED
    BY <1>2, <1>8, <1>9

LEMMA InvNext == IInv /\ [Next]_vars => IInv'
<1> SUFFICES ASSUME IInv, [Next]_vars PROVE IInv'
    OBVIOUS
<1>1. CASE Boot
    BY <1>1, BootStep
<1>2. CASE Crash \/ OpenFails
    BY <1>2, DieStep DEF Crash, OpenFails
<1>3. CASE OpenStep
    BY <1>3, OpenStepStep
<1>4. ASSUME NEW h \in Handlers, NEW o \in Operations, NEW t \in Trials, Arrive(h, o, t)
      PROVE  IInv'
    BY <1>4, ArriveStep
<1>5. ASSUME NEW h \in Handlers, Execute(h) \/ Abandon(h) PROVE IInv'
    BY <1>5, ExecuteStep, AbandonStep
<1>6. ASSUME NEW p \in Processes, Take(p) PROVE IInv'
    BY <1>6, TakeStep
<1>7. CASE UNCHANGED vars
    BY <1>7 DEF vars, IInv, Typed, Linked, InMethod, Opening, Enforcing, Migrated,
       NoOrphans, At
<1>8. QED
    BY <1>1, <1>2, <1>3, <1>4, <1>5, <1>6, <1>7 DEF Next

LEMMA Invariant == Spec => []IInv
BY InvInit, InvNext, PTL DEF Spec

-----------------------------------------------------------------------------

\* The rows of the file, the one connection and the processes agree on who
\* uses the connection, through waiting, hand-over, crash and restart.
THEOREM TypeCorrect == Spec => []TypeOK
<1>1. IInv => TypeOK
    <2> SUFFICES ASSUME IInv PROVE TypeOK
        OBVIOUS
    <2>1. Typed /\ Linked
        BY DEF IInv
    <2>2. \A p \in Processes :
              At(p, "using") <=> \E c \in Conns : conns[c].open /\ conns[c].user = p
        BY <2>1, OneConnection, ServerAssumption DEF Linked
    <2>3. QED
        BY <2>1, <2>2 DEF TypeOK, Typed, Phases, Connections
<1>2. QED
    BY <1>1, Invariant, PTL

\* No request is served and no statement of one runs before every table and
\* index is there, however often the process died while it created them
\* (Open, migrate).
THEOREM SchemaComplete == Spec => []SchemaBeforeUse
<1>1. IInv => SchemaBeforeUse
    <2> SUFFICES ASSUME IInv, NEW h \in Handlers, At(h, "using")
                 PROVE  StatementOf(h).table \in schema
        BY DEF IInv, Migrated, SchemaBeforeUse
    <2>1. ~At(h, "idle")
        BY DEF At
    <2>2. /\ phase = "serving"
          /\ req[h].program \in MethodPrograms
          /\ req[h].next \in DOMAIN req[h].program
        BY <2>1 DEF IInv, InMethod
    <2>3. StatementOf(h).table \in AllObjects
        BY <2>2, MethodShape DEF StatementOf
    <2>4. QED
        BY <2>2, <2>3 DEF IInv, Migrated
<1>2. QED
    BY <1>1, Invariant, PTL

\* No row refers to a trial that is not there: there is one connection, it
\* is told to enforce foreign keys before the schema is created, and only a
\* new process replaces it (Open, SetMaxOpenConns).
THEOREM ForeignKeysHold == Spec => []NoOrphans
<1>1. IInv => NoOrphans
    BY DEF IInv
<1>2. QED
    BY <1>1, Invariant, PTL
=============================================================================
