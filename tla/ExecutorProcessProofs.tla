----------------------- MODULE ExecutorProcessProofs -----------------------
(***************************************************************************)
(* What the database file and the socket file keep through any number of   *)
(* executor processes, any overlap of them that the supervisor allows, and *)
(* a crash or a failure at any step.                                       *)
(*                                                                         *)
(* The two files are touched at different steps of a process, so each has  *)
(* an inductive invariant of its own: DatabaseInv ties the objects of the  *)
(* file to the statements each open() has executed, SocketInv ties the     *)
(* path to the step of the process that bound it.                          *)
(***************************************************************************)
EXTENDS ExecutorProcess, TLAPS

Ended == {"not_started", "exited", "crashed"}
Steps == Ended \cup {"open", "unlink", "bind", "chmod", "listen", "serve", "close",
                     "destroy", "destroy_path", "return"}

-----------------------------------------------------------------------------
(* The database file.                                                      *)

DatabaseTypeOK ==
    /\ opc \in [Executors -> {"closed", "probe", "schema", "prepare", "opened"}]
    /\ preexisting \in [Executors -> BOOLEAN]
    /\ created \in [Executors -> 0..5]
    /\ objects \subseteq Objects

\* Nothing an open() has created is ever dropped, and one that is past the schema
\* has executed all of it.
CreatedIsInFile ==
    \A p \in Executors :
        /\ \A i \in 1..created[p] : Schema[i] \in objects
        /\ opc[p] \in {"prepare", "opened"} => created[p] = 5

\* While the Python's database is intact, whoever is about to stamp has seen it.
PythonSeen ==
    creator = "python" /\ ~misled =>
        /\ user_version = PythonVersion /\ HasTable
        /\ \A p \in Executors : opc[p] = "schema" => preexisting[p]

\* The inductive invariant of the database file.
DatabaseInv == DatabaseTypeOK /\ CreatedIsInFile /\ PythonSeen

\* kSchemaSql has five statements, and the second of them makes latency_events.
LEMMA SchemaFacts ==
    /\ Len(Schema) = 5
    /\ Objects = {Schema[i] : i \in 1..5}
    /\ "latency_events" \in Objects
  <1>1. Len(Schema) = 5 /\ DOMAIN Schema = 1..5 /\ Schema[2] = "latency_events"
    BY DEF Schema
  <1> QED
    BY <1>1 DEF Objects

\* What a step of process p can do to the database file and to its own open().
DatabaseStep(p) ==
    \/ OpenFile(p) \/ Probe(p) \/ CreateNext(p) \/ Stamp(p) \/ StartWriter(p)
    \/ OpenReturnsError(p) \/ ConnectionGone(p)

\* Every step of the system is one of these for the database, or the Python's, or
\* leaves it alone.
LEMMA NextOnDatabase ==
  ASSUME [Next]_vars
  PROVE  PythonCreates \/ UNCHANGED dbVars \/ \E p \in Executors : DatabaseStep(p)
  BY Zenon DEF Next, vars, DatabaseStep, Start, OpenTelemetry, ListenOnSocket,
         ServeForever, CloseTelemetry, Destroy, Crash

\* The invariant holds of a file that does not exist yet.
LEMMA DatabaseInvInit == Init => DatabaseInv
  BY DEF Init, DbInit, DatabaseInv, DatabaseTypeOK, CreatedIsInFile, PythonSeen

\* A step of open(), close() or a crash keeps it.
LEMMA DatabaseInvStep ==
  ASSUME DatabaseInv, NEW p \in Executors, DatabaseStep(p)
  PROVE  DatabaseInv'
  <1> USE DEF DatabaseInv, DatabaseTypeOK, At, fileVars
  <1>1. CASE CreateNext(p)
    <2>1. created[p] \in 0..4 /\ created' = [created EXCEPT ![p] = @ + 1]
      BY <1>1, SchemaFacts DEF CreateNext
    <2>2. objects' = objects \cup {Schema[created[p] + 1]} /\ Schema[created[p] + 1] \in Objects
      BY <1>1, <2>1, SchemaFacts DEF CreateNext, Create
    <2>3. UNCHANGED <<opc, preexisting, user_version, misled>>
      BY <1>1 DEF CreateNext
    <2>4. DatabaseTypeOK'
      BY <2>1, <2>2, <2>3
    <2>5. CreatedIsInFile'
      <3>1. ASSUME NEW q \in Executors, NEW i \in 1..created'[q]
            PROVE  Schema[i] \in objects'
        BY <2>1, <2>2, <3>1 DEF CreatedIsInFile
      <3>2. ASSUME NEW q \in Executors, opc'[q] \in {"prepare", "opened"}
            PROVE  created'[q] = 5
        BY <1>1, <2>1, <2>3, <3>2 DEF CreatedIsInFile, CreateNext
      <3> QED
        BY <3>1, <3>2 DEF CreatedIsInFile
    <2>6. PythonSeen'
      BY <1>1, <2>2, <2>3 DEF PythonSeen, HasTable, CreateNext, Create
    <2> QED
      BY <2>4, <2>5, <2>6
  <1>2. CASE Probe(p)
    <2>1. PICK found \in {HasTable, FALSE} :
             /\ preexisting' = [preexisting EXCEPT ![p] = found]
             /\ misled' = (misled \/ found # HasTable)
      BY <1>2 DEF Probe
    <2>2. opc' = [opc EXCEPT ![p] = "schema"] /\ UNCHANGED <<created, fileVars>>
      BY <1>2 DEF Probe
    <2>3. DatabaseTypeOK' /\ CreatedIsInFile'
      <3>1. HasTable \in BOOLEAN
        BY DEF HasTable
      <3>2. found = HasTable \/ found = FALSE
        BY <2>1
      <3>3. found \in BOOLEAN
        BY <3>1, <3>2, Zenon
      <3> QED
        BY <2>1, <2>2, <3>3 DEF CreatedIsInFile
    <2>4. PythonSeen'
      <3> SUFFICES ASSUME creator' = "python", ~misled'
                   PROVE  /\ user_version' = PythonVersion /\ HasTable'
                          /\ \A q \in Executors : opc'[q] = "schema" => preexisting'[q]
        BY DEF PythonSeen
      <3>1. creator = "python" /\ ~misled /\ found = HasTable
        BY <2>1, <2>2, Zenon
      <3>2. HasTable /\ HasTable' /\ found = TRUE
        BY <2>2, <3>1 DEF PythonSeen, HasTable
      <3> QED
        BY <2>1, <2>2, <3>1, <3>2 DEF PythonSeen
    <2> QED
      BY <2>3, <2>4
  <1>3. CASE Stamp(p)
    BY <1>3, SchemaFacts DEF Stamp, CreatedIsInFile, PythonSeen, HasTable
  <1>4. CASE OpenFile(p) \/ StartWriter(p) \/ OpenReturnsError(p) \/ ConnectionGone(p)
    BY <1>4 DEF OpenFile, StartWriter, OpenReturnsError, ConnectionGone,
                CreatedIsInFile, PythonSeen, HasTable
  <1> QED
    BY <1>1, <1>2, <1>3, <1>4 DEF DatabaseStep

\* So does every step of the system, the Python's creation of the file included.
LEMMA DatabaseInvNext == DatabaseInv /\ [Next]_vars => DatabaseInv'
  <1> SUFFICES ASSUME DatabaseInv, [Next]_vars PROVE DatabaseInv'
    OBVIOUS
  <1>1. CASE PythonCreates
    BY <1>1, SchemaFacts DEF PythonCreates, DatabaseInv, DatabaseTypeOK, CreatedIsInFile,
                             PythonSeen, HasTable
  <1>2. CASE UNCHANGED dbVars
    BY <1>2 DEF dbVars, fileVars, DatabaseInv, DatabaseTypeOK, CreatedIsInFile,
                PythonSeen, HasTable
  <1> QED
    BY <1>1, <1>2, NextOnDatabase, DatabaseInvStep

\* Rows are inserted into a complete schema only, whatever earlier opens left.
THEOREM SchemaIsComplete == Spec => []SchemaComplete
  <1>1. DatabaseInv => SchemaComplete
    <2> SUFFICES ASSUME DatabaseInv, NEW p \in Executors, opc[p] \in {"prepare", "opened"}
                 PROVE  objects = Objects
      BY DEF SchemaComplete
    <2>1. \A i \in 1..5 : Schema[i] \in objects
      BY DEF DatabaseInv, CreatedIsInFile
    <2> QED
      BY <2>1, SchemaFacts DEF DatabaseInv, DatabaseTypeOK
  <1> QED
    BY <1>1, DatabaseInvInit, DatabaseInvNext, PTL DEF Spec

\* The version of a database the Python created stays the Python's, as long as
\* every probe saw what was there.
THEOREM PythonVersionStays == Spec => []VersionBelongsToCreator
  <1>1. DatabaseInv => VersionBelongsToCreator
    BY DEF DatabaseInv, PythonSeen, VersionBelongsToCreator
  <1> QED
    BY <1>1, DatabaseInvInit, DatabaseInvNext, PTL DEF Spec

-----------------------------------------------------------------------------
(* The socket file.                                                        *)

SocketTypeOK ==
    /\ step \in [Executors -> Steps]
    /\ socket_path \in Executors \cup {NoFile}
    /\ mode \in [Executors -> {"umask", "owner"}]
    /\ listening \subseteq Executors

\* A process listens from listen() until its destructor closes the descriptor, and
\* its file is narrowed before.  Another's chmod() may narrow this file, and this
\* one's another, but a path that is this one's again was narrowed for it.
NarrowedFirst ==
    \A p \in Executors :
        /\ p \in listening => step[p] \in {"serve", "close", "destroy"}
        /\ (step[p] = "listen" \/ p \in listening) /\ socket_path = p => mode[p] = "owner"

\* A process that runs alone finds the path as its own steps left it.
AloneOwnsPath ==
    \A p \in Executors \ overlapped :
        /\ p \in Running => Running = {p}
        /\ step[p] = "bind" => socket_path = NoFile
        /\ step[p] \in {"chmod", "listen", "serve"} => socket_path = p
        /\ p \notin bindFailed

\* The inductive invariant of the socket file.
SocketInv == SocketTypeOK /\ NarrowedFirst /\ AloneOwnsPath

\* The invariant holds before the first process.
LEMMA SocketInvInit == Init => SocketInv
  BY DEF Init, LifeInit, SocketInv, SocketTypeOK, NarrowedFirst, AloneOwnsPath, Running,
         Steps, Ended

\* What a step of process p can do to the socket file, the descriptor and its place.
SocketStep(p) ==
    \/ \E s \in {"open", "unlink"} :
          StartAt(p, s) /\ UNCHANGED <<socket_path, mode, listening, bindFailed>>
    \/ Unlink(p) \/ Bind(p) \/ Chmod(p) \/ Listen(p) \/ ListenFails(p)
    \/ DestroyCloses(p) \/ DestroyRemoves(p)
    \/ /\ p \in Running /\ listening' = listening \ {p} /\ Goto(p, "crashed")
       /\ UNCHANGED <<socket_path, mode, bindFailed>>
    \/ \E m \in {<<"open", "unlink">>, <<"open", "exited">>, <<"serve", "close">>,
                 <<"close", "destroy">>, <<"return", "exited">>} :
          /\ step[p] = m[1] /\ Goto(p, m[2])
          /\ UNCHANGED <<socket_path, mode, listening, bindFailed>>

\* Every step of the system is one of these for the socket, or leaves it alone.
LEMMA NextOnSocket ==
  ASSUME [Next]_vars
  PROVE  UNCHANGED lifeVars \/ \E p \in Executors : SocketStep(p)
  <1> SUFFICES ASSUME NEW p \in Executors,
                      \/ Start(p) \/ OpenTelemetry(p) \/ ListenOnSocket(p)
                      \/ ServeForever(p) \/ CloseTelemetry(p) \/ Destroy(p) \/ Crash(p)
               PROVE  UNCHANGED lifeVars \/ SocketStep(p)
    BY DEF Next, vars
  <1> USE DEF SocketStep
  <1>1. CASE Start(p)
    BY <1>1 DEF Start
  <1>2. CASE OpenTelemetry(p)
    BY <1>2 DEF OpenTelemetry, lifeVars
  <1>3. CASE ListenOnSocket(p)
    BY <1>3 DEF ListenOnSocket
  <1>4. CASE ServeForever(p)
    BY <1>4 DEF ServeForever
  <1>5. CASE CloseTelemetry(p)
    BY <1>5 DEF CloseTelemetry
  <1>6. CASE Destroy(p)
    BY <1>6 DEF Destroy
  <1>7. CASE Crash(p)
    BY <1>7 DEF Crash
  <1> QED
    BY <1>1, <1>2, <1>3, <1>4, <1>5, <1>6, <1>7

\* Starting a process ends the solitude of those that run.
LEMMA SocketInvStart ==
  ASSUME SocketInv, NEW p \in Executors, NEW s \in {"open", "unlink"}, StartAt(p, s),
         UNCHANGED <<socket_path, mode, listening, bindFailed>>
  PROVE  SocketInv'
  <1> USE DEF SocketInv, SocketTypeOK, StartAt, Steps, Ended
  <1>1. SocketTypeOK' /\ NarrowedFirst'
    BY DEF NarrowedFirst
  <1>2. Running' = Running \cup {p}
    BY DEF Running
  <1>3. AloneOwnsPath'
    <2>1. CASE Running = {}
      BY <1>2, <2>1 DEF AloneOwnsPath, Running
    <2>2. CASE Running # {}
      BY <1>2, <2>2 DEF AloneOwnsPath, Running
    <2> QED
      BY <2>1, <2>2
  <1> QED
    BY <1>1, <1>3

\* A step of a process that runs: no other process that runs alone is there to see it.
LEMMA SocketInvRun ==
  ASSUME SocketInv, NEW p \in Executors, SocketStep(p), p \in Running,
         UNCHANGED overlapped
  PROVE  SocketInv'
  <1> USE SocketAssumption DEF SocketInv, SocketTypeOK, SocketStep, StartAt, Goto, Unlink,
          Bind, Chmod, Listen, ListenFails, DestroyCloses, DestroyRemoves
  <1>1. SocketTypeOK'
    BY DEF Steps, Ended, Running
  <1>2. NarrowedFirst'
    BY DEF NarrowedFirst, Running
  <1>3. \A q \in Executors \ {p} : step'[q] = step[q] /\ (q \in bindFailed' => q \in bindFailed)
    BY DEF Running
  <1>4. Running' \subseteq Running /\ Running \subseteq Running' \cup {p}
    BY <1>3 DEF Running
  <1>5. AloneOwnsPath'
    <2> SUFFICES ASSUME NEW q \in Executors \ overlapped
                 PROVE  /\ q \in Running' => Running' = {q}
                        /\ step'[q] = "bind" => socket_path' = NoFile
                        /\ step'[q] \in {"chmod", "listen", "serve"} => socket_path' = q
                        /\ q \notin bindFailed'
      BY DEF AloneOwnsPath
    <2>1. CASE q = p
      BY <1>4, <2>1 DEF AloneOwnsPath, Running
    <2>2. CASE q # p
      BY <1>3, <1>4, <2>2 DEF AloneOwnsPath, Running
    <2> QED
      BY <2>1, <2>2
  <1> QED
    BY <1>1, <1>2, <1>5

\* No step of the system breaks the invariant.
LEMMA SocketInvNext == SocketInv /\ [Next]_vars => SocketInv'
  <1> SUFFICES ASSUME SocketInv, [Next]_vars PROVE SocketInv'
    OBVIOUS
  <1>1. CASE UNCHANGED lifeVars
    BY <1>1 DEF lifeVars, SocketInv, SocketTypeOK, NarrowedFirst, AloneOwnsPath, Running
  <1>2. ASSUME NEW p \in Executors, SocketStep(p)
        PROVE  SocketInv'
    <2>1. CASE \E s \in {"open", "unlink"} :
                  StartAt(p, s) /\ UNCHANGED <<socket_path, mode, listening, bindFailed>>
      BY <2>1, SocketInvStart
    <2>2. CASE ~\E s \in {"open", "unlink"} :
                  StartAt(p, s) /\ UNCHANGED <<socket_path, mode, listening, bindFailed>>
      <3>1. p \in Running /\ UNCHANGED overlapped
        BY <1>2, <2>2 DEF SocketStep, Running, Goto, Unlink, Bind, Chmod, Listen,
                          ListenFails, DestroyCloses, DestroyRemoves
      <3> QED
        BY <1>2, <3>1, SocketInvRun
    <2> QED
      BY <2>1, <2>2
  <1> QED
    BY <1>1, <1>2, NextOnSocket

\* After any history of crashes and overlaps, a process that runs alone is reached
\* at its path.
THEOREM RestartIsReachable == Spec => []RestartReachable
  <1>1. SocketInv => RestartReachable
    BY DEF SocketInv, AloneOwnsPath, RestartReachable
  <1> QED
    BY <1>1, SocketInvInit, SocketInvNext, PTL DEF Spec

\* A socket file that accepts connections is the owner's alone, for any number of
\* processes that narrow, unlink and bind one path at the same time.
THEOREM OnlyOwnerConnects == Spec => []ConnectableByOwnerOnly
  <1>1. SocketInv => ConnectableByOwnerOnly
    BY SocketAssumption DEF SocketInv, SocketTypeOK, NarrowedFirst, ConnectableByOwnerOnly
  <1> QED
    BY <1>1, SocketInvInit, SocketInvNext, PTL DEF Spec

=============================================================================
