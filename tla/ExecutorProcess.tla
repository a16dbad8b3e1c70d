-------------------------- MODULE ExecutorProcess --------------------------
(***************************************************************************)
(* run() (src/main.cpp): how one executor process after another opens the  *)
(* telemetry database, listens, serves, and takes both down again.  The    *)
(* database and the socket file outlive the process, which may crash at    *)
(* any point; the supervisor then starts the next one, or has started it   *)
(* already.                                                                *)
(***************************************************************************)
EXTENDS TelemetryOpen, SocketLifecycle

vars == <<dbVars, lifeVars>>

Init == DbInit /\ LifeInit

\* The supervisor starts a process, with --telemetry-db or without.
Start(p) ==
    /\ \/ StartAt(p, "open") /\ OpenFile(p)
       \/ StartAt(p, "unlink") /\ UNCHANGED dbVars
    /\ UNCHANGED <<socket_path, mode, listening, bindFailed>>

\* telemetry->open(): its error ends the process before there is a server, whose
\* destructor would touch the socket file.
OpenTelemetry(p) ==
    /\ step[p] = "open"
    /\ \/ (Probe(p) \/ CreateNext(p) \/ Stamp(p)) /\ UNCHANGED <<step, overlapped>>
       \/ StartWriter(p) /\ Goto(p, "unlink")
       \/ OpenReturnsError(p) /\ Goto(p, "exited")
    /\ UNCHANGED <<socket_path, mode, listening, bindFailed>>

\* server.listen().
ListenOnSocket(p) ==
    /\ Unlink(p) \/ Bind(p) \/ Chmod(p) \/ Listen(p) \/ ListenFails(p)
    /\ UNCHANGED dbVars

\* serve_forever() returns, see ExecutorServer.
ServeForever(p) ==
    /\ step[p] = "serve"
    /\ Goto(p, "close")
    /\ UNCHANGED <<dbVars, socket_path, mode, listening, bindFailed>>

\* telemetry->close(), see TelemetrySink.  The socket still listens.
CloseTelemetry(p) ==
    /\ step[p] = "close"
    /\ ConnectionGone(p)
    /\ Goto(p, "destroy")
    /\ UNCHANGED <<socket_path, mode, listening, bindFailed>>

\* The destructors, in reverse order: the server first, then the sink, which is
\* still open when listen() failed.
Destroy(p) ==
    \/ (DestroyCloses(p) \/ DestroyRemoves(p)) /\ UNCHANGED dbVars
    \/ /\ step[p] = "return"
       /\ ConnectionGone(p)
       /\ Goto(p, "exited")
       /\ UNCHANGED <<socket_path, mode, listening, bindFailed>>

Crash(p) ==
    /\ p \in Running
    /\ ConnectionGone(p)
    /\ listening' = listening \ {p}
    /\ Goto(p, "crashed")
    /\ UNCHANGED <<socket_path, mode, bindFailed>>

Next ==
    \/ \E p \in Executors :
          \/ Start(p) \/ OpenTelemetry(p) \/ ListenOnSocket(p) \/ ServeForever(p)
          \/ CloseTelemetry(p) \/ Destroy(p) \/ Crash(p)
    \/ PythonCreates /\ UNCHANGED lifeVars

Spec == Init /\ [][Next]_vars

=============================================================================
