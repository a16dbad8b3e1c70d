------------------------------ MODULE Executor ------------------------------
(***************************************************************************)
(* The running executable (run() in src/main.cpp): the server, whose       *)
(* record_wake_recv callback records into the telemetry, the writer's      *)
(* thread, and the signal that stops them.  The server is ExecutorServer;  *)
(* the telemetry is its abstract specification TelemetryLog, which         *)
(* TelemetrySink is proved to implement.                                   *)
(*                                                                         *)
(* A signal is handled by whichever thread the kernel picks, since run()   *)
(* blocks none in either: by the server's own thread, or by the writer's,  *)
(* where the handler reads g_server, a plain pointer that run() clears     *)
(* meanwhile, once to check it and once to call stop() through it.         *)
(* Bound: one signal in the life of the process.                           *)
(***************************************************************************)
EXTENDS ExecutorServer

CONSTANTS
    Capacity,      \* the telemetry ring's capacity
    MaxBatchRows   \* kMaxBatchRows

ASSUME ExecutorAssumption == Capacity \in Nat /\ MaxBatchRows \in Nat

VARIABLES
    phase,      \* where run() is
    sink,       \* whether --telemetry-db was given
    handling,   \* the handler on the writer's thread: it has found g_server set
                \* ("checked"), and called stop() ("called") or died of the call ("null")
    pending, table, lost, dropped, up   \* the telemetry, as TelemetryLog describes it

Log == INSTANCE TelemetryLog WITH Row <- 1..MaxFrames

logVars == <<pending, table, lost, dropped, up>>
runVars == <<phase, sink, handling>>
allVars == <<vars, runVars, logVars>>

ExecutorInit ==
    /\ Init /\ Log!Init
    /\ phase = "open" /\ sink \in BOOLEAN /\ handling = "no"

\* The writer's thread runs the handler, and nothing else until it returns.
WriterBusy == handling = "checked" \/ (handling = "called" /\ stopper # "done")

-----------------------------------------------------------------------------
\* telemetry->open(), if there is a database, then server.listen().
OpenAll ==
    /\ phase = "open"
    /\ phase' = "serve"
    /\ IF sink THEN Log!Open ELSE UNCHANGED logVars
    /\ UNCHANGED <<vars, sink, handling>>

\* Either of them fails, and run() returns.
OpenAllFails ==
    /\ phase = "open"
    /\ phase' = "done"
    /\ UNCHANGED <<vars, sink, handling, logVars>>

\* serve_forever(), which calls sink->record() for a wake it has acked: the ring
\* takes the row, or drops it when it is full or the id too long.
ServeForever ==
    /\ phase = "serve"
    /\ Server
    /\ IF pc = "record" /\ sink THEN Log!Accept(frame) \/ Log!Drop
                               ELSE UNCHANGED logVars
    /\ UNCHANGED runVars

\* g_server = nullptr.
ServeForeverReturns ==
    /\ phase = "serve" /\ Ended
    /\ phase' = IF sink THEN "close" ELSE "destroy"
    /\ UNCHANGED <<vars, sink, handling, logVars>>

\* Mutant: close() that leaves in the ring what is queued.
CloseTelemetryUndrained ==
    /\ phase = "close" /\ ~WriterBusy
    /\ up' = FALSE
    /\ phase' = "destroy"
    /\ UNCHANGED <<vars, sink, handling, pending, table, lost, dropped>>

\* Mutant: close() that does not join the writer's thread.
CloseTelemetryDetached ==
    /\ phase = "close"
    /\ Log!CloseReturns
    /\ phase' = "destroy"
    /\ UNCHANGED <<vars, sink, handling>>

\* telemetry->close(), which joins the writer: its thread has drained the ring
\* and is in no handler.
CloseTelemetry ==
    /\ phase = "close" /\ ~WriterBusy
    /\ Log!CloseReturns
    /\ phase' = "destroy"
    /\ UNCHANGED <<vars, sink, handling>>

\* run() returns and destroys the server.
ReturnFromRun ==
    /\ phase = "destroy"
    /\ phase' = "done"
    /\ UNCHANGED <<vars, sink, handling, logVars>>

WriterSettles ==
    /\ phase \in {"serve", "close"} /\ ~WriterBusy
    /\ Log!Settle
    /\ UNCHANGED <<vars, runVars>>

-----------------------------------------------------------------------------
\* request_stop() on the server's thread, whose own stores it sees.
HandlerOnServer ==
    /\ phase = "serve" /\ handling = "no"
    /\ StopFromHandler
    /\ UNCHANGED <<runVars, logVars>>

\* request_stop() on the writer's thread finds g_server set.  Nothing orders that
\* read after run()'s store (a data race): it may still find it so afterwards.
HandlerOnWriter ==
    /\ phase \in {"serve", "close"} /\ up /\ stopper = "idle" /\ handling = "no"
    /\ handling' = "checked"
    /\ UNCHANGED <<vars, phase, sink, logVars>>

\* Its second read finds it set too, at any time for the same reason (the compiler
\* may also have kept what the first read returned), and stop() is entered.
HandlerCalls ==
    /\ handling = "checked" /\ phase # "crashed"
    /\ handling' = "called"
    /\ UNCHANGED <<vars, phase, sink, logVars>>

\* run() has cleared it in between: stop() on a null pointer kills the process.
HandlerCallsNull ==
    /\ handling = "checked" /\ phase = "close"
    /\ handling' = "null" /\ phase' = "crashed"
    /\ Log!Crash
    /\ UNCHANGED <<vars, sink>>

HandlerRuns ==
    /\ phase # "crashed" /\ handling = "called"
    /\ StopStoresFlag \/ StopWritesPipe \/ StopLoadsFd \/ StopShutsDown
    /\ UNCHANGED <<runVars, logVars>>

\* The process is killed: what was not committed is gone.
Crash ==
    /\ phase \in {"serve", "close"}
    /\ phase' = "crashed"
    /\ Log!Crash
    /\ UNCHANGED <<vars, sink, handling>>

Environment ==
    /\ phase = "serve"
    /\ BufferDrains \/ PollFails \/ Peer
    /\ UNCHANGED <<runVars, logVars>>

ExecutorNext ==
    \/ OpenAll \/ OpenAllFails \/ ServeForever \/ ServeForeverReturns
    \/ WriterSettles \/ CloseTelemetry \/ ReturnFromRun
    \/ HandlerOnServer \/ HandlerOnWriter
    \/ HandlerCalls \/ HandlerCallsNull \/ HandlerRuns
    \/ Crash \/ Environment

\* Fairness.  Both threads run; the writer settles what it is given, as
\* TelemetrySink does under the fairness of its own threads (its RowsReachTable).
ExecutorFairness ==
    /\ WF_allVars(OpenAll \/ ServeForever \/ ServeForeverReturns \/ CloseTelemetry
                    \/ ReturnFromRun)
    /\ WF_allVars(WriterSettles)
    /\ WF_allVars(HandlerCalls \/ HandlerCallsNull \/ HandlerRuns)
    /\ WF_allVars(Environment /\ BufferDrains)

ExecutorSpec == ExecutorInit /\ [][ExecutorNext]_allVars /\ ExecutorFairness

-----------------------------------------------------------------------------
(* Properties.                                                             *)

\* When a process with a telemetry database ends by a stop, every fire is a row,
\* or is counted among the rows dropped and lost: run() closes the telemetry only
\* when no callback can record any more.
EveryFireAccounted ==
    phase = "done" /\ sink =>
        /\ Len(fired) = Len(table) + Cardinality(lost) + dropped
        /\ pending = << >>

AckedBefore(x, y) == \E k, l \in DOMAIN acked : k < l /\ acked[k] = x /\ acked[l] = y

\* At any moment, and in the file a crash leaves, the rows are those of wakes
\* that were acked, in that order, and a row whose wake was not fired is the one
\* of the wake being handled.
RowsFollowAcks ==
    /\ Range(table) \subseteq Range(acked)
    /\ \A i, j \in DOMAIN table : i < j => AckedBefore(table[i], table[j])
    /\ \A r \in Range(table) \ Range(fired) : r = frame /\ pc = "fire"

\* What the two unordered reads of g_server can cost.  The handler never runs stop()
\* on a server that run() has destroyed: when run() ends, no handler is on its way.
\* And it calls stop() through a pointer cleared between its check and its call
\* only when the server had given up by itself, since nobody else ends it before
\* the handler does.
StopNeverOnDeadServer ==
    /\ phase = "done" => ~WriterBusy
    /\ handling = "null" => pc = "gave_up"

\* A signal ends the process with the telemetry drained, whatever the peer and
\* SQLite do, unless stop() misses the store of the connection, the handler dies of
\* a cleared g_server or the process is killed meanwhile.
SignalEndsProcess ==
    (handling # "no" \/ stopper # "idle") ~> (phase \in {"done", "crashed"} \/ missed)

=============================================================================
