--------------------------- MODULE BenchRoundtrip ---------------------------
(***************************************************************************)
(* bench_roundtrip (bench/bench_main.cpp): the executor on a worker thread *)
(* that runs serve_one_connection() once, and the benchmark's own thread,  *)
(* which drives it through PollerClient (bench/poller_client.cpp), closes  *)
(* the client, calls stop() and joins the worker.                          *)
(*                                                                         *)
(* The server, its socket and stop() are ExecutorServer's actions; this    *)
(* module replaces its free peers by the one client, step by step.         *)
(***************************************************************************)
EXTENDS ExecutorServer

CONSTANTS
    Poller   \* the client, the only peer

ASSUME BenchAssumption == Clients = {Poller}

VARIABLES
    bpc,      \* where the benchmark's thread is
    total,    \* warmup + iterations
    failed,   \* whether it is unwinding an exception
    got,      \* the ack being read: its chunks
    acks      \* history: the wakes whose acks send_wake returned, in order

benchVars == <<bpc, total, failed, got, acks>>
roundtripVars == <<vars, benchVars>>

BenchInit ==
    /\ Init
    /\ bpc = "idle" /\ total = 0 /\ failed = FALSE /\ got = << >> /\ acks = << >>

\* listen() succeeded: the worker thread starts.
BenchStart(n) ==
    /\ bpc = "idle"
    /\ bpc' = "connect" /\ total' = n
    /\ UNCHANGED <<vars, failed, got, acks>>

\* A call that fails throws: the client is destroyed, then stop() and join().
Throw == bpc' = "close" /\ failed' = TRUE /\ UNCHANGED <<total, got, acks>>

-----------------------------------------------------------------------------
(* PollerClient, on the benchmark's thread.                                *)

\* connect(): the socket listens already, so that only a system call may fail,
\* before there is a connection or, setsockopt(), after.
BenchConnect ==
    /\ bpc = "connect"
    /\ \/ Connect(Poller) /\ bpc' = "send" /\ UNCHANGED <<total, failed, got, acks>>
       \/ Connect(Poller) /\ Throw
       \/ Throw /\ UNCHANGED vars

\* send_wake() for the next wake, unless all of them were answered.  Its send()
\* cannot fail: the server ends a well-formed connection only after its client,
\* or stop(), which this thread calls later.
BenchSend ==
    /\ bpc = "send" /\ Len(acks) < total
    /\ SendPrefix(Poller, "wake")
    /\ bpc' = "send_rest"
    /\ UNCHANGED <<total, failed, got, acks>>

BenchSendRest ==
    /\ bpc = "send_rest"
    /\ SendBody(Poller)
    /\ bpc' = "read"
    /\ UNCHANGED <<total, failed, got, acks>>

\* read_exactly(), for the prefix and then the body of the ack.
BenchRead ==
    /\ bpc = "read"
    /\ ReadAck(Poller)
    /\ LET chunks == Append(got, Head(outbox[Poller])) IN
         IF Len(chunks) < Len(Ack)
         THEN got' = chunks /\ UNCHANGED <<acks, bpc>>
         ELSE got' = << >> /\ acks' = Append(acks, chunks[1][1]) /\ bpc' = "send"
    /\ UNCHANGED <<total, failed>>

\* Nothing to read: the server closed, or kReadTimeout passed.
BenchReadFails ==
    /\ bpc = "read" /\ outbox[Poller] = << >>
    /\ Throw
    /\ UNCHANGED vars

\* The last wake was answered: the try block ends.
BenchAllAnswered ==
    /\ bpc = "send" /\ Len(acks) = total
    /\ bpc' = "close"
    /\ UNCHANGED <<vars, total, failed, got, acks>>

-----------------------------------------------------------------------------
(* The end of bench_roundtrip, by return or by exception.                  *)

\* Mutant: a client that outlives the try block.
BenchCloseLate ==
    /\ bpc = "close"
    /\ bpc' = "stop"
    /\ UNCHANGED <<vars, total, failed, got, acks>>

\* ~PollerClient, which closes the connection if there is one.
BenchClose ==
    /\ bpc = "close"
    /\ IF Poller \in open THEN Disconnect(Poller) ELSE UNCHANGED vars
    /\ bpc' = "stop"
    /\ UNCHANGED <<total, failed, got, acks>>

BenchStop ==
    /\ bpc = "stop"
    /\ StopStoresFlag \/ StopWritesPipe \/ StopLoadsFd \/ StopShutsDown
    /\ bpc' = IF stopper' = "done" THEN "join" ELSE "stop"
    /\ UNCHANGED <<total, failed, got, acks>>

\* Mutant: the results read without the join.
BenchJoinSkipped ==
    /\ bpc = "join"
    /\ bpc' = "done"
    /\ UNCHANGED <<vars, total, failed, got, acks>>

BenchJoin ==
    /\ bpc = "join" /\ Ended
    /\ bpc' = "done"
    /\ UNCHANGED <<vars, total, failed, got, acks>>

\* The worker calls serve_one_connection() once and ignores what it returns.
WorkerReturns ==
    /\ pc = "return"
    /\ Go("exited")
    /\ UNCHANGED <<cur, frame, sent, fdVars, backlog, link, inbox, outbox, statVars,
                   serverRest>>

\* accept() fails, or a signal interrupts it: whatever the call returns, it was the
\* only one, where serve_forever() would have made the next.
WorkerAcceptFails ==
    /\ pc = "accept"
    /\ Go("exited")
    /\ UNCHANGED <<cur, frame, sent, fdVars, backlog, link, inbox, outbox, statVars,
                   serverRest>>

-----------------------------------------------------------------------------
Worker ==
    \/ Check \/ Poll \/ Polled \/ Accept \/ WorkerAcceptFails
    \/ PublishConnection \/ WithdrawConnection \/ CloseConnection \/ WorkerReturns
    \/ LoopTop \/ ReadEnds \/ ReadPrefix \/ ReadBody
    \/ SendAck \/ SendFails \/ RecordWakeRecv \/ Fire

Bench ==
    \/ BenchConnect \/ BenchSend \/ BenchSendRest
    \/ BenchRead \/ BenchReadFails \/ BenchAllAnswered
    \/ BenchClose \/ BenchStop \/ BenchJoin

BenchNext ==
    \/ Bench
    \/ bpc # "idle" /\ (Worker \/ PollFails \/ BufferDrains) /\ UNCHANGED benchVars

\* Fairness.  Both threads keep running, a store becomes visible, and a read
\* that gets nothing ends at kReadTimeout.  A poll() that blocks need not fail.
BenchFairness ==
    /\ WF_roundtripVars(Bench)
    /\ WF_roundtripVars(bpc # "idle" /\ Worker /\ UNCHANGED benchVars)
    /\ WF_roundtripVars(BufferDrains /\ UNCHANGED benchVars)

-----------------------------------------------------------------------------
(* Properties.                                                             *)

\* send_wake "writes message and blocks until its ack arrives": the acks it returns
\* are the ones of its own wakes, in order, although it matches no correlation id
\* and acks arrive in pieces.  And "executor handled N fires and M wakes, expected
\* T" is never thrown: the last ack reaches the client before its wake is recorded
\* and fired, and stop() is called at once, yet the worker finishes the wake before
\* it looks at the flag.
RoundtripsAddUp ==
    /\ \A i \in DOMAIN acks : acks[i] = i
    /\ bpc = "done" /\ ~failed => Len(fired) = total /\ Len(recorded) = total

=============================================================================
