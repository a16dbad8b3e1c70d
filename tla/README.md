# executor-hotpath: a TLA+ verification project

The repository is the C++ hot path of a trading executor: a process that listens
on a Unix socket, takes *wake* frames from a Python poller, acknowledges each
one, prices it, consults a kill switch, dispatches an order and records a
latency row in SQLite from a second thread. This directory models that process,
checks the models with TLC and proves the central results with TLAPS.

Paths below are relative to the repository (`src/executor.cpp`,
`include/hotpath/spsc_ring.hpp`, `bench/bench_main.cpp`).

## 1. Inventory

| Component | State it keeps | Operations | What makes it correct |
|---|---|---|---|
| SPSC ring (`spsc_ring.hpp`) | `slots_`, `head_`, `tail_`, the two cached counters | `try_push`, `try_pop`, `size` | no slot is accessed by both sides at once; rows come out once, whole, in order; `size()` is never nonsense |
| Telemetry sink (`telemetry.cpp`) | ring, `stopping_`, writer thread, SQLite connection, four drop and write counters | `open`, `record`, `close`, `run_writer`, `write_batch`, `insert`, `stats` | each accepted row is written once or counted as lost; one bad row costs only itself; `close()` drains and returns |
| Telemetry database (`telemetry.cpp`) | tables, indexes and `user_version` in a file that outlives the process and is shared with Python | `open()`: probe, schema, stamp | the schema is whole when rows are inserted; the version is its creator's |
| Executor server (`executor.cpp`) | `listen_fd_`, wake pipe, `stopping_`, `connection_fd_`, `stats_` | `listen`, `serve_forever`, `serve_one_connection`, `serve_connection`, `send_frame`, `stop` | a wake is fired once, after its ack, in order; `stop()` always ends the server |
| Process (`main.cpp`) | the socket file, the order of construction and destruction | `run`, the signal handler | a restart after any crash can bind and be reached; only the owner can connect |
| Fire path (`executor.cpp`, `orders.cpp`) | `templates_`, fire counters | `handle_fire`, `OrderTemplates::acquire` | no real order while the switch is engaged, or without a price the frame carried |
| Kill switch (`killswitch.cpp`) | `has_cached_`, `cached_`, `checked_at_ns_`; the file | `is_engaged`, `engage`, `release`, `reason` | a change is honoured within the TTL |
| Pricing (`pricing.cpp`) | none | `round_half_even`, `snap_to_grid` | the nearest multiple of the step, stable when it is snapped again; the even one where the quotient of doubles is a tie |
| Wire protocol (`protocol.cpp`) | none | both decoders, both encoders, the length prefix | a frame decodes to what it says, or is refused; a frame of an older version gets the defaults |
| JSON (`json.cpp`) | the reader's cursor, a flag per nesting level | the pull parser, string and number scanners, typed readers, `append_string`, `format_double` | exactly JSON is accepted; what is written is read back |
| Request signer (`signer.cpp`) | `private_key_path_`, `key_`, `message_`, `signature_` | `load`, `sign`, `sign_websocket_auth` | a signature is of this request, by the loaded key, with the right parameters, whatever failed before; nothing leaks but a key whose owner could not be allocated |
| Round trip (`bench_main.cpp`, `poller_client.cpp`) | client socket, worker thread | `PollerClient`, `bench_roundtrip` | each wake gets its own ack; the join returns |
| Percentiles (`percentile.cpp`) | none | `percentile`, `Stats::from_samples` | the type 7 quantile of what is left behind the warm-up |
| Benchmark driver (`bench_main.cpp`) | options, results, the temporary key, the CSV | `run`, the four benchmarks, `write_csv` | exit status 0 means that what was asked for was measured and recorded; the key is removed |
| Clock (`clock.cpp`) | none | reads of system clocks | not modelled, see section 8 |

How they interact. The server's thread calls `handle_fire` (kill switch,
pricing, templates) and `record()`, which pushes into the ring. The telemetry
writer thread pops from the ring and is the only user of the SQLite connection.
`stop()` runs in a signal handler or on another thread and shares two relaxed
atomics, a pipe and the connection's descriptor with the server's thread.
`run()` opens the telemetry before it listens, and closes it after serving and
before the server is destroyed; it blocks no signal, so the handler may run on
the telemetry writer's thread while all of this happens. Two files outlive the
process, the database and the socket, both shared with whatever executor is
started next, possibly before this one has ended; a third, the kill switch,
belongs to an operator. The benchmark program runs a server and its client in one
process, and signs with a key that it writes to a temporary directory.

What is hard: the ring's memory ordering and counter overflow; the race between
`stop()` and a connection being published; a peer that stalls or vanishes inside
a frame or an ack; batches that fail half-way; a crash between two autocommitted
statements or between an ack and its row; two executors on one path; a handler
that holds a pointer to a server about to be destroyed; a cached answer that is
stale when it is used; limits of tables and of rounding in the codec; an OpenSSL
context used again after a failure. `PROJECT.json` lists these hazards line by line.

## 2. Modules

| Module | Models | Uses |
|---|---|---|
| `SpscQueue` | the abstract ring: a bounded FIFO queue whose ends learn late of each other | |
| `SpscCalls` | that queue behind its two calls: when each may succeed, and when it may fail | `SpscQueue` |
| `SpscRing` | `spsc_ring.hpp`, one shared-memory access per step | refines `SpscCalls` |
| `SpscRingProofs` | proofs about `SpscRing` | |
| `TelemetryLog` | the abstract sink: a log that takes or drops rows and settles them in order | |
| `TelemetrySink` | caller thread, writer thread and SQLite transactions | `SpscQueue`, by INSTANCE; refines `TelemetryLog` |
| `SequenceFacts` | lemmas about sequences, for the proofs about the telemetry, the executable and the functions: joining, cutting, order; induction over the natural numbers, and recursive functions | |
| `TelemetrySinkProofs` | proofs about `TelemetrySink` | |
| `Processes` | the executors a supervisor starts, and which of them overlapped | |
| `TelemetryOpen` | `TelemetrySink::open()` against the file | `Processes` |
| `SocketLifecycle` | `listen()` and `~ExecutorServer` against the socket file | `Processes` |
| `ExecutorProcess` | `run()` by several processes, with failures, crashes and overlaps | `TelemetryOpen`, `SocketLifecycle` |
| `ExecutorProcessProofs` | proofs about `ExecutorProcess` and what it composes | |
| `ExecutorServer` | the server's thread, `stop()`, the peers and their sockets | |
| `Executor` | `run()` within one process: server, telemetry, signal handler | `ExecutorServer`, `TelemetryLog` |
| `ExecutorProofs` | proofs about `ExecutorServer` and `Executor` | |
| `RequestSigner` | `signer.cpp` over OpenSSL calls that may fail | |
| `BenchRoundtrip` | `bench_roundtrip` and `PollerClient` as the server's one peer | `ExecutorServer` |
| `Percentile` | `percentile.cpp` on exact numbers | |
| `BenchDriver` | `run()` of `bench_main.cpp` | `BenchRoundtrip`, `RequestSigner`, `Percentile` |
| `BenchProofs` | proofs about `RequestSigner`, `BenchRoundtrip` and `BenchDriver` | |
| `KillSwitch` | `killswitch.cpp`, the operator, the clock | |
| `Pricing` | `pricing.cpp` on exact decimals, with a quotient that may fall beside the exact one | |
| `FirePath` | `handle_fire`, the wake's defaults, `OrderTemplates::acquire` | `KillSwitch`, `Pricing` |
| `FirePathProofs` | proofs about `KillSwitch`, `Pricing` and `FirePath`, and about `WakeCodec`, which gives it its frames | |
| `JsonReader` | the pull parser of `json.cpp`, on tokens | |
| `JsonText` | the scanners and writers of `json.cpp`, on bytes | |
| `WakeCodec` | `protocol.cpp`: fields, decoders, encoders, prefix | `JsonReader` |
| `Calls` | a call of a pure function: its input, then its output | |
| `MCPricing`, `MCWakeCodec`, `MCJsonText`, `MCPercentile` | inputs and reference definitions for the pure functions | `Calls` and the module named |
| `FunctionProofs` | proofs about `Percentile` and `JsonText` | |
| `MCFunctions` | the four `MC*` modules above, as one instance for TLC | |
| the other `MC*` | the instances for TLC of the module named; `MCBench` of `BenchDriver` | |

Operators whose comment begins with *Mutant* are faulty variants of the
definition that follows them. No specification uses them; substituted for it,
each makes one property fail, which shows that the property depends on the code.

### How state and actions correspond to the code

**SpscRing.** `head`, `tail`, `head_cache`, `tail_cache` and `slots` are the
members; a call of `try_push` is `PushBegin`, `PushLoadTail` (only when the
cache says full), `PushWrite`, `PushPublish`, and `try_pop` is alike. The
counters wrap at `Modulus`. An acquire load may return any value the location
has held since the one this thread acquired last; the history variables
`pushedSeen` and `poppedSeen` say what happens before what, and a slot access
not ordered by them is a data race (`NoDataRace`). The queue it implements,
`SpscQueue`, keeps this lateness: a pushed row may be *unseen* by the consumer
and a popped slot not yet *freed* for the producer. `SpscCalls` adds the calls: a
push may be refused, and a pop find nothing, only in a look at the other side's
counter that left the ring full, or empty, as far as the caller has learned; so a
ring that refused more than that would not implement it.

**TelemetrySink.** The caller's thread and the writer's, with one step per
access of shared state or SQLite statement. SQLite is external: any statement
may fail (`MaxFaults` times), a failing statement may or may not end the
transaction, and a row marked `refused` fails every time. `Crash` may come at any
step and keeps only what was committed; the next process opens the file again.
`ImplementsLog` maps this to `TelemetryLog`: what the writer has in its hands and
what is in the ring are the log's `pending` rows, a commit settles a prefix of
them, a crash drops all of them and `close()` returns only when there are none.

**ExecutorServer.** `pc` is the position of the server's thread, with one step per
system call or access of an atomic, so that `stop()` and the peers may act between any
two. The five loads of `stopping_` are five actions. A frame arrives in two chunks and
an ack leaves in two, through a socket that holds `SendRoom` of them. The relaxed store
to `connection_fd_` reaches other threads late, at the latest with the server's next
system call. `stop()` runs either at once in a handler on the server's own thread, which
sees the server's stores, or step by step on another thread. Another thread is not
hypothetical in the executable either: it leaves the telemetry writer's signal mask
open, so that the kernel may run the handler there. A descriptor number is used again by
the next connection, so `stop()` may shut down whatever has it by then. `accept()` may
be interrupted, or fail so that `serve_forever` gives up, and so may `poll()`. Peers are
numbered in the order in which they connect, which is a symmetry reduction done in the
model.

**Executor.** The actions of `ExecutorServer`, each in the phase of `run()` in
which it can happen, with the telemetry as `TelemetryLog` (`ImplementsTheLog` proves
that `TelemetrySink` is one). The callback of `RecordWakeRecv` takes or drops a row;
the handler runs on the server's thread, or on the writer's, where it keeps the
writer from its work until it returns and `join()` from returning before it. On the
writer's thread it reads `g_server` twice, once to check it (`HandlerOnWriter`) and
once to call (`HandlerCalls`); `run()` may clear it in between, and the process then
dies of a null pointer (`HandlerCallsNull`).

**FirePath and KillSwitch.** `is_engaged()` is two steps, the read of the clock
and the `stat`; the operator and the clock may act between them, and the `stat`
may fail. `due` is the moment from which a call has to know of the latest
change. `FirePath` adds `handle_fire` around it: the guard, the snap, the
switch, the template and the dispatch.

**Pricing.** Prices, edges and steps are integers. The quotient that `snap_to_grid`
rounds is one of doubles, which on decimal fractions may come out below or above the
exact one: 0.575 / 0.01 is below 57.5, and is rounded down although 58 is even.
`Offsets` puts it at the exact quotient or to either side, by less than anything but
a tie notices, and every caller takes any of the three.

**ExecutorProcess.** `step[p]` is where process `p` is in `run()`. A failure or a
crash may come between any two system calls or statements and leaves both files
as they are. The supervisor may start a process before the last one has ended
(`MaxRunning`); `overlapped` remembers which of them did not run alone. The Python
process may create the database at any time.

**JsonReader, WakeCodec, JsonText.** `Reader` is a record, its methods are operators
from a reader to the reader after the call, and a decoder is the code's loop over
them. `JsonReader` works on tokens, of which white space, commas and brackets are
some; `JsonText` works on bytes, inside one string or number token.

**RequestSigner.** `at` is the step of `load()` or `sign()`; each OpenSSL call may
fail. An `EVP_MD_CTX` keeps its key and parameters until it is initialised again,
and `live` counts what OpenSSL allocated. `make_unique<Key>` may throw while nobody owns
the key just read (`signer.cpp:98`), which `leaked` counts. A signature is the record of
what it was computed from.

**BenchDriver.** `dpc` is where `run()` is: options, one position per benchmark,
report, CSV. The key is written in a step of its own, which may fail with a part of the
file on disk (`BenchWritesKey`). An exception leaves through the destructors (`BenchUnwinds`,
`LeaveSign`) and ends in status 1. The worker calls `serve_one_connection` once, so
an `accept()` that fails ends it. Counts are taken modulo `SizeMod`, as a `size_t` is.

## 3. Runs

Run with `tlc -workers 2 -config X.cfg M` in this directory.

| Run | Module | Shows |
|---|---|---|
| `ring` | `MCSpscRing` | `TypeOK`; `NoDataRace`; `SizeWithinCapacity`, on either side; `ImplementsQueue`, the refinement of `SpscCalls` |
| `telemetry` | `MCTelemetrySink` | `NoRowTwiceOrOutOfOrder`, `OnlyBadRowsLost`, `TransactionsAreClosed`, `StatsAddUp`, `CloseDrains`; `ImplementsLog`, the refinement of `TelemetryLog`, crashes included; liveness: `CloseReturns`, `RowsReachTable` |
| `server` | `MCExecutorServer` | `AckThenFireOnce`, `StatsExplainFires`, `StopHitsItsConnection`; liveness: `StopTerminates`, from a handler or another thread, unless `stop()` missed a store; `DisconnectReleasesServer`; `PeersAreServed` |
| `executor` | `MCExecutor` | `EveryFireAccounted`, `RowsFollowAcks`, `StopNeverOnDeadServer`; liveness: `SignalEndsProcess` |
| `fire` | `MCFirePath` | `HonouredWithinTtl`, `RealOrdersHonourSwitch`, `RealOrdersPricedByFrame` |
| `process` | `MCExecutorProcess` | `SchemaComplete`, `VersionBelongsToCreator`, `RestartReachable`, `ConnectableByOwnerOnly` |
| `functions` | `MCFunctions` | each pure function against a declarative definition: `NearestMultipleTiesToEven`, `DecodesWhatWasSent`, `FramesRoundTrip`, `ScalarsReadExactly`, `ScalarsReadBack`, `PercentilesAreType7` |
| `bench` | `MCBench` | `RoundtripsAddUp`, `SignaturesAreOfThisRequest`, `OwnsWhatItHolds`, `ExitZeroMeansMeasured`; liveness: `BenchmarkExits` |
| `server_lost_stop`, `open_crash`, `fire_tradeable`, `telemetry_crash` | | violated: see section 4 |

`TelemetrySink`, `ExecutorServer` and `FirePath` also state a `TypeOK`, on which no run is
spent. The server's is proved (`ServerTypeCorrect`) and that of `FirePath` is part of its
inductive invariant; of `TelemetrySink` the type conjuncts that the proofs need are in
theirs.

Bounds, and why they are enough.

- `ring`: a ring of four slots on four-bit counters and 21 rows, so that the
  counters wrap with every occupancy. The proofs remove the bound.
- `telemetry`: three rows through a ring of two in batches of two: a full ring, a
  full batch and a short one, a second `open` after a `close`, one correlation id
  whose parent row is shared by all, one unexpected failure at any statement and
  one crash at any step.
- `server`: two peers, two frames of four kinds, and room for half an ack, so that
  the server can block in `poll`, `read` and `send` and a second peer waits. A
  peer that reconnects is a new peer.
- `executor`: one peer with two frames, and a ring and a batch of one row each, so
  that a second row waits behind one being written. What two peers do to each
  other is the subject of `server`. One signal is handled in each life of the
  process.
- `fire`: a TTL of two ticks, and two wakes, so that the second meets a cached
  answer; prices at 0 and 1, within half a cent of each, and one off the grid; both
  defaults and a tapered grid.
- `process`: three processes, at most two at a time, so that the leftovers of one
  crash are met by a second process that crashes in turn, and two that overlap are
  followed by one that runs alone. Processes are interchangeable (SYMMETRY).
- `functions`: every price of a window around [0, 1] in steps of a thousandth on six
  grids, with the quotient on either side of the exact one; two edits, of any kind, to a
  frame of version 1 or 4 or to an ack, one of which may be a stray token anywhere in
  it, with one field for each kind of reader and nesting up to the depth limit
  (`MaxDepth` 3); lengths around each power of two; bytes on both sides of each edge the
  string scanner tests, three escapes in a row (a pair and what follows it); numbers of
  up to six bytes; doubles of all 17 digit counts at the edges of the notation; up to
  five samples behind any warm-up.
- `bench`: a `size_t` of three bits, memory for three samples, so that the sum of
  the options can wrap, be too large or be measured; a round trip of up to three
  wakes, a first, one between, and a last that `stop()` follows; and, for a client of the
  signer alone, two keys and two requests in any order of calls, and one key
  that cannot be allocated (`MaxLeaks`).
- `telemetry_crash` starts as `main.cpp` does, with `open()` before the first `record()`.

`CHECK_DEADLOCK FALSE` is given where the system may stop: the server exits, the
caller has no more rows, every process has been started, a program or a call has
returned.

## 4. Findings

Four runs are expected to fail; each states what the repository says of itself.

- `server_lost_stop` (`StopAlwaysTerminates`). The server stores `connection_fd_` and
  then loads `stopping_` (`executor.cpp:168,183`); `stop()` stores `stopping_` and then
  loads `connection_fd_` (`executor.cpp:122,132`); all four are relaxed. Each can
  miss the other's store: `stop()` shuts nothing down and the server blocks in
  `read`. The `server` run shows that nothing else keeps `stop()` from ending the
  server: `StopTerminates` excepts exactly this miss, which sequentially consistent
  accesses exclude. A handler on the server's own thread is not affected.
- `open_crash` (`OwnDatabaseIsStamped`). A crash after the schema and before
  `PRAGMA user_version` leaves version 0, and no later `open()` repairs it, as the
  table is there already (`telemetry.cpp:171,189`).
- `fire_tradeable` (`RealOrdersTradeable`). The guard looks at the price before
  `snap_to_grid`: 0.996 on the cent grid is dispatched at 1.0, 0.004 at 0.0
  (`executor.cpp:271,277`).
- `telemetry_crash` (`CrashLosesAtMostOneBatch`). `telemetry.hpp:76` says that a crash
  loses at most `kMaxBatchRows` rows. It loses the batch and whatever is queued behind
  it in the ring (`telemetry.cpp:271`): the sink is opened, rows are recorded, the
  writer begins a batch's transaction with one row more behind it, and the process dies.
  The rows it loses are the last ones: `ImplementsLog` shows that none of them precedes
  one that was settled.

Divergences met while modelling that have no run of their own:

- `main.cpp:22` checks the plain `g_server` and `main.cpp:23` reads it again to call
  through it. On the telemetry writer's thread `run()` may clear it in between
  (`main.cpp:117`), and the handler calls `stop()` on a null pointer. That takes a server
  that has returned by itself, after a `poll()` or `accept()` error:
  `StopNeverOnDeadServer` shows that nothing else clears the pointer under a handler.
- `signer.cpp:98` allocates the `Key` while the `EVP_PKEY` just read has no owner: if
  `make_unique` throws, the key leaks. `OwnsWhatItHolds` counts these apart, in `leaked`, and
  shows that nothing else leaks.
- `executor.hpp:85`, "False once stopped": an `accept()` or a `poll()` error other than EINTR
  (EMFILE, ECONNABORTED, ENOMEM) has the same effect and ends the process
  (`executor.cpp:150,162`). `PeersAreServed` excepts it, through `gave_up`.
- `telemetry.cpp:53`, "Stamped only on a database this process created": not if
  Python creates the file between the probe and the schema, nor if the probe meets
  a busy file, as the busy timeout is set later and an error reads as an empty file.
  `VersionBelongsToCreator` excepts both, through `misled`.
- `killswitch.cpp:24` takes an error of `exists()` for a released switch, until the
  TTL is over. `HonouredWithinTtl` excepts it, through `misread`.
- `executor.hpp:81`, "Unlinks a stale socket file first": `listen()` removes a live
  one as well, and the destructor of an older process removes the newer one's file
  (`executor.cpp:94,80`). An executor started before the last one has ended may so
  serve a socket that no path leads to; `RestartReachable` speaks of those that
  ran alone, and shows that the overlap does no harm to the next.
- `protocol.hpp:109` wants a rejection to be worth reading. Its reason quotes an
  unknown key in full (`protocol.cpp:246`), so the ack to a wake just below
  `kMaxFrameBytes` is above it, and the peer refuses the ack. `ScalarsReadBack` shows
  that escaping adds nothing to it.
- `bench_main.cpp:340` writes the CSV's header if the file does not exist. A first
  run whose write fails after the file was made exits 1, and every later run then
  appends rows to a file without a header. `ExitZeroMeansMeasured` asks for the
  header of a new file only.

## 5. Fairness

- `TelemetrySink`: WF of the writer's thread and of `join()`; and strong fairness
  of the loads of `stopping_` and `head_` that return the latest value. The writer
  repeats both loads at least every `kIdlePollInterval`, and C++ asks that a store
  become visible in a reasonable time. Nothing obliges the caller to record or close.
- `ExecutorServer`: WF of the server's thread, of a store becoming visible, and of a
  `stop()` that has begun; SF of a successful `accept()`, as signals do not interrupt it
  every time. Nothing makes a `poll()` fail. Nobody has to call `stop()`; a peer owes
  nothing, not even to read its acks. `PeersAreServed` assumes, as its own premise, that
  connections come to an end.
- `Executor`: WF of `run()`'s thread, of the writer settling rows (which
  `RowsReachTable` shows of `TelemetrySink`), of a handler that has begun and of a
  store becoming visible. No signal has to come.
- `BenchDriver`: WF of `run()`, and `BenchRoundtrip`'s WF of both threads (a read
  that gets nothing ends at the client's timeout) and of a store becoming visible.
- The other modules state safety only.

## 6. Proofs

`tlapm M.tla` checks every step of a module `M` of the eight that hold theorems. Every
safety property of a passing run is proved for every value of the constants, except one
of the run `functions`, `DecodesWhatWasSent`. Each inductive invariant was checked by
TLC, on the instance of the module's run, before it was proved.

| Theorem | States | Inductive invariant |
|---|---|---|
| `TypeCorrect`, `RaceFreedom`, `SizeBounded` | `TypeOK`, `NoDataRace`, `SizeWithinCapacity` | `RingInv` |
| `RingImplementsQueue` | `ImplementsQueue` | `RingInv` |
| `ImplementsTheLog` | `ImplementsLog` | `SinkInv` |
| `RowsOnceInOrder`, `CountersAddUp`, `CloseDrainsAll` | `NoRowTwiceOrOutOfOrder`, `StatsAddUp`, `CloseDrains` | `SinkInv`, `RowsInv` |
| `TransactionsEnd` | `TransactionsAreClosed` | `SinkInv`, `ParentsInv` |
| `LosesOnlyBadRows` | `OnlyBadRowsLost` | `SinkInv`, `RowsInv`, `BlameInv` |
| `StopHitsOnlyItsConnection` | `StopHitsItsConnection` | `ConnectionInv` |
| `AcksThenFiresOnce` | `AckThenFireOnce` | `ConnectionInv`, `OrderInv` |
| `StatsExplainTheFires` | `StatsExplainFires` | these and `CountInv` |
| `ServerTypeCorrect` | the server's `TypeOK` | `ConnectionInv`, `OrderInv`, `TypesInv` |
| `HandlerNeverOutlivesServer` | `StopNeverOnDeadServer` | `RunInv` |
| `FiresAreAccounted`, `RowsFollowTheAcks` | `EveryFireAccounted`, `RowsFollowAcks` | `RunInv`, `LogInv`, and the server's |
| `SchemaIsComplete`, `PythonVersionStays` | `SchemaComplete`, `VersionBelongsToCreator` | `DatabaseInv` |
| `RestartIsReachable`, `OnlyOwnerConnects` | `RestartReachable`, `ConnectableByOwnerOnly` | `SocketInv` |
| `SwitchHonoured` | `HonouredWithinTtl` | `SwitchInv` |
| `SwitchStopsRealOrders`, `RealOrdersAreTheFrames` | `RealOrdersHonourSwitch`, `RealOrdersPricedByFrame` | `FireInv` |
| `SnapIsNearest`, `SnapIsStable` | what `snap_to_grid` returns, and returns again | |
| `PricesSnapToNearest` | `NearestMultipleTiesToEven` | the results are those of the calls |
| `SignsThisRequest`, `LeaksNothing` | `SignaturesAreOfThisRequest`, `OwnsWhatItHolds` | `SignerInv` |
| `BenchmarkSigns` | both, of the signer in the benchmark | `SignerInv` |
| `RoundtripsCounted` | `RoundtripsAddUp` | `RoundtripInv`, `DriverInv` |
| `ZeroMeansMeasured` | `ExitZeroMeansMeasured` | `DriverInv` |
| `PercentilesInterpolate` | `PercentilesAreType7` | the results are those of the calls |
| `ScalarsAreReadBack` | `ScalarsReadBack` | the same |
| `ReadsExactlyJson` | `ScalarsReadExactly` | the same |
| `FramesAreReadBack` | `FramesRoundTrip` | `CodingInv`: the body is a text, the result that of the call |

**Assumptions.** Each is named in the module that declares the constant, and TLC
evaluates it in that module's run.

- `RingAssumption`: a capacity of at least two that divides the counters' range and is
  smaller than it. The constructor gives a power of two; `MCSpscRing` computes it as
  the code does.
- `ServerAssumption`: finitely many peers, numbered from 1, and a socket buffer that holds
  at least half an ack. `BenchAssumption`: one peer, as `bench_roundtrip` makes one client.
- `SinkAssumption`: a ring of at least two slots, as `RingAssumption` has it, and batches
  of at least one row.
- `ExecutorAssumption`, `KillSwitchAssumption`, `ProcessesAssumption`: sizes and bounds
  are natural numbers, and the executors finitely many. A TTL of 0 is allowed.
- `OpenAssumption`: the two schema versions differ from each other and from 0, the
  version of a file that nobody stamped.
- `FirePathAssumption`, `PricingAssumption`: prices and the ends and steps of ranges are
  integers, a cent is at least one unit and the price of 1 is a hundred cents. Steps may
  be zero or negative; such a range is never used.
- `SignerAssumption`, `SocketAssumption`: a key is not one of the tags for files that hold no
  key, and no executor is the tag for a missing file.
- `TickAssumption`: a cent is a multiple of ten units, as the tapered grid has steps of a
  tenth of a cent. `SamplesAssumption`: the samples, durations in nanoseconds, are
  integers. `PiecesAssumption`: a bound of the instance is a natural number.
- `CodecAssumption`: the longest body, and one byte more, has a length of four bytes, and
  the reader may nest as deep as a wake does, which is three levels.
- `DriverAssumption`: the range of `size_t` is not empty, and the samples that fit into
  memory are within the bound on frames.

**The ring.** `RingInv` relates the wrapped counters to history counters that do not wrap
(`Counters`), orders those and the stale views of them (`Views`), says that a side
past its check is alone at its slot (`Turns`) and that the unread rows are in their
slots (`Contents`). None of the four is inductive without the others. The arithmetic
underneath (`ModShift`, `ModInc`, `ModMod`, `ModDistinct`, and the `Counter*` lemmas)
is derived from division with remainder. The refinement maps the calls as well: the
position of a call is that of `SpscCalls`, and a refusal is the very step that loads the
other side's counter. As the ring implements the queue, `TelemetrySink` uses the
queue in its place.

**The telemetry.** `SinkInv` is what the two threads, the batch and the transaction agree
on at each position of the writer: what is in the transaction is a prefix of the batch,
a retry is at the row that the table, the lost rows and the counters have reached.
From it `StepEffects` shows that a step does one of a few things to the rows that
wait: one arrives, some are settled in order, a crash drops all, or nothing. Each is
a step of `TelemetryLog`, which gives the refinement, and each keeps `RowsInv`: table,
waiting rows and lost rows are disjoint, ordered and counted. `ParentsInv` says that an
open transaction holds exactly the parents of its rows, so that a rollback leaves
none over. `BlameInv` charges each good row that is lost to a fault of its own.

**The server.** The properties speak of whole histories, the code only looks at
descriptors and chunks. `ConnectionInv` says which descriptor may be published, buffered or
held by `stop()` at each position: once `stop()` holds one, the flag is up, so the server
accepts no other connection that could get its number. `OrderInv` says that what is
left to read of a peer is whole frames (`WholeFrames`), later than all that were
acked (`AckedIsPast`): a server out of step with the frames could take a body for a
prefix and ack a frame twice. `CountInv` adds the one wake that each connection may leave
counted and not fired. `TypesInv` adds to them what the server's types need: that a
peer waits in the listen queue exactly while it is connected and not served, and that
an ack leaves room for itself.

**The executable.** A step of `Executor` is a step of the server or leaves it alone
(`ServerSteps`), so the server's invariants hold in it. `RunInv` is the order in which `run()`
takes things down: the telemetry's `join()` waits for a handler on the writer's thread,
so none is left when the server goes; and the pointer is cleared while a handler is
between its two reads only if the server gave up, as a server that was stopped was stopped
by that handler. `LogInv` places each row among the wakes recorded.

**The processes.** `DatabaseInv` ties the objects in the file to the statements each
`open()` has executed, whichever process they were of. `SocketInv` ties the path to the
step of the process that bound it: a process narrows the mode before it listens, and the
path of one that ran alone is its own.

**The fire path.** `CacheIsYoung` carries the switch from one call to the next: a cached
answer that no longer matches the file was taken before the change, so it expires no
later than the change is due. That depends on the stamp being the time read *before* the
`stat`. `FireInv` adds that nothing between the answer and the dispatch asks the switch
again, that the message is what its frame decodes to, and that the guard has passed it.
`SnapIsNearest` is the arithmetic: a nearest multiple of the step in use, wherever the
quotient comes out beside the exact one; half-way between two, the one on its side, or
the even one if it is a tie itself (`RoundedQuotientNear`). `SnapIsStable` is less
obvious: the snapped price may fall into another range than the price did, with another
step. Rounding never carries a price past an edge that is a multiple of the step
(`RoundedToEdge`), so the two ranges meet at the snapped price; and each edge lies on
its own grid, on that of cents and on that of each later range it falls inside
(`Aligned`), as it does on every grid of the harness.

**The benchmark.** `SignerInv` says what the context holds at each step of `sign()`, and
which objects `load()` has made and not handed over, to the signer or to nobody.
`RoundtripInv` says where the one wake under way is: with the client, in the socket, in
the worker's hands or in pieces of an ack; so the last ack is behind the last wake, and
the join behind its fire. `DriverInv` says that the results are the rows of the
benchmarks behind `run()`. A sum of warm-up and iterations that wraps is less than the
warm-up (`SumWraps`), so `from_samples` keeps nothing and throws (`FromSamplesCounts`).

**The functions.** The state machines of `Calls` are trivial, so the whole theorem is what
the function computes. `PercentilesInterpolate`: a sequence in order with the samples'
multiplicities exists (the samples behind the warm-up, by induction on their number), so
the one that `Ordered` chooses has as many samples below its k-th as the definition of an
order statistic asks for. The scanners are recursive functions over positions; a lemma by
induction says what each returns on the text that was written (`ScalarsAreReadBack`), or
on any text (`ReadsExactlyJson`). For the latter, what has been read up to a position is
one of the readings of that prefix and the only one (`ReadSoFar`); and a text cut
anywhere else has none. `ScalarsSpec` and `ReadingSpec` start from the harness's calls and
from every other: strings and numbers of any length and of any bytes.

`FramesAreReadBack` has two halves. Whatever text a decoder accepts, however its members
are ordered, repeated or spaced, the message it returns has a value of the right kind in
each field: an invariant of the loop over members, down to the arrays of price ranges.
And such a message, encoded, is decoded to itself: the text is laid out token by token, a
lemma for each reader says where it stops and what it returns, and after `k` turns of the
loop the reader is behind the `k`-th member with the first `k` fields set. So the required
fields are all met. The length prefix is division with remainder, byte by byte.
`CodingSpec` starts from the harness's bodies, from any text of tokens and from any length
of four bytes; `CodingInv` keeps the body a text whatever the edits.

**Only model-checked.**

- Liveness, which is out of the prover's reach: `CloseReturns`, `RowsReachTable`,
  `StopTerminates`, `DisconnectReleasesServer`, `PeersAreServed`, `SignalEndsProcess`,
  `BenchmarkExits`.
- `DecodesWhatWasSent`, which compares the reader with a definition that cuts the whole
  text at its commas: the lemmas of `FramesAreReadBack` say what the reader does with
  well-laid-out text, and this needs also what it does at each place where a text is not.
- The violations of section 4, which are counterexamples.

## 7. Plan

1. Done: the ring and its queue; the sink over the queue, and the log it implements;
   the server and `stop()`; the executor over the server and the log; the kill
   switch, pricing and the fire path; the processes over both files; the codec, the
   JSON reader and the byte level of JSON; the signer, the percentiles and the
   benchmark over the server; the proofs of section 6.
2. Next, to prove: `DecodesWhatWasSent`, on the lemmas about the token reader that
   `FramesAreReadBack` rests on.

## 8. Not modelled

- The clock: reads of system clocks, and of a host and a boot identifier that nothing
  in the repository compares. The models take time as an input.
- The cryptography: it is OpenSSL's.
- `KillSwitch::reason()` and the printed statistics, which change nothing, and the
  parsing of the executable's command line, but for whether there is a database.
- The text of errors and of a rejection's reason; the values of latency rows beyond
  what SQLite accepts or refuses; what a benchmark's samples measure.
- Doubles: `Pricing` covers the side on which a quotient falls of the exact one, but not
  the last bits of a price that is a multiple times a step; `Percentile` is exact, so
  the rounding of an interpolation is not covered. `FormatDouble` leaves out the `null`
  that `format_double` writes for a double that is not finite (`json.cpp:75`), which no
  decoded frame can hold.
- A kill of the benchmark, and a `remove_all` that fails in `TempDirectory`, which
  nobody looks at: both leave the temporary key.
