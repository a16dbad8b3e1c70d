--------------------------- MODULE TelemetrySink ---------------------------
(***************************************************************************)
(* TelemetrySink (src/telemetry.cpp): the caller's thread records latency  *)
(* rows into the ring and a writer thread appends them to SQLite in        *)
(* batches.  The ring is used through its abstract specification, which    *)
(* SpscRing is proved to implement.                                        *)
(*                                                                         *)
(* One thread, the caller, runs record(), open() and close(); the other    *)
(* runs run_writer().  A row is named by the number of its record() call;  *)
(* events[n] holds what the rest of the code can tell apart about row n.   *)
(* SQLite is external: a connection with at most one open transaction,     *)
(* whose statements may fail at any time (MaxFaults bounds how often).  A  *)
(* row with refused = TRUE violates a constraint every time it is inserted.*)
(***************************************************************************)
EXTENDS Integers, Sequences, FiniteSets, Functions

CONSTANTS
    Capacity,        \* the ring's capacity
    MaxBatchRows,    \* kMaxBatchRows
    CorrelationIds,  \* correlation ids that fit in a slot
    MaxRecords,      \* bound: calls of record()
    MaxOpens,        \* bound: calls of open() that start a writer
    MaxFaults,       \* bound: SQLite statements that fail on a good row
    MaxCrashes       \* bound: crashes of the process

ASSUME SinkAssumption ==
    /\ Capacity \in Nat /\ Capacity >= 2
    /\ MaxBatchRows \in Nat /\ MaxBatchRows >= 1
    /\ MaxRecords \in Nat /\ MaxOpens \in Nat /\ MaxFaults \in Nat
    /\ MaxCrashes \in Nat

VARIABLES
    queue, unseen, freed, delivered,   \* ring_, as SpscQueue describes it
    caller,      \* where the caller's thread is
    events,      \* history: the rows given to record() that fit in a slot
    accepted,    \* history: the rows try_push took, in order
    joinable,    \* writer_.joinable()
    stopping,    \* stopping_
    writer,      \* where the writer thread is
    draining,    \* run_writer's local `draining`
    batch,       \* run_writer's local `batch`
    row_i,       \* index in the batch of the row being inserted
    txn,         \* SQLite: the connection's open transaction
    table,       \* SQLite: committed latency_events, in order of insertion
    parents,     \* SQLite: committed correlations
    rows_written, dropped_ring_full, dropped_oversized_id, dropped_write_failed,
    lost,        \* history: the rows counted in dropped_write_failed_
    base,        \* history: the rows of earlier processes are 1..base
    opens, faults, crashes  \* what the bounds count

ringVars == <<queue, unseen, freed, delivered>>
callerVars == <<caller, events, accepted, joinable, stopping, dropped_ring_full,
                dropped_oversized_id, opens, base, crashes>>
dbVars == <<txn, table, parents>>
writerVars == <<writer, draining, batch, row_i, rows_written,
                dropped_write_failed, lost, faults>>
processVars == <<base, crashes>>   \* nothing but a crash changes these
vars == <<ringVars, callerVars, dbVars, writerVars>>

Ring == INSTANCE SpscQueue WITH Row <- 1..MaxRecords

NoTxn == [open |-> FALSE, rows |-> << >>, parents |-> {}]
OpenTxn(rows, ids) == [open |-> TRUE, rows |-> rows, parents |-> ids]

Init ==
    /\ Ring!Init
    /\ caller = "idle" /\ events = << >> /\ accepted = << >>
    /\ joinable = FALSE /\ stopping = FALSE
    /\ writer = "none" /\ draining = FALSE /\ batch = << >> /\ row_i = 1
    /\ txn = NoTxn /\ table = << >> /\ parents = {}
    /\ rows_written = 0 /\ dropped_ring_full = 0
    /\ dropped_oversized_id = 0 /\ dropped_write_failed = 0
    /\ lost = {} /\ opens = 0 /\ faults = 0
    /\ base = 0 /\ crashes = 0

-----------------------------------------------------------------------------
(* record(), on the caller's thread.                                       *)

LooksFull == Len(queue) + freed >= Capacity

Record(id, refused) ==
    /\ caller = "idle"
    /\ Len(events) + dropped_oversized_id < MaxRecords
    /\ events' = Append(events, [id |-> id, refused |-> refused])
    /\ caller' = IF LooksFull THEN "reload_tail" ELSE "push"
    /\ UNCHANGED <<processVars, ringVars, accepted, joinable, stopping, dropped_ring_full,
                   dropped_oversized_id, opens, dbVars, writerVars>>

\* The id is longer than kMaxCorrelationIdBytes.
RecordOversized ==
    /\ caller = "idle"
    /\ Len(events) + dropped_oversized_id < MaxRecords
    /\ dropped_oversized_id' = dropped_oversized_id + 1
    /\ UNCHANGED <<processVars, ringVars, caller, events, accepted, joinable, stopping,
                   dropped_ring_full, opens, dbVars, writerVars>>

\* Mutant: a row dropped and not counted.
RecordReloadTailUncounted ==
    /\ caller = "reload_tail"
    /\ Ring!LearnFreed
    /\ ~joinable => freed' = 0
    /\ caller' = IF LooksFull' THEN "idle" ELSE "push"
    /\ UNCHANGED <<processVars, events, accepted, joinable, stopping, dropped_ring_full,
                   dropped_oversized_id, opens, dbVars, writerVars>>

\* try_push acquires tail_.  Once the writer was joined the load is exact.
RecordReloadTail ==
    /\ caller = "reload_tail"
    /\ Ring!LearnFreed
    /\ ~joinable => freed' = 0
    /\ IF LooksFull'
         THEN caller' = "idle" /\ dropped_ring_full' = dropped_ring_full + 1
         ELSE caller' = "push" /\ UNCHANGED dropped_ring_full
    /\ UNCHANGED <<processVars, events, accepted, joinable, stopping, dropped_oversized_id,
                   opens, dbVars, writerVars>>

RecordPush ==
    /\ caller = "push"
    /\ Ring!Push(Len(events))
    /\ accepted' = Append(accepted, Len(events))
    /\ caller' = "idle"
    /\ UNCHANGED <<processVars, events, joinable, stopping, dropped_ring_full,
                   dropped_oversized_id, opens, dbVars, writerVars>>

-----------------------------------------------------------------------------
(* open() and close(), on the caller's thread.                             *)

\* open() when no writer runs and SQLite gives no error: the thread it starts
\* sees every row recorded before it.  A second open() returns at once, and one
\* that fails changes nothing here.
Open ==
    /\ caller = "idle" /\ ~joinable
    /\ opens < MaxOpens
    /\ opens' = opens + 1
    /\ stopping' = FALSE
    /\ joinable' = TRUE
    /\ writer' = "read_stopping" /\ draining' = FALSE
    /\ batch' = << >> /\ row_i' = 1
    /\ unseen' = 0
    /\ UNCHANGED <<processVars, queue, freed, delivered, caller, events, accepted,
                   dropped_ring_full, dropped_oversized_id, dbVars, rows_written,
                   dropped_write_failed, lost, faults>>

\* close() when no writer runs does nothing.
Close ==
    /\ caller = "idle" /\ joinable
    /\ stopping' = TRUE
    /\ caller' = "joining"
    /\ UNCHANGED <<processVars, ringVars, events, accepted, joinable, dropped_ring_full,
                   dropped_oversized_id, opens, dbVars, writerVars>>

\* join() returns and db_.reset() closes the connection, which would roll back
\* a transaction still open.
CloseJoined ==
    /\ caller = "joining" /\ writer = "done"
    /\ joinable' = FALSE
    /\ caller' = "idle"
    /\ writer' = "none"
    /\ txn' = NoTxn
    /\ UNCHANGED <<processVars, ringVars, events, accepted, stopping, dropped_ring_full,
                   dropped_oversized_id, opens, table, parents, draining, batch,
                   row_i, rows_written, dropped_write_failed, lost, faults>>

-----------------------------------------------------------------------------
(* run_writer(), on the writer's thread.                                   *)

\* Mutant: stopping_ read without acquire.
ReadStoppingRelaxed ==
    /\ writer = "read_stopping"
    /\ \E seen \in {FALSE, stopping} : draining' = seen
    /\ batch' = << >>
    /\ writer' = "drain"
    /\ UNCHANGED <<ringVars, callerVars, dbVars, row_i, rows_written,
                   dropped_write_failed, lost, faults>>

\* The acquire load of stopping_ at the top of the loop.  It may still miss the
\* store; when it returns true, every push that came before the store is seen.
ReadStopping ==
    /\ writer = "read_stopping"
    /\ \E seen \in {FALSE, stopping} :
          /\ draining' = seen
          /\ unseen' = IF seen THEN 0 ELSE unseen
    /\ batch' = << >>
    /\ writer' = "drain"
    /\ UNCHANGED <<queue, freed, delivered, callerVars, dbVars, row_i, rows_written,
                   dropped_write_failed, lost, faults>>

DrainPop ==
    /\ writer = "drain"
    /\ Len(batch) < MaxBatchRows
    /\ Ring!Pop
    /\ batch' = Append(batch, delivered')
    /\ UNCHANGED <<callerVars, dbVars, writer, draining, row_i, rows_written,
                   dropped_write_failed, lost, faults>>

\* Mutant: an empty drain that never ends the loop.
AfterDrainForever == IF batch # << >> THEN "begin" ELSE "read_stopping"

AfterDrain ==
    IF batch # << >> THEN "begin"
    ELSE IF draining THEN "done"
    ELSE "read_stopping"            \* after sleep_for(kIdlePollInterval)

\* Mutant: try_pop fails on an exhausted head_cache_ without loading head_.
DrainNeverReloadsHead ==
    /\ writer = "drain"
    /\ Len(batch) < MaxBatchRows
    /\ unseen = Len(queue)
    /\ writer' = AfterDrain
    /\ UNCHANGED <<ringVars, callerVars, dbVars, draining, batch, row_i,
                   rows_written, dropped_write_failed, lost, faults>>

\* try_pop found head_cache_ exhausted and acquires head_: it fails, and the
\* drain ends, when it learns of no new row.
DrainReloadHead ==
    /\ writer = "drain"
    /\ Len(batch) < MaxBatchRows
    /\ unseen = Len(queue)
    /\ Ring!LearnPushed
    /\ writer' = IF unseen' = Len(queue) THEN AfterDrain ELSE "drain"
    /\ UNCHANGED <<callerVars, dbVars, draining, batch, row_i, rows_written,
                   dropped_write_failed, lost, faults>>

DrainBatchFull ==
    /\ writer = "drain"
    /\ Len(batch) >= MaxBatchRows
    /\ writer' = AfterDrain
    /\ UNCHANGED <<ringVars, callerVars, dbVars, draining, batch, row_i,
                   rows_written, dropped_write_failed, lost, faults>>

-----------------------------------------------------------------------------
(* write_batch() and insert(), on the writer's thread.                     *)

\* A statement that should succeed fails: SQLITE_BUSY after kBusyTimeoutMs, a
\* full disk, an I/O error.  Some of these end the transaction by themselves.
Fault == faults < MaxFaults /\ faults' = faults + 1
NoFault == UNCHANGED faults

\* BEGIN, which also fails inside a transaction.
Begin(onSuccess, onFailure) ==
    /\ \E ok \in BOOLEAN :
          /\ ok => ~txn.open
          /\ IF ok \/ txn.open THEN NoFault ELSE Fault
          /\ txn' = IF ok THEN OpenTxn(<< >>, {}) ELSE txn
          /\ writer' = IF ok THEN onSuccess ELSE onFailure
    /\ UNCHANGED <<table, parents>>

\* insert(): the parent first (INSERT OR IGNORE), then the row.  A refused row
\* leaves its parent behind in the transaction, and so may a fault.
Insert(r, onSuccess, onFailure) ==
    LET ids == txn.parents \cup {events[r].id}
    IN  /\ \/ /\ ~events[r].refused /\ NoFault
              /\ txn' = OpenTxn(Append(txn.rows, r), ids)
              /\ writer' = onSuccess
           \/ /\ events[r].refused /\ NoFault
              /\ txn' = OpenTxn(txn.rows, ids)
              /\ writer' = onFailure
           \/ /\ Fault
              /\ txn' \in {txn, OpenTxn(txn.rows, ids), NoTxn}
              /\ writer' = onFailure
        /\ UNCHANGED <<table, parents>>

\* Mutant: the parent rows left out.
CommitWithoutParents(onSuccess, onFailure, rows) ==
    \/ /\ table' = table \o txn.rows
       /\ UNCHANGED parents
       /\ txn' = NoTxn /\ NoFault
       /\ rows_written' = rows_written + rows
       /\ writer' = onSuccess
    \/ /\ Fault
       /\ txn' \in {txn, NoTxn}
       /\ writer' = onFailure
       /\ UNCHANGED <<table, parents, rows_written>>

\* Mutant: the result of COMMIT not looked at.
CommitUnchecked(onSuccess, onFailure, rows) ==
    /\ \/ /\ table' = table \o txn.rows
          /\ parents' = parents \cup txn.parents
          /\ txn' = NoTxn /\ NoFault
       \/ /\ Fault
          /\ txn' \in {txn, NoTxn}
          /\ UNCHANGED <<table, parents>>
    /\ rows_written' = rows_written + rows
    /\ writer' = onSuccess

\* COMMIT.  One that fails may leave the transaction open.
Commit(onSuccess, onFailure, rows) ==
    \/ /\ table' = table \o txn.rows
       /\ parents' = parents \cup txn.parents
       /\ txn' = NoTxn /\ NoFault
       /\ rows_written' = rows_written + rows
       /\ writer' = onSuccess
    \/ /\ Fault
       /\ txn' \in {txn, NoTxn}
       /\ writer' = onFailure
       /\ UNCHANGED <<table, parents, rows_written>>

\* Mutants: the failed transaction committed after all, or left open.
RollbackKeepsRows ==
    /\ table' = table \o txn.rows
    /\ parents' = parents \cup txn.parents
    /\ txn' = NoTxn
RollbackLeftOpen == UNCHANGED <<txn, table, parents>>

\* ROLLBACK; outside a transaction it fails, harmlessly and unchecked.
Rollback == txn' = NoTxn /\ UNCHANGED <<table, parents>>

writeBatchRest == <<ringVars, callerVars, draining, batch>>

BatchBegin ==
    /\ writer = "begin"
    /\ Begin("insert", "retry_begin")
    /\ row_i' = 1
    /\ UNCHANGED <<writeBatchRest, rows_written, dropped_write_failed, lost>>

BatchInsert ==
    /\ writer = "insert"
    /\ Insert(batch[row_i], IF row_i < Len(batch) THEN "insert" ELSE "commit",
              "rollback")
    /\ row_i' = row_i + 1
    /\ UNCHANGED <<writeBatchRest, rows_written, dropped_write_failed, lost>>

BatchCommit ==
    /\ writer = "commit"
    /\ Commit("read_stopping", "rollback", Len(batch))
    /\ UNCHANGED <<writeBatchRest, row_i, dropped_write_failed, lost>>

\* The batch failed: every row of it is retried in a transaction of its own.
BatchRollback ==
    /\ writer = "rollback"
    /\ Rollback
    /\ row_i' = 1
    /\ writer' = "retry_begin"
    /\ UNCHANGED <<writeBatchRest, rows_written, dropped_write_failed, lost, faults>>

AfterRetry == IF row_i < Len(batch) THEN "retry_begin" ELSE "read_stopping"

RetryBegin ==
    /\ writer = "retry_begin"
    /\ Begin("retry_insert", "retry_rollback")
    /\ UNCHANGED <<writeBatchRest, row_i, rows_written, dropped_write_failed, lost>>

RetryInsert ==
    /\ writer = "retry_insert"
    /\ Insert(batch[row_i], "retry_commit", "retry_rollback")
    /\ UNCHANGED <<writeBatchRest, row_i, rows_written, dropped_write_failed, lost>>

RetryCommit ==
    /\ writer = "retry_commit"
    /\ Commit(AfterRetry, "retry_rollback", 1)
    /\ row_i' = IF writer' = "retry_rollback" THEN row_i ELSE row_i + 1
    /\ UNCHANGED <<writeBatchRest, dropped_write_failed, lost>>

RetryRollback ==
    /\ writer = "retry_rollback"
    /\ Rollback
    /\ dropped_write_failed' = dropped_write_failed + 1
    /\ lost' = lost \cup {batch[row_i]}
    /\ writer' = AfterRetry
    /\ row_i' = row_i + 1
    /\ UNCHANGED <<writeBatchRest, rows_written, faults>>

-----------------------------------------------------------------------------
\* The process dies, at any point, and another is started: the ring, the threads
\* and the counters are new, and what was committed is in the file.
Crash ==
    /\ crashes < MaxCrashes /\ crashes' = crashes + 1
    /\ base' = Len(events)
    /\ queue' = << >> /\ unseen' = 0 /\ freed' = 0 /\ delivered' = Ring!NoRow
    /\ caller' = "idle" /\ joinable' = FALSE /\ stopping' = FALSE
    /\ writer' = "none" /\ draining' = FALSE /\ batch' = << >> /\ row_i' = 1
    /\ txn' = NoTxn
    /\ rows_written' = 0 /\ dropped_ring_full' = 0
    /\ dropped_oversized_id' = 0 /\ dropped_write_failed' = 0
    /\ UNCHANGED <<events, accepted, table, parents, lost, opens, faults>>

Caller ==
    \/ \E id \in CorrelationIds, refused \in BOOLEAN : Record(id, refused)
    \/ RecordOversized \/ RecordReloadTail \/ RecordPush
    \/ Open \/ Close \/ CloseJoined

Writer ==
    \/ ReadStopping \/ DrainPop \/ DrainReloadHead \/ DrainBatchFull
    \/ BatchBegin \/ BatchInsert \/ BatchCommit \/ BatchRollback
    \/ RetryBegin \/ RetryInsert \/ RetryCommit \/ RetryRollback

Next == Caller \/ Writer \/ Crash

\* Fairness.  A thread that can run is run, and join() returns.  An atomic load
\* that is repeated does not miss a store for ever ([atomics.order]: stores
\* become visible "in a reasonable amount of time"); kIdlePollInterval bounds
\* the time between two loads.  Nothing obliges the caller to record or close.
Fairness ==
    /\ WF_vars(Writer)
    /\ WF_vars(CloseJoined)
    /\ SF_vars(ReadStopping /\ draining' = stopping)
    /\ SF_vars(DrainReloadHead /\ unseen' = 0)

Spec == Init /\ [][Next]_vars /\ Fairness

-----------------------------------------------------------------------------
(* Properties.                                                             *)

\* The variables keep their types, the ring within its capacity and a batch
\* within kMaxBatchRows.
TypeOK ==
    /\ queue \in Seq(1..MaxRecords) /\ Len(queue) <= Capacity
    /\ unseen \in 0..Len(queue) /\ freed \in 0..(Capacity - Len(queue))
    /\ caller \in {"idle", "reload_tail", "push", "joining"}
    /\ Len(events) + dropped_oversized_id \in 0..MaxRecords
    /\ \A r \in DOMAIN events : events[r].id \in CorrelationIds
                               /\ events[r].refused \in BOOLEAN
    /\ accepted \in Seq(1..Len(events))
    /\ joinable \in BOOLEAN /\ stopping \in BOOLEAN /\ draining \in BOOLEAN
    /\ writer \in {"none", "read_stopping", "drain", "begin", "insert", "commit",
                   "rollback", "retry_begin", "retry_insert", "retry_commit",
                   "retry_rollback", "done"}
    /\ batch \in Seq(1..MaxRecords) /\ Len(batch) <= MaxBatchRows
    /\ row_i \in 1..(MaxBatchRows + 1)
    /\ txn.open \in BOOLEAN /\ txn.rows \in Seq(1..MaxRecords)
    /\ txn.parents \subseteq CorrelationIds
    /\ table \in Seq(1..MaxRecords) /\ parents \subseteq CorrelationIds
    /\ lost \subseteq 1..MaxRecords
    /\ dropped_write_failed \in 0..MaxRecords /\ base \in 0..Len(events)
    /\ dropped_ring_full \in 0..MaxRecords /\ dropped_oversized_id \in 0..MaxRecords
    /\ opens \in 0..MaxOpens /\ faults \in 0..MaxFaults /\ crashes \in 0..MaxCrashes

\* The table holds rows that record() accepted, each at most once and in the
\* order they were recorded, whatever mix of batches, rollbacks and per-row
\* retries put them there.
NoRowTwiceOrOutOfOrder ==
    /\ \A i, j \in DOMAIN table : i < j => table[i] < table[j]
    /\ Range(table) \cap lost = {}

\* "Exactly the bad one is lost": beside the rows SQLite refuses, a row of a
\* batch is lost only to a statement that failed on its own account.
OnlyBadRowsLost == Cardinality({r \in lost : ~events[r].refused}) <= faults

\* Outside write_batch no transaction is open, so the BEGIN of the next batch
\* cannot fail on what the last one left behind; and every committed row has
\* its parent, a parent no committed row being left over from a rollback.
TransactionsAreClosed ==
    /\ writer \in {"none", "read_stopping", "drain", "begin", "retry_begin", "done"}
          => ~txn.open
    /\ parents = {events[r].id : r \in Range(table)}

\* Of this process.
Own(S) == {r \in S : r > base}

\* When no writer runs, the counters that main prints at shutdown account for
\* every record() of this process: written, dropped for one of the three reasons,
\* or queued.
StatsAddUp ==
    (~joinable /\ caller = "idle") =>
        /\ Len(events) - base =
              rows_written + dropped_ring_full + dropped_write_failed + Len(queue)
        /\ rows_written = Cardinality(Own(Range(table)))
        /\ dropped_write_failed = Cardinality(Own(lost))

\* The rows that crashes cost: accepted by a process that is gone, and not settled.
Gone == {r \in Range(accepted) : r <= base} \ (Range(table) \cup lost)

\* "Bounds what one commit represents, so a crash loses at most this many": one in
\* the middle of a commit of the running writer costs no more rows than a batch has.
CrashLosesAtMostOneBatch ==
    [][crashes' > crashes /\ txn.open
          => Cardinality(Own(Range(accepted)) \ (Range(table) \cup lost)) <= MaxBatchRows]_vars

\* close() drains what is queued: when it returns, every row accepted before it
\* is in the table or counted as failed, however late the writer learned of the
\* last pushes and of the stop.
CloseDrains ==
    [][caller = "joining" /\ caller' = "idle" /\ UNCHANGED crashes
          => queue = << >> /\ Own(Range(accepted)) = Own(Range(table) \cup lost)]_vars

\* "Drains what is queued and joins the writer": close() returns.
CloseReturns == caller = "joining" ~> caller = "idle"

\* While a writer runs, an accepted row reaches the table or is counted without
\* close() being called and without the producer ever signalling the writer.
RowsReachTable ==
    \A r \in 1..MaxRecords :
        (joinable /\ r \in Own(Range(accepted))) ~> (r \in Range(table) \cup lost \cup Gone)

-----------------------------------------------------------------------------
(* The sink implements TelemetryLog.                                       *)

\* The rows of the batch that are not settled yet.
Unsettled ==
    IF writer \in {"drain", "begin", "insert", "commit", "rollback"} THEN batch
    ELSE IF writer \in {"retry_begin", "retry_insert", "retry_commit", "retry_rollback"}
      THEN SubSeq(batch, row_i, Len(batch))
    ELSE << >>

Log == INSTANCE TelemetryLog WITH
          Row <- 1..MaxRecords,
          pending <- Unsettled \o queue,
          dropped <- dropped_ring_full + dropped_oversized_id,
          up <- joinable

\* However the two threads, the failures and the crashes interleave, record(),
\* the writer and close() act on the rows as the log does.
ImplementsLog == Log!Spec

=============================================================================
