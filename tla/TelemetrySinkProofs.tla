------------------------ MODULE TelemetrySinkProofs ------------------------
(***************************************************************************)
(* Proofs about TelemetrySink, for every capacity, batch size, number of   *)
(* rows, of openings, of faults and of crashes.                            *)
(*                                                                         *)
(* SinkInv is what the two threads, the batch and the transaction agree    *)
(* on.  From it every step is shown to have one of a few effects on the    *)
(* rows that wait (StepEffects); these are steps of TelemetryLog, and they *)
(* keep RowsInv: the rows in order, each in one place, and counted.        *)
(* ParentsInv and BlameInv are about the transactions and their failures.  *)
(***************************************************************************)
EXTENDS TelemetrySink, SequenceFacts, FiniteSetTheorems, TLAPS

-----------------------------------------------------------------------------
(* The two threads, the batch and the transaction.                         *)

CallerTypeOK ==
    /\ queue \in Seq(Nat) /\ unseen \in Nat /\ freed \in Nat /\ unseen <= Len(queue)
    /\ caller \in {"idle", "reload_tail", "push", "joining"}
    /\ events \in Seq([id : CorrelationIds, refused : BOOLEAN])
    /\ dropped_oversized_id \in Nat /\ Len(events) + dropped_oversized_id <= MaxRecords
    /\ caller \in {"reload_tail", "push"} => Len(events) >= 1
    /\ accepted \in Seq(Nat)

FlagsOK == joinable \in BOOLEAN /\ stopping \in BOOLEAN /\ draining \in BOOLEAN

WriterTypeOK ==
    /\ writer \in {"none", "read_stopping", "drain", "begin", "insert", "commit",
                   "rollback", "retry_begin", "retry_insert", "retry_commit",
                   "retry_rollback", "done"}
    /\ batch \in Seq(Nat) /\ Len(batch) <= MaxBatchRows /\ row_i \in Nat
    /\ txn.rows \in Seq(Nat)

OutcomeTypeOK ==
    /\ table \in Seq(Nat) /\ lost \in SUBSET Nat
    /\ rows_written \in Nat /\ dropped_ring_full \in Nat /\ dropped_write_failed \in Nat

SinkTypeOK == CallerTypeOK /\ FlagsOK /\ WriterTypeOK /\ OutcomeTypeOK

\* A writer runs from open() to the end of close().  Once it has learned of the stop
\* it has learned of every push, since close() has the caller's thread wait; so it
\* is done only when the queue is empty.
ThreadsOK ==
    /\ joinable <=> writer # "none"
    /\ joinable => (stopping <=> caller = "joining")
    /\ caller = "joining" => joinable
    /\ joinable /\ draining => stopping /\ unseen = 0
    /\ writer = "done" => draining /\ queue = << >>

\* Where the writer is in the batch.
Retrying == {"retry_begin", "retry_insert", "retry_commit", "retry_rollback"}
BatchOK ==
    /\ writer \in {"begin", "insert", "commit", "rollback"} \cup Retrying => Len(batch) >= 1
    /\ writer \in {"insert"} \cup Retrying => row_i \in 1..Len(batch)

\* What the transaction holds: the rows of the batch inserted so far, or the row that
\* is retried, and nothing outside write_batch.
TxnOK ==
    /\ writer \in {"none", "read_stopping", "drain", "begin", "retry_begin", "done"} =>
          txn = NoTxn
    /\ writer = "insert" =>
          /\ Len(txn.rows) = row_i - 1
          /\ \A k \in 1..(row_i - 1) : txn.rows[k] = batch[k]
    /\ writer = "commit" => txn.rows = batch
    /\ writer = "retry_insert" => txn.rows = << >>
    /\ writer = "retry_commit" => txn.rows = <<batch[row_i]>>

\* The inductive invariant of the two threads.
SinkInv == SinkTypeOK /\ ThreadsOK /\ BatchOK /\ TxnOK

\* A sink that was constructed and not opened.
LEMMA SinkInvInit == Init => SinkInv
  <1> SUFFICES ASSUME Init PROVE SinkInv
    OBVIOUS
  <1>1. txn.open = FALSE /\ txn.rows = << >>
    BY DEF Init, NoTxn
  <1>2. SinkTypeOK
    <2>1. CallerTypeOK
      BY SinkAssumption DEF Init, Ring!Init, CallerTypeOK
    <2>2. FlagsOK
      BY DEF Init, FlagsOK
    <2>3. WriterTypeOK
      BY <1>1, SinkAssumption DEF Init, WriterTypeOK
    <2>4. OutcomeTypeOK
      BY DEF Init, OutcomeTypeOK
    <2> QED
      BY <2>1, <2>2, <2>3, <2>4 DEF SinkTypeOK, CallerTypeOK, FlagsOK, WriterTypeOK, OutcomeTypeOK
  <1> QED
    BY <1>2 DEF Init, Ring!Init, SinkInv, ThreadsOK, BatchOK, TxnOK, Retrying

\* record(), on the caller's thread.
LEMMA SinkInvRecord ==
  ASSUME SinkInv,
         \/ \E id \in CorrelationIds, refused \in BOOLEAN : Record(id, refused)
         \/ RecordOversized \/ RecordReloadTail \/ RecordPush
  PROVE  SinkInv'
  <1> USE DEF SinkInv
  <1>1. /\ UNCHANGED <<joinable, stopping, draining, writer, batch, row_i, txn, table, lost,
                       rows_written, dropped_write_failed>>
        /\ caller # "joining" /\ caller' # "joining"
    BY DEF Record, RecordOversized, RecordReloadTail, RecordPush, dbVars, writerVars
  <1>2. BatchOK' /\ TxnOK'
    BY <1>1 DEF BatchOK, TxnOK
  <1>3. CASE \E id \in CorrelationIds, refused \in BOOLEAN : Record(id, refused)
    <2>1. PICK id \in CorrelationIds, refused \in BOOLEAN : Record(id, refused)
      BY <1>3
    <2> DEFINE e == [id |-> id, refused |-> refused]
    <2>2. /\ events' = Append(events, e) /\ caller' \in {"reload_tail", "push"}
          /\ Len(events) + dropped_oversized_id < MaxRecords
          /\ UNCHANGED <<queue, unseen, freed, accepted, dropped_ring_full, dropped_oversized_id>>
      BY <2>1 DEF Record, ringVars
    <2>3. e \in [id : CorrelationIds, refused : BOOLEAN]
      OBVIOUS
    <2>4. /\ events' \in Seq([id : CorrelationIds, refused : BOOLEAN])
          /\ Len(events') = Len(events) + 1 /\ Len(events) \in Nat
      BY <2>2, <2>3, AppendProperties DEF SinkTypeOK, CallerTypeOK, FlagsOK, WriterTypeOK, OutcomeTypeOK
    <2>5. SinkTypeOK'
      BY <1>1, <2>2, <2>4, SinkAssumption DEF SinkTypeOK, CallerTypeOK, FlagsOK, WriterTypeOK, OutcomeTypeOK
    <2>6. ThreadsOK'
      BY <1>1, <2>2 DEF ThreadsOK
    <2> QED
      BY <1>2, <2>5, <2>6
  <1>4. CASE RecordOversized
    <2>1. /\ Len(events) + dropped_oversized_id < MaxRecords /\ caller = "idle"
          /\ dropped_oversized_id' = dropped_oversized_id + 1
          /\ UNCHANGED <<queue, unseen, freed, caller, events, accepted, dropped_ring_full>>
      BY <1>4 DEF RecordOversized, ringVars
    <2>2. SinkTypeOK'
      <3>1. Len(events) \in Nat
        BY DEF SinkTypeOK, CallerTypeOK, FlagsOK, WriterTypeOK, OutcomeTypeOK
      <3> QED
        BY <1>1, <2>1, <3>1, SinkAssumption DEF SinkTypeOK, CallerTypeOK, FlagsOK, WriterTypeOK, OutcomeTypeOK
    <2> QED
      BY <1>1, <1>2, <2>1, <2>2 DEF ThreadsOK
  <1>5. CASE RecordReloadTail
    <2>1. /\ freed' \in 0..freed /\ UNCHANGED <<queue, unseen>>
          /\ UNCHANGED <<events, accepted, dropped_oversized_id>>
          /\ caller = "reload_tail"
          /\ \/ caller' = "idle" /\ dropped_ring_full' = dropped_ring_full + 1
             \/ caller' = "push" /\ UNCHANGED dropped_ring_full
      BY <1>5 DEF RecordReloadTail, Ring!LearnFreed
    <2>2. SinkTypeOK'
      BY <1>1, <2>1 DEF SinkTypeOK, CallerTypeOK, FlagsOK, WriterTypeOK, OutcomeTypeOK
    <2> QED
      BY <1>1, <1>2, <2>1, <2>2 DEF ThreadsOK
  <1>6. CASE RecordPush
    <2>1. /\ queue' = Append(queue, Len(events)) /\ unseen' = unseen + 1
          /\ UNCHANGED <<freed, events, dropped_ring_full, dropped_oversized_id>>
          /\ accepted' = Append(accepted, Len(events)) /\ caller = "push" /\ caller' = "idle"
      BY <1>6 DEF RecordPush, Ring!Push
    <2>2. Len(events) \in Nat /\ queue' \in Seq(Nat) /\ Len(queue') = Len(queue) + 1
          /\ Len(queue) \in Nat /\ accepted' \in Seq(Nat)
      BY <2>1, AppendProperties DEF SinkTypeOK, CallerTypeOK, FlagsOK, WriterTypeOK, OutcomeTypeOK
    <2>3. SinkTypeOK'
      BY <1>1, <2>1, <2>2 DEF SinkTypeOK, CallerTypeOK, FlagsOK, WriterTypeOK, OutcomeTypeOK
    <2>4. joinable => ~stopping /\ ~draining /\ writer # "done"
      BY <2>1 DEF ThreadsOK
    <2>5. ThreadsOK'
      BY <1>1, <2>1, <2>4 DEF ThreadsOK
    <2> QED
      BY <1>2, <2>3, <2>5
  <1> QED
    BY <1>3, <1>4, <1>5, <1>6

\* open() and close(), on the caller's thread, and a crash.
LEMMA SinkInvOpenClose ==
  ASSUME SinkInv, Open \/ Close \/ CloseJoined \/ Crash \/ UNCHANGED vars
  PROVE  SinkInv'
  <1> USE DEF SinkInv, SinkTypeOK
  <1>0. /\ NoTxn.rows = << >> /\ << >> \in Seq(Nat) /\ Len(<< >>) = 0 /\ Len(events) \in Nat
        /\ MaxBatchRows \in Nat /\ MaxRecords \in Nat
    BY SinkAssumption DEF NoTxn, CallerTypeOK
  <1>1. CASE Open
    <2>1. /\ caller = "idle" /\ UNCHANGED <<caller, queue, freed, events, accepted, txn, table, lost>>
          /\ UNCHANGED <<dropped_oversized_id, rows_written, dropped_ring_full, dropped_write_failed>>
          /\ stopping' = FALSE /\ joinable' = TRUE /\ draining' = FALSE
          /\ writer' = "read_stopping" /\ batch' = << >> /\ row_i' = 1 /\ unseen' = 0
          /\ joinable = FALSE
      BY <1>1 DEF Open, dbVars, FlagsOK
    <2>2. CallerTypeOK'
      BY <2>1 DEF CallerTypeOK
    <2>3. FlagsOK' /\ OutcomeTypeOK'
      BY <2>1 DEF FlagsOK, OutcomeTypeOK
    <2>4. WriterTypeOK'
      BY <1>0, <2>1 DEF WriterTypeOK
    <2>5. ThreadsOK'
      BY <2>1 DEF ThreadsOK
    <2>6. txn = NoTxn
      BY <2>1 DEF ThreadsOK, TxnOK, WriterTypeOK
    <2> QED
      BY <2>1, <2>2, <2>3, <2>4, <2>5, <2>6 DEF BatchOK, TxnOK, Retrying
  <1>2. CASE Close
    <2>1. /\ UNCHANGED <<writer, draining, batch, row_i, txn, joinable, queue, unseen, freed>>
          /\ UNCHANGED <<events, accepted, dropped_oversized_id, table, lost, rows_written,
                         dropped_ring_full, dropped_write_failed>>
          /\ caller = "idle" /\ joinable /\ stopping' = TRUE /\ caller' = "joining"
      BY <1>2 DEF Close, writerVars, dbVars, ringVars
    <2>2. CallerTypeOK' /\ WriterTypeOK' /\ OutcomeTypeOK'
      BY <2>1 DEF CallerTypeOK, WriterTypeOK, OutcomeTypeOK
    <2>3. FlagsOK'
      BY <2>1 DEF FlagsOK
    <2>4. ThreadsOK'
      BY <2>1 DEF ThreadsOK
    <2> QED
      BY <2>1, <2>2, <2>3, <2>4 DEF BatchOK, TxnOK
  <1>3. CASE CloseJoined
    <2>1. /\ UNCHANGED <<draining, batch, row_i, queue, unseen, freed, stopping>>
          /\ UNCHANGED <<events, accepted, dropped_oversized_id, table, lost, rows_written,
                         dropped_ring_full, dropped_write_failed>>
          /\ joinable' = FALSE /\ caller' = "idle" /\ writer' = "none" /\ txn' = NoTxn
      BY <1>3 DEF CloseJoined, ringVars
    <2>2. CallerTypeOK' /\ OutcomeTypeOK'
      BY <2>1 DEF CallerTypeOK, OutcomeTypeOK
    <2>3. WriterTypeOK'
      BY <1>0, <2>1 DEF WriterTypeOK
    <2>4. FlagsOK' /\ ThreadsOK'
      BY <2>1 DEF FlagsOK, ThreadsOK
    <2> QED
      BY <2>1, <2>2, <2>3, <2>4 DEF BatchOK, TxnOK, Retrying
  <1>4. CASE Crash
    <2>1. CallerTypeOK'
      BY <1>0, <1>4 DEF Crash, CallerTypeOK
    <2>2. WriterTypeOK'
      <3>1. writer' = "none" /\ batch' = << >> /\ row_i' = 1 /\ txn' = NoTxn
        BY <1>4 DEF Crash
      <3>2. txn'.rows \in Seq(Nat)
        BY <1>0, <3>1
      <3>3. batch' \in Seq(Nat) /\ Len(batch') <= MaxBatchRows
        BY <1>0, <3>1
      <3> QED
        BY <3>1, <3>2, <3>3 DEF WriterTypeOK
    <2>3. OutcomeTypeOK'
      BY <1>4 DEF Crash, OutcomeTypeOK
    <2>4. FlagsOK'
      BY <1>4 DEF Crash, FlagsOK
    <2> QED
      BY <1>4, <2>1, <2>2, <2>3, <2>4 DEF Crash, ThreadsOK, BatchOK, TxnOK, Retrying
  <1>5. CASE UNCHANGED vars
    <2>1. CallerTypeOK' /\ WriterTypeOK' /\ OutcomeTypeOK' /\ FlagsOK'
      BY <1>5 DEF vars, ringVars, callerVars, dbVars, writerVars, CallerTypeOK, WriterTypeOK,
                  OutcomeTypeOK, FlagsOK
    <2>2. ThreadsOK' /\ BatchOK' /\ TxnOK'
      BY <1>5 DEF vars, ringVars, callerVars, dbVars, writerVars, ThreadsOK, BatchOK, TxnOK
    <2> QED
      BY <2>1, <2>2
  <1> QED
    BY <1>1, <1>2, <1>3, <1>4, <1>5

\* The steps that fill the batch.
LEMMA SinkInvDrain ==
  ASSUME SinkInv, ReadStopping \/ DrainPop \/ DrainReloadHead \/ DrainBatchFull
  PROVE  SinkInv'
  <1> USE DEF SinkInv
  <1>1. /\ UNCHANGED <<caller, events, accepted, joinable, stopping, dropped_ring_full,
                       dropped_oversized_id, txn, table, row_i, rows_written,
                       dropped_write_failed, lost>>
        /\ writer \in {"read_stopping", "drain"}
    BY DEF ReadStopping, DrainPop, DrainReloadHead, DrainBatchFull, callerVars, dbVars
  <1>2. txn = NoTxn /\ joinable
    BY <1>1 DEF TxnOK, ThreadsOK
  <1>3. CASE ReadStopping
    <2>1. PICK seen \in {FALSE, stopping} :
             draining' = seen /\ unseen' = IF seen THEN 0 ELSE unseen
      BY <1>3 DEF ReadStopping
    <2>2. batch' = << >> /\ writer' = "drain" /\ UNCHANGED <<queue, freed>>
      BY <1>3 DEF ReadStopping
    <2>3. unseen' \in Nat /\ unseen' <= Len(queue)
      BY <2>1 DEF SinkTypeOK, CallerTypeOK
    <2>4. draining' \in BOOLEAN /\ (draining' => stopping /\ unseen' = 0)
      <3>1. CASE seen = FALSE
        BY <2>1, <3>1
      <3>2. CASE seen = TRUE
        <4>1. stopping = TRUE
          BY <3>2
        <4> QED
          BY <2>1, <3>2, <4>1
      <3>3. stopping = TRUE \/ stopping = FALSE
        BY DEF SinkTypeOK, FlagsOK
      <3> QED
        BY <3>1, <3>2, <3>3
    <2>5. CallerTypeOK' /\ OutcomeTypeOK'
      BY <1>1, <2>2, <2>3 DEF SinkTypeOK, CallerTypeOK, OutcomeTypeOK
    <2>6. FlagsOK'
      BY <1>1, <2>4 DEF SinkTypeOK, FlagsOK
    <2>7. WriterTypeOK'
      BY <1>1, <2>2, SinkAssumption DEF SinkTypeOK, WriterTypeOK
    <2>8. ThreadsOK'
      BY <1>1, <1>2, <2>2, <2>4 DEF ThreadsOK
    <2> QED
      BY <1>1, <1>2, <2>2, <2>5, <2>6, <2>7, <2>8 DEF SinkTypeOK, BatchOK, TxnOK, Retrying
  <1>4. CASE DrainPop
    <2>1. /\ writer = "drain" /\ Len(batch) < MaxBatchRows /\ unseen < Len(queue)
          /\ queue' = Tail(queue) /\ freed' = freed + 1
          /\ batch' = Append(batch, Head(queue)) /\ UNCHANGED <<writer, draining, unseen>>
      BY <1>4 DEF DrainPop, Ring!Pop
    <2>2. /\ queue # << >> /\ Len(queue) \in Nat /\ Head(queue) \in Nat
          /\ queue' \in Seq(Nat) /\ Len(queue') = Len(queue) - 1
      BY <2>1, HeadTailProperties DEF SinkTypeOK, CallerTypeOK, FlagsOK, WriterTypeOK, OutcomeTypeOK
    <2>3. batch' \in Seq(Nat) /\ Len(batch') = Len(batch) + 1 /\ Len(batch) \in Nat
      BY <2>1, <2>2, AppendProperties DEF SinkTypeOK, CallerTypeOK, FlagsOK, WriterTypeOK, OutcomeTypeOK
    <2>4. SinkTypeOK'
      <3>1. CallerTypeOK'
        BY <1>1, <2>1, <2>2 DEF SinkTypeOK, CallerTypeOK
      <3>2. WriterTypeOK'
        BY <1>1, <2>1, <2>3, SinkAssumption DEF SinkTypeOK, WriterTypeOK
      <3>3. FlagsOK' /\ OutcomeTypeOK'
        BY <1>1, <2>1 DEF SinkTypeOK, FlagsOK, OutcomeTypeOK
      <3> QED
        BY <3>1, <3>2, <3>3 DEF SinkTypeOK
    <2>5. ThreadsOK'
      BY <1>1, <1>2, <2>1 DEF ThreadsOK
    <2> QED
      BY <1>1, <1>2, <2>1, <2>4, <2>5 DEF BatchOK, TxnOK, Retrying
  <1>5. CASE DrainReloadHead \/ DrainBatchFull
    <2>1. /\ writer = "drain" /\ UNCHANGED <<queue, freed, draining, batch>>
          /\ unseen' \in 0..unseen /\ writer' \in {"drain", "begin", "read_stopping", "done"}
          /\ writer' = "begin" => batch # << >>
          /\ writer' = "done" => draining /\ unseen' = Len(queue)
      <3>1. CASE DrainReloadHead
        BY <3>1 DEF DrainReloadHead, AfterDrain, Ring!LearnPushed
      <3>2. CASE DrainBatchFull
        <4>1. batch # << >>
          BY <3>2, SinkAssumption DEF DrainBatchFull, SinkTypeOK, WriterTypeOK
        <4> QED
          BY <3>2, <4>1 DEF DrainBatchFull, AfterDrain, ringVars, SinkTypeOK, CallerTypeOK
      <3> QED
        BY <1>5, <3>1, <3>2
    <2>2. SinkTypeOK'
      BY <1>1, <2>1 DEF SinkTypeOK, CallerTypeOK, FlagsOK, WriterTypeOK, OutcomeTypeOK
    <2>3. writer' = "done" => queue = << >>
      <3> SUFFICES ASSUME writer' = "done" PROVE queue = << >>
        OBVIOUS
      <3>1. unseen = 0
        BY <1>2, <2>1 DEF ThreadsOK
      <3> QED
        BY <2>1, <3>1 DEF SinkTypeOK, CallerTypeOK, FlagsOK, WriterTypeOK, OutcomeTypeOK
    <2>4. ThreadsOK'
      BY <1>1, <1>2, <2>1, <2>3 DEF ThreadsOK, SinkTypeOK
    <2>5. Len(batch) \in Nat /\ (batch # << >> => Len(batch) >= 1)
      BY DEF SinkTypeOK, CallerTypeOK, FlagsOK, WriterTypeOK, OutcomeTypeOK
    <2> QED
      BY <1>1, <1>2, <2>1, <2>2, <2>4, <2>5 DEF BatchOK, TxnOK, Retrying
  <1> QED
    BY <1>3, <1>4, <1>5

\* A transaction's fields.
LEMMA TxnFields ==
  /\ NoTxn.open = FALSE /\ NoTxn.rows = << >>
  /\ \A rows, ids : /\ OpenTxn(rows, ids).open = TRUE
                    /\ OpenTxn(rows, ids).rows = rows /\ OpenTxn(rows, ids).parents = ids
  BY DEF NoTxn, OpenTxn

\* Outside a transaction there is no row to commit.
LEMMA NoTxnRows == NoTxn.rows \in Seq(Nat)
  BY DEF NoTxn

\* BEGIN outside a transaction.
LEMMA BeginFacts ==
  ASSUME NEW ok, NEW failed, txn = NoTxn, Begin(ok, failed)
  PROVE  /\ UNCHANGED <<table, parents>>
         /\ \/ writer' = ok /\ txn' = OpenTxn(<< >>, {}) /\ UNCHANGED faults
            \/ writer' = failed /\ txn' = NoTxn /\ Fault
  BY TxnFields DEF Begin, NoFault

\* insert(): the row is in the transaction; or it is refused, or a statement failed.
LEMMA InsertFacts ==
  ASSUME NEW r, NEW ok, NEW failed, txn.rows \in Seq(Nat), Insert(r, ok, failed)
  PROVE  /\ UNCHANGED <<table, parents>>
         /\ \/ /\ writer' = ok /\ UNCHANGED faults
               /\ txn'.rows = Append(txn.rows, r)
               /\ txn'.parents = txn.parents \cup {events[r].id}
            \/ /\ writer' = failed /\ txn'.rows \in Seq(Nat)
               /\ (events[r].refused /\ UNCHANGED faults) \/ Fault
  <1> DEFINE ids == txn.parents \cup {events[r].id}
  <1>1. UNCHANGED <<table, parents>>
    BY DEF Insert
  <1>2. CASE /\ ~events[r].refused /\ NoFault /\ txn' = OpenTxn(Append(txn.rows, r), ids)
             /\ writer' = ok
    <2>1. txn'.rows = Append(txn.rows, r) /\ txn'.parents = ids
      BY <1>2, TxnFields, ZenonT(30)
    <2> QED
      BY <1>1, <1>2, <2>1 DEF NoFault
  <1>3. CASE events[r].refused /\ NoFault /\ txn' = OpenTxn(txn.rows, ids) /\ writer' = failed
    <2>1. txn'.rows = txn.rows
      BY <1>3, TxnFields, Zenon
    <2> QED
      BY <1>1, <1>3, <2>1 DEF NoFault
  <1>4. CASE Fault /\ txn' \in {txn, OpenTxn(txn.rows, ids), NoTxn} /\ writer' = failed
    <2>1. txn' = txn => txn'.rows \in Seq(Nat)
      OBVIOUS
    <2>2. txn' = OpenTxn(txn.rows, ids) => txn'.rows = txn.rows
      <3>1. OpenTxn(txn.rows, ids).rows = txn.rows
        BY TxnFields, Zenon
      <3> QED
        BY <3>1, Zenon
    <2>3. txn' = NoTxn => txn'.rows \in Seq(Nat)
      BY NoTxnRows, Zenon
    <2>4. txn'.rows \in Seq(Nat)
      BY <1>4, <2>1, <2>2, <2>3
    <2> QED
      BY <1>1, <1>4, <2>4
  <1> QED
    BY <1>2, <1>3, <1>4 DEF Insert

\* COMMIT: all of the transaction is in the table, or nothing.
LEMMA CommitFacts ==
  ASSUME NEW ok, NEW failed, NEW n, txn.rows \in Seq(Nat), Commit(ok, failed, n)
  PROVE  \/ /\ writer' = ok /\ table' = table \o txn.rows /\ parents' = parents \cup txn.parents
            /\ txn' = NoTxn /\ UNCHANGED faults /\ rows_written' = rows_written + n
         \/ /\ writer' = failed /\ txn'.rows \in Seq(Nat) /\ Fault
            /\ UNCHANGED <<table, parents, rows_written>>
  BY NoTxnRows DEF Commit, NoFault

\* The steps of write_batch() that leave the outcome alone.
LEMMA SinkInvWrite ==
  ASSUME SinkInv,
         \/ BatchBegin \/ BatchInsert \/ BatchCommit \/ BatchRollback
         \/ RetryBegin \/ RetryInsert \/ RetryCommit \/ RetryRollback
  PROVE  SinkInv'
  <1> USE DEF SinkInv, SinkTypeOK
  <1>1. /\ UNCHANGED <<queue, unseen, freed, caller, events, accepted, joinable, stopping>>
        /\ UNCHANGED <<dropped_ring_full, dropped_oversized_id, draining, batch>>
    BY DEF BatchBegin, BatchInsert, BatchCommit, BatchRollback, RetryBegin, RetryInsert,
           RetryCommit, RetryRollback, writeBatchRest, ringVars, callerVars
  <1>2. CallerTypeOK' /\ FlagsOK'
    BY <1>1 DEF CallerTypeOK, FlagsOK
  <1>3. /\ Len(batch) \in Nat /\ Len(batch) >= 1 /\ txn.rows \in Seq(Nat) /\ batch \in Seq(Nat)
        /\ writer \in {"begin", "insert", "commit", "rollback"} \cup Retrying
    BY DEF BatchBegin, BatchInsert, BatchCommit, BatchRollback, RetryBegin, RetryInsert,
           RetryCommit, RetryRollback, WriterTypeOK, BatchOK, Retrying
  <1> DEFINE Next1(w, i) ==
         /\ w \in {"read_stopping", "insert", "commit", "rollback"} \cup Retrying
         /\ i \in Nat
         /\ w \in {"insert"} \cup Retrying => i \in 1..Len(batch)
  <1>4. ASSUME Next1(writer', row_i'), txn'.rows \in Seq(Nat), TxnOK', OutcomeTypeOK'
        PROVE  SinkInv'
    <2>1. WriterTypeOK'
      BY <1>1, <1>4 DEF WriterTypeOK, Retrying
    <2>2. BatchOK'
      BY <1>1, <1>3, <1>4 DEF BatchOK, Retrying
    <2>3. ThreadsOK'
      <3>1. writer # "none" /\ writer' # "none" /\ writer' # "done"
        BY <1>3, <1>4 DEF Retrying
      <3> QED
        BY <1>1, <3>1 DEF ThreadsOK
    <2> QED
      BY <1>2, <1>4, <2>1, <2>2, <2>3
  <1> HIDE DEF Next1
  <1>5. CASE BatchBegin
    <2>1. /\ row_i' = 1 /\ UNCHANGED <<rows_written, dropped_write_failed, lost, table>>
          /\ \/ writer' = "insert" /\ txn' = OpenTxn(<< >>, {})
             \/ writer' = "retry_begin" /\ txn' = NoTxn
      BY <1>5, BeginFacts DEF BatchBegin, TxnOK
    <2>2. txn'.rows = << >>
      BY <2>1, TxnFields, ZenonT(30)
    <2>3. Len(txn'.rows) = row_i' - 1 /\ txn'.rows \in Seq(Nat)
      BY <2>1, <2>2
    <2>4. TxnOK'
      BY <2>1, <2>3 DEF TxnOK
    <2>5. OutcomeTypeOK' /\ Next1(writer', row_i')
      BY <1>1, <1>3, <2>1 DEF OutcomeTypeOK, Next1, Retrying
    <2> QED
      BY <1>4, <2>3, <2>4, <2>5
  <1>6. CASE BatchInsert
    <2>1. /\ row_i \in 1..Len(batch) /\ row_i' = row_i + 1 /\ writer = "insert"
          /\ UNCHANGED <<rows_written, dropped_write_failed, lost>>
          /\ Insert(batch[row_i], IF row_i < Len(batch) THEN "insert" ELSE "commit", "rollback")
      BY <1>6 DEF BatchInsert, BatchOK
    <2>2. batch[row_i] \in Nat
      BY <1>3, <2>1
    <2>3. /\ UNCHANGED table
          /\ \/ /\ writer' = IF row_i < Len(batch) THEN "insert" ELSE "commit"
                /\ txn'.rows = Append(txn.rows, batch[row_i])
             \/ writer' = "rollback" /\ txn'.rows \in Seq(Nat)
      BY <1>3, <2>1, InsertFacts
    <2>4. OutcomeTypeOK' /\ Next1(writer', row_i')
      BY <1>1, <1>3, <2>1, <2>3 DEF OutcomeTypeOK, Next1, Retrying
    <2>5. CASE writer' = "rollback" /\ txn'.rows \in Seq(Nat)
      <3>1. TxnOK'
        BY <2>5 DEF TxnOK
      <3> QED
        BY <1>4, <2>4, <2>5, <3>1
    <2>6. CASE /\ writer' = IF row_i < Len(batch) THEN "insert" ELSE "commit"
               /\ txn'.rows = Append(txn.rows, batch[row_i])
      <3> DEFINE t == txn'.rows
      <3>1. /\ t \in Seq(Nat) /\ Len(t) = Len(txn.rows) + 1 /\ Len(txn.rows) \in Nat
            /\ t[Len(txn.rows) + 1] = batch[row_i]
            /\ \A k \in 1..Len(txn.rows) : t[k] = txn.rows[k]
        BY <1>3, <2>2, <2>6, AppendProperties
      <3>2. Len(txn.rows) = row_i - 1 /\ \A k \in 1..(row_i - 1) : txn.rows[k] = batch[k]
        BY <2>1 DEF TxnOK
      <3> HIDE DEF t
      <3>3. Len(t) = row_i /\ \A k \in 1..row_i : t[k] = batch[k]
        <4>1. Len(t) = row_i
          BY <2>1, <3>1, <3>2
        <4>2. ASSUME NEW k \in 1..row_i PROVE t[k] = batch[k]
          <5>1. CASE k = row_i
            BY <2>1, <3>1, <3>2, <5>1
          <5>2. CASE k # row_i
            <6>1. k \in 1..(row_i - 1)
              BY <2>1, <5>2
            <6> QED
              BY <3>1, <3>2, <6>1
          <5> QED
            BY <5>1, <5>2
        <4> QED
          BY <4>1, <4>2
      <3>4. row_i = Len(batch) => t = batch
        <4> SUFFICES ASSUME row_i = Len(batch) PROVE t = batch
          OBVIOUS
        <4>1. Len(t) = Len(batch) /\ \A k \in 1..Len(t) : t[k] = batch[k]
          BY <3>3
        <4> QED
          BY <1>3, <3>1, <4>1, SeqEqual
      <3>5. TxnOK'
        <4>1. row_i' - 1 = row_i
          BY <2>1
        <4>2. CASE row_i < Len(batch)
          <5>1. writer' = "insert"
            BY <2>6, <4>2
          <5> QED
            BY <1>1, <3>3, <4>1, <5>1 DEF TxnOK, t
        <4>3. CASE ~(row_i < Len(batch))
          <5>1. writer' = "commit" /\ row_i = Len(batch)
            BY <1>3, <2>1, <2>6, <4>3
          <5> QED
            BY <1>1, <3>4, <5>1 DEF TxnOK, t
        <4> QED
          BY <4>2, <4>3
      <3> QED
        BY <1>4, <2>4, <3>1, <3>5 DEF t
    <2> QED
      BY <2>3, <2>5, <2>6
  <1>7. CASE BatchCommit
    <2>1. /\ writer = "commit" /\ UNCHANGED <<row_i, dropped_write_failed, lost>>
          /\ Commit("read_stopping", "rollback", Len(batch))
      BY <1>7 DEF BatchCommit
    <2>2. \/ /\ writer' = "read_stopping" /\ table' = table \o txn.rows /\ txn' = NoTxn
             /\ rows_written' = rows_written + Len(batch)
          \/ writer' = "rollback" /\ txn'.rows \in Seq(Nat) /\ UNCHANGED <<table, rows_written>>
      BY <1>3, <2>1, CommitFacts
    <2>3. table' \in Seq(Nat)
      BY <1>3, <2>2, Joined DEF OutcomeTypeOK
    <2>4. OutcomeTypeOK' /\ Next1(writer', row_i')
      BY <1>1, <1>3, <2>1, <2>2, <2>3 DEF OutcomeTypeOK, WriterTypeOK, Next1, Retrying
    <2>5. txn'.rows \in Seq(Nat)
      BY <2>2, NoTxnRows, Zenon
    <2>6. TxnOK'
      BY <2>2 DEF TxnOK
    <2> QED
      BY <1>4, <2>4, <2>5, <2>6
  <1>8. CASE BatchRollback
    <2>1. /\ txn' = NoTxn /\ row_i' = 1 /\ writer' = "retry_begin"
          /\ UNCHANGED <<table, rows_written, dropped_write_failed, lost>>
      BY <1>8 DEF BatchRollback, Rollback
    <2>2. OutcomeTypeOK' /\ Next1(writer', row_i')
      BY <1>1, <1>3, <2>1 DEF OutcomeTypeOK, Next1, Retrying
    <2>3. txn'.rows \in Seq(Nat)
      BY <2>1, NoTxnRows, Zenon
    <2>4. TxnOK'
      BY <2>1 DEF TxnOK
    <2> QED
      BY <1>4, <2>2, <2>3, <2>4
  <1>9. CASE RetryBegin
    <2>1. /\ row_i \in 1..Len(batch) /\ UNCHANGED <<row_i, rows_written, dropped_write_failed, lost, table>>
          /\ \/ writer' = "retry_insert" /\ txn' = OpenTxn(<< >>, {})
             \/ writer' = "retry_rollback" /\ txn' = NoTxn
      BY <1>9, BeginFacts DEF RetryBegin, TxnOK, BatchOK, Retrying
    <2>2. txn'.rows = << >>
      BY <2>1, TxnFields, Zenon
    <2>3. TxnOK'
      BY <2>1, <2>2 DEF TxnOK
    <2>4. OutcomeTypeOK' /\ Next1(writer', row_i')
      BY <1>1, <1>3, <2>1 DEF OutcomeTypeOK, WriterTypeOK, Next1, Retrying
    <2> QED
      BY <1>4, <2>2, <2>3, <2>4
  <1>10. CASE RetryInsert
    <2>1. /\ row_i \in 1..Len(batch) /\ writer = "retry_insert"
          /\ UNCHANGED <<row_i, rows_written, dropped_write_failed, lost>>
          /\ Insert(batch[row_i], "retry_commit", "retry_rollback")
      BY <1>10 DEF RetryInsert, BatchOK, Retrying
    <2>2. batch[row_i] \in Nat /\ txn.rows = << >>
      BY <1>3, <2>1 DEF TxnOK
    <2>3. /\ UNCHANGED table
          /\ \/ writer' = "retry_commit" /\ txn'.rows = Append(txn.rows, batch[row_i])
             \/ writer' = "retry_rollback" /\ txn'.rows \in Seq(Nat)
      BY <1>3, <2>1, InsertFacts
    <2>4. Append(txn.rows, batch[row_i]) = <<batch[row_i]>> /\ <<batch[row_i]>> \in Seq(Nat)
      BY <2>2
    <2>5. TxnOK'
      BY <1>1, <2>1, <2>3, <2>4 DEF TxnOK
    <2>6. OutcomeTypeOK' /\ Next1(writer', row_i')
      BY <1>1, <1>3, <2>1, <2>3 DEF OutcomeTypeOK, WriterTypeOK, Next1, Retrying
    <2>7. txn'.rows \in Seq(Nat)
      BY <2>3, <2>4
    <2> QED
      BY <1>4, <2>5, <2>6, <2>7
  <1>11. CASE RetryCommit
    <2>1. /\ row_i \in 1..Len(batch) /\ writer = "retry_commit"
          /\ row_i' = IF writer' = "retry_rollback" THEN row_i ELSE row_i + 1
          /\ UNCHANGED <<dropped_write_failed, lost>>
          /\ Commit(AfterRetry, "retry_rollback", 1)
      BY <1>11 DEF RetryCommit, BatchOK, Retrying
    <2>2. \/ /\ writer' = AfterRetry /\ table' = table \o txn.rows /\ txn' = NoTxn
             /\ rows_written' = rows_written + 1
          \/ writer' = "retry_rollback" /\ txn'.rows \in Seq(Nat) /\ UNCHANGED <<table, rows_written>>
      BY <1>3, <2>1, CommitFacts
    <2>3. table' \in Seq(Nat)
      BY <1>3, <2>2, Joined, ZenonT(30) DEF OutcomeTypeOK
    <2>4. OutcomeTypeOK'
      BY <1>1, <2>1, <2>2, <2>3 DEF OutcomeTypeOK
    <2>5. Next1(writer', row_i')
      BY <1>3, <2>1, <2>2 DEF AfterRetry, Next1, Retrying
    <2>6. txn'.rows \in Seq(Nat)
      BY <2>2, NoTxnRows, Zenon
    <2>7. TxnOK'
      BY <2>2 DEF TxnOK, AfterRetry
    <2> QED
      BY <1>4, <2>4, <2>5, <2>6, <2>7
  <1>12. CASE RetryRollback
    <2>1. /\ row_i \in 1..Len(batch) /\ txn' = NoTxn /\ row_i' = row_i + 1
          /\ writer' = AfterRetry /\ dropped_write_failed' = dropped_write_failed + 1
          /\ lost' = lost \cup {batch[row_i]} /\ UNCHANGED <<table, rows_written>>
      BY <1>12 DEF RetryRollback, Rollback, BatchOK, Retrying
    <2>2. batch[row_i] \in Nat
      BY <1>3, <2>1
    <2>3. OutcomeTypeOK'
      <3>1. lost' \in SUBSET Nat
        BY <2>1, <2>2 DEF OutcomeTypeOK
      <3> QED
        BY <1>1, <2>1, <3>1 DEF OutcomeTypeOK
    <2>4. Next1(writer', row_i')
      BY <1>3, <2>1 DEF AfterRetry, Next1, Retrying
    <2>5. txn'.rows \in Seq(Nat)
      BY <2>1, NoTxnRows, Zenon
    <2>6. TxnOK'
      BY <2>1 DEF TxnOK, AfterRetry
    <2> QED
      BY <1>4, <2>3, <2>4, <2>5, <2>6
  <1> QED
    BY <1>5, <1>6, <1>7, <1>8, <1>9, <1>10, <1>11, <1>12

\* Every step keeps the invariant.
LEMMA SinkInvNext == SinkInv /\ [Next]_vars => SinkInv'
  <1> SUFFICES ASSUME SinkInv, [Next]_vars PROVE SinkInv'
    OBVIOUS
  <1>1. CASE \/ \E id \in CorrelationIds, refused \in BOOLEAN : Record(id, refused)
             \/ RecordOversized \/ RecordReloadTail \/ RecordPush
    BY <1>1, SinkInvRecord
  <1>2. CASE Open \/ Close \/ CloseJoined \/ Crash \/ UNCHANGED vars
    BY <1>2, SinkInvOpenClose
  <1>3. CASE ReadStopping \/ DrainPop \/ DrainReloadHead \/ DrainBatchFull
    BY <1>3, SinkInvDrain
  <1>4. CASE \/ BatchBegin \/ BatchInsert \/ BatchCommit \/ BatchRollback
             \/ RetryBegin \/ RetryInsert \/ RetryCommit \/ RetryRollback
    BY <1>4, SinkInvWrite
  <1> QED
    BY <1>1, <1>2, <1>3, <1>4, Zenon DEF Next, Caller, Writer

-----------------------------------------------------------------------------
(* What a step does to the rows that wait.                                 *)

\* The rows accepted and not settled, as TelemetryLog has them.
Pending == Unsettled \o queue

\* record() has begun with a row and not answered.
RowInHand == caller \in {"reload_tail", "push"}

outcomes == <<table, lost, rows_written, dropped_ring_full, dropped_oversized_id,
              dropped_write_failed>>

Records ==
    /\ ~RowInHand /\ RowInHand' /\ \E e : events' = Append(events, e)
    /\ UNCHANGED <<Pending, outcomes, accepted, joinable, processVars>>

Pushes ==
    /\ RowInHand /\ ~RowInHand' /\ Len(Pending) < Capacity + MaxBatchRows
    /\ Pending' = Append(Pending, Len(events)) /\ accepted' = Append(accepted, Len(events))
    /\ UNCHANGED <<outcomes, events, joinable, processVars>>

DropsRow ==
    /\ RowInHand /\ ~RowInHand' /\ dropped_ring_full' = dropped_ring_full + 1
    /\ UNCHANGED <<Pending, table, lost, rows_written, dropped_oversized_id,
                   dropped_write_failed, accepted, events, joinable, processVars>>

DropsId ==
    /\ UNCHANGED RowInHand /\ dropped_oversized_id' = dropped_oversized_id + 1
    /\ UNCHANGED <<Pending, table, lost, rows_written, dropped_ring_full,
                   dropped_write_failed, accepted, events, joinable, processVars>>

Writes(n) ==
    /\ joinable /\ n \in 1..MaxBatchRows /\ n <= Len(Pending)
    /\ table' = table \o SubSeq(Pending, 1, n)
    /\ Pending' = SubSeq(Pending, n + 1, Len(Pending))
    /\ rows_written' = rows_written + n
    /\ UNCHANGED <<lost, dropped_ring_full, dropped_oversized_id, dropped_write_failed,
                   caller, accepted, events, joinable, processVars>>

GivesUp ==
    /\ joinable /\ Pending # << >>
    /\ lost' = lost \cup {Head(Pending)} /\ Pending' = Tail(Pending)
    /\ dropped_write_failed' = dropped_write_failed + 1
    /\ UNCHANGED <<table, rows_written, dropped_ring_full, dropped_oversized_id,
                   caller, accepted, events, joinable, processVars>>

\* Nothing happens to a row; close() returns only when none waits.
Idles ==
    /\ UNCHANGED <<Pending, RowInHand, outcomes, accepted, events, processVars>>
    /\ \/ UNCHANGED joinable /\ ~(caller = "joining" /\ caller' = "idle")
       \/ ~joinable /\ joinable' = TRUE /\ caller = "idle" /\ caller' = "idle"
       \/ joinable /\ joinable' = FALSE /\ Pending = << >> /\ caller = "joining"

Crashes == Crash /\ Pending' = << >>

StepEffect ==
    \/ Records \/ Pushes \/ DropsRow \/ DropsId \/ (\E n \in Nat : Writes(n)) \/ GivesUp
    \/ Idles \/ Crashes

\* The rows that wait are a sequence, of one batch and the queue.
LEMMA PendingFacts ==
  ASSUME SinkInv
  PROVE  /\ Unsettled \in Seq(Nat) /\ queue \in Seq(Nat) /\ Pending \in Seq(Nat)
         /\ Len(Unsettled) \in Nat /\ Len(queue) \in Nat
         /\ Len(Unsettled) <= MaxBatchRows
         /\ Len(Pending) = Len(Unsettled) + Len(queue)
         /\ ~joinable => Unsettled = << >>
         /\ Unsettled = << >> => Pending = queue
  <1>1. batch \in Seq(Nat) /\ Len(batch) \in Nat /\ Len(batch) <= MaxBatchRows
    BY DEF SinkInv, SinkTypeOK, WriterTypeOK
  <1>2. /\ Unsettled \in Seq(Nat) /\ Len(Unsettled) \in Nat /\ Len(Unsettled) <= MaxBatchRows
        /\ ~joinable => Unsettled = << >>
    <2>1. CASE writer \in {"drain", "begin", "insert", "commit", "rollback"}
      BY <1>1, <2>1 DEF Unsettled, SinkInv, ThreadsOK
    <2>2. CASE writer \in Retrying
      <3>1. row_i \in 1..Len(batch)
        BY <2>2 DEF SinkInv, BatchOK
      <3>2. Unsettled = SubSeq(batch, row_i, Len(batch))
        BY <2>2 DEF Unsettled, Retrying
      <3>3. SubSeq(batch, row_i, Len(batch)) \in Seq(Nat)
            /\ Len(SubSeq(batch, row_i, Len(batch))) = (Len(batch) - row_i) + 1
        BY <1>1, <3>1, FirstLeft
      <3>4. Unsettled \in Seq(Nat) /\ Len(Unsettled) = (Len(batch) - row_i) + 1
        BY <3>2, <3>3
      <3>5. joinable
        BY <2>2 DEF SinkInv, ThreadsOK, Retrying
      <3> QED
        BY <1>1, <3>1, <3>4, <3>5, SinkAssumption
    <2>3. CASE writer \notin {"drain", "begin", "insert", "commit", "rollback"} \cup Retrying
      <3>1. Unsettled = << >>
        BY <2>3 DEF Unsettled, Retrying
      <3> QED
        BY <3>1, SinkAssumption
    <2> QED
      BY <2>1, <2>2, <2>3
  <1>3. queue \in Seq(Nat)
    BY DEF SinkInv, SinkTypeOK, CallerTypeOK
  <1>4. Pending \in Seq(Nat) /\ Len(Pending) = Len(Unsettled) + Len(queue) /\ Len(queue) \in Nat
    BY <1>2, <1>3, Joined DEF Pending
  <1>5. << >> \o queue = queue
    BY <1>3, ConcatEmptySeq
  <1> QED
    BY <1>2, <1>3, <1>4, <1>5 DEF Pending

\* record() puts its row last, or counts it.
LEMMA RecordEffect ==
  ASSUME SinkInv,
         \/ \E id \in CorrelationIds, refused \in BOOLEAN : Record(id, refused)
         \/ RecordOversized \/ RecordReloadTail \/ RecordPush
  PROVE  StepEffect
  <1>1. /\ UNCHANGED <<joinable, table, lost, rows_written, dropped_write_failed, processVars>>
        /\ Unsettled' = Unsettled
    BY DEF Record, RecordOversized, RecordReloadTail, RecordPush, dbVars, writerVars, Unsettled
  <1>2. CASE \E id \in CorrelationIds, refused \in BOOLEAN : Record(id, refused)
    <2>1. PICK id \in CorrelationIds, refused \in BOOLEAN : Record(id, refused)
      BY <1>2
    <2>2. /\ UNCHANGED <<queue, accepted, dropped_ring_full, dropped_oversized_id>>
          /\ caller = "idle" /\ caller' \in {"reload_tail", "push"}
          /\ events' = Append(events, [id |-> id, refused |-> refused])
      BY <2>1 DEF Record, ringVars
    <2>3. Records
      BY <1>1, <2>2 DEF Records, RowInHand, outcomes, Pending
    <2> QED
      BY <2>3 DEF StepEffect
  <1>3. CASE RecordOversized
    <2>1. DropsId
      BY <1>1, <1>3 DEF RecordOversized, DropsId, RowInHand, Pending, ringVars
    <2> QED
      BY <2>1 DEF StepEffect
  <1>4. CASE RecordReloadTail
    <2>1. /\ UNCHANGED <<queue, events, accepted, dropped_oversized_id>> /\ caller = "reload_tail"
          /\ \/ caller' = "idle" /\ dropped_ring_full' = dropped_ring_full + 1
             \/ caller' = "push" /\ UNCHANGED dropped_ring_full
      BY <1>4 DEF RecordReloadTail, Ring!LearnFreed
    <2>2. DropsRow \/ Idles
      BY <1>1, <2>1 DEF DropsRow, Idles, RowInHand, Pending, outcomes
    <2> QED
      BY <2>2 DEF StepEffect
  <1>5. CASE RecordPush
    <2>1. /\ Len(queue) + freed < Capacity /\ queue' = Append(queue, Len(events))
          /\ accepted' = Append(accepted, Len(events)) /\ caller = "push" /\ caller' = "idle"
          /\ UNCHANGED <<events, dropped_ring_full, dropped_oversized_id>>
      BY <1>5 DEF RecordPush, Ring!Push
    <2>2. freed \in Nat /\ Len(events) \in Nat
      BY DEF SinkInv, SinkTypeOK, CallerTypeOK
    <2>3. Len(Pending) < Capacity + MaxBatchRows
      BY <2>1, <2>2, PendingFacts, SinkAssumption
    <2>4. Unsettled \o Append(queue, Len(events)) = Append(Unsettled \o queue, Len(events))
      BY <2>2, PendingFacts, PushJoined, Zenon
    <2>5. Pending' = Append(Pending, Len(events))
      BY <1>1, <2>1, <2>4, Zenon DEF Pending
    <2>6. Pushes
      BY <1>1, <2>1, <2>3, <2>5 DEF Pushes, RowInHand, outcomes
    <2> QED
      BY <2>6 DEF StepEffect
  <1> QED
    BY <1>2, <1>3, <1>4, <1>5

\* open() starts a writer; close() returns when no row waits.
LEMMA OpenCloseEffect ==
  ASSUME SinkInv, Open \/ Close \/ CloseJoined \/ Crash \/ UNCHANGED vars
  PROVE  StepEffect
  <1>1. CASE Open
    <2>1. /\ caller = "idle" /\ UNCHANGED <<caller, queue, accepted, events, outcomes, processVars>>
          /\ ~joinable /\ joinable' = TRUE /\ writer' = "read_stopping"
      BY <1>1 DEF Open, dbVars, outcomes
    <2>2. Unsettled = << >> /\ Unsettled' = << >>
      BY <2>1, PendingFacts DEF Unsettled
    <2>3. Idles
      BY <2>1, <2>2 DEF Idles, Pending, RowInHand
    <2> QED
      BY <2>3 DEF StepEffect
  <1>2. CASE Close
    <2>1. Idles
      BY <1>2 DEF Close, Idles, Pending, RowInHand, Unsettled, outcomes, ringVars, dbVars, writerVars
    <2> QED
      BY <2>1 DEF StepEffect
  <1>3. CASE CloseJoined
    <2>1. /\ caller = "joining" /\ caller' = "idle" /\ writer = "done" /\ writer' = "none"
          /\ joinable' = FALSE /\ UNCHANGED <<queue, accepted, events, outcomes, processVars>>
      BY <1>3 DEF CloseJoined, outcomes, ringVars
    <2>2. Unsettled = << >> /\ Unsettled' = << >>
      BY <2>1 DEF Unsettled
    <2>3. joinable /\ queue = << >>
      BY <2>1 DEF SinkInv, ThreadsOK
    <2>4. Pending = << >> /\ Pending' = Pending
      BY <2>1, <2>2, <2>3, PendingFacts DEF Pending
    <2>5. Idles
      BY <2>1, <2>3, <2>4 DEF Idles, RowInHand
    <2> QED
      BY <2>5 DEF StepEffect
  <1>4. CASE Crash
    <2>1. writer' = "none" /\ queue' = << >>
      BY <1>4 DEF Crash
    <2>2. Unsettled' = << >> /\ << >> \o << >> = << >>
      BY <2>1 DEF Unsettled
    <2>3. Pending' = << >>
      BY <2>1, <2>2, Zenon DEF Pending
    <2> QED
      BY <1>4, <2>3 DEF StepEffect, Crashes
  <1>5. CASE UNCHANGED vars
    <2>1. /\ UNCHANGED <<writer, batch, row_i, queue, caller, joinable, accepted, events>>
          /\ UNCHANGED <<outcomes, processVars>>
      BY <1>5 DEF vars, ringVars, callerVars, dbVars, writerVars, outcomes, processVars
    <2>2. Idles
      BY <2>1 DEF Idles, Pending, RowInHand, Unsettled
    <2> QED
      BY <2>2 DEF StepEffect
  <1> QED
    BY <1>1, <1>2, <1>3, <1>4, <1>5

\* A row popped keeps its place.
LEMMA DrainEffect ==
  ASSUME SinkInv, ReadStopping \/ DrainPop \/ DrainReloadHead \/ DrainBatchFull
  PROVE  StepEffect
  <1>1. UNCHANGED <<caller, joinable, accepted, events, outcomes, processVars>>
    BY DEF ReadStopping, DrainPop, DrainReloadHead, DrainBatchFull, callerVars, dbVars, outcomes,
           processVars
  <1> SUFFICES Pending' = Pending
    BY <1>1 DEF StepEffect, Idles, RowInHand
  <1>2. CASE ReadStopping
    <2>1. /\ writer = "read_stopping" /\ writer' = "drain" /\ batch' = << >> /\ queue' = queue
      BY <1>2 DEF ReadStopping
    <2> QED
      BY <2>1 DEF Pending, Unsettled
  <1>3. CASE DrainPop
    <2>1. /\ writer = "drain" /\ writer' = "drain" /\ queue' = Tail(queue)
          /\ batch' = Append(batch, Head(queue)) /\ unseen < Len(queue)
      BY <1>3 DEF DrainPop, Ring!Pop
    <2>2. queue \in Seq(Nat) /\ queue # << >> /\ batch \in Seq(Nat)
      BY <2>1 DEF SinkInv, SinkTypeOK, CallerTypeOK, WriterTypeOK
    <2>3. Unsettled = batch /\ Unsettled' = batch'
      BY <2>1 DEF Unsettled
    <2>4. Append(batch, Head(queue)) \o Tail(queue) = batch \o queue
      BY <2>2, PopJoined
    <2> QED
      BY <2>1, <2>3, <2>4, Zenon DEF Pending
  <1>4. CASE DrainReloadHead \/ DrainBatchFull
    <2>1. /\ writer = "drain" /\ UNCHANGED <<queue, batch>>
          /\ \/ writer' \in {"drain", "begin"}
             \/ writer' \in {"read_stopping", "done"} /\ batch = << >>
      BY <1>4 DEF DrainReloadHead, DrainBatchFull, AfterDrain, Ring!LearnPushed, ringVars
    <2>2. Unsettled' = Unsettled
      BY <2>1 DEF Unsettled
    <2> QED
      BY <2>1, <2>2, Zenon DEF Pending
  <1> QED
    BY <1>2, <1>3, <1>4

\* The row that is retried is the first that waits.
LEMMA RetriedFirst ==
  ASSUME SinkInv, writer \in Retrying
  PROVE  LET w == SubSeq(batch, row_i + 1, Len(batch)) \o queue IN
         /\ batch[row_i] \in Nat /\ row_i \in 1..Len(batch) /\ Len(batch) \in Nat
         /\ w \in Seq(Nat) /\ Pending = <<batch[row_i]>> \o w
         /\ row_i = Len(batch) => w = queue
  <1> DEFINE x == batch[row_i]
             v == SubSeq(batch, row_i + 1, Len(batch))
  <1>1. batch \in Seq(Nat) /\ queue \in Seq(Nat) /\ row_i \in 1..Len(batch) /\ Len(batch) \in Nat
    BY DEF SinkInv, SinkTypeOK, CallerTypeOK, WriterTypeOK, BatchOK
  <1>2. Unsettled = SubSeq(batch, row_i, Len(batch))
    BY DEF Unsettled, Retrying
  <1>3. /\ SubSeq(batch, row_i, Len(batch)) = <<x>> \o v /\ v \in Seq(Nat) /\ x \in Nat
        /\ row_i = Len(batch) => v = << >>
    BY <1>1, FirstLeft
  <1> HIDE DEF x, v
  <1>4. <<x>> \in Seq(Nat)
    BY <1>3
  <1>5. Pending = <<x>> \o (v \o queue)
    <2> DEFINE o == <<x>>
    <2>1. o \in Seq(Nat)
      BY <1>4
    <2>2. Unsettled = o \o v
      BY <1>2, <1>3
    <2> HIDE DEF o
    <2>3. (o \o v) \o queue = o \o (v \o queue)
      BY <1>1, <1>3, <2>1, JoinThree, Zenon
    <2>4. Pending = o \o (v \o queue)
      BY <2>2, <2>3, Zenon DEF Pending
    <2> QED
      BY <2>4 DEF o
  <1>6. v \o queue \in Seq(Nat) /\ << >> \o queue = queue
    BY <1>1, <1>3, Joined, ConcatEmptySeq
  <1> QED
    BY <1>1, <1>3, <1>5, <1>6 DEF x, v

\* A transaction that commits takes the first of the rows that wait; a row that fails
\* on its own is given up when it is the first.
LEMMA WriteEffect ==
  ASSUME SinkInv,
         \/ BatchBegin \/ BatchInsert \/ BatchCommit \/ BatchRollback
         \/ RetryBegin \/ RetryInsert \/ RetryCommit \/ RetryRollback
  PROVE  StepEffect
  <1>1. /\ UNCHANGED <<caller, joinable, accepted, events, queue, batch, dropped_ring_full,
                       dropped_oversized_id, processVars>>
        /\ joinable
    <2>1. /\ UNCHANGED <<caller, joinable, accepted, events, queue, batch, dropped_ring_full,
                         dropped_oversized_id, processVars>>
          /\ writer # "none"
      BY DEF BatchBegin, BatchInsert, BatchCommit, BatchRollback, RetryBegin, RetryInsert,
             RetryCommit, RetryRollback, writeBatchRest, ringVars, callerVars, processVars
    <2> QED
      BY <2>1 DEF SinkInv, ThreadsOK
  <1>2. ASSUME Unsettled' = Unsettled, UNCHANGED <<table, lost, rows_written, dropped_write_failed>>
        PROVE  StepEffect
    <2>1. Pending' = Pending
      BY <1>1, <1>2, Zenon DEF Pending
    <2> QED
      BY <1>1, <1>2, <2>1 DEF StepEffect, Idles, RowInHand, outcomes
  <1>3. /\ batch \in Seq(Nat) /\ queue \in Seq(Nat) /\ txn.rows \in Seq(Nat) /\ Len(batch) \in Nat
        /\ Len(batch) <= MaxBatchRows
    BY DEF SinkInv, SinkTypeOK, CallerTypeOK, WriterTypeOK
  <1>4. SubSeq(batch, 1, Len(batch)) = batch
    BY <1>3, SubSeqFull
  <1>5. CASE BatchBegin
    <2>1. /\ writer = "begin" /\ row_i' = 1 /\ UNCHANGED <<table, lost, rows_written, dropped_write_failed>>
          /\ writer' \in {"insert", "retry_begin"}
      BY <1>5, BeginFacts DEF BatchBegin, SinkInv, TxnOK
    <2>2. Unsettled' = Unsettled
      BY <1>1, <1>4, <2>1 DEF Unsettled
    <2> QED
      BY <1>2, <2>1, <2>2
  <1>6. CASE BatchInsert
    <2>1. /\ writer = "insert" /\ UNCHANGED <<lost, rows_written, dropped_write_failed>>
          /\ Insert(batch[row_i], IF row_i < Len(batch) THEN "insert" ELSE "commit", "rollback")
      BY <1>6 DEF BatchInsert
    <2>2. UNCHANGED table /\ writer' \in {"insert", "commit", "rollback"}
      BY <1>3, <2>1, InsertFacts
    <2>3. Unsettled' = Unsettled
      BY <1>1, <2>1, <2>2 DEF Unsettled
    <2> QED
      BY <1>2, <2>1, <2>2, <2>3
  <1>7. CASE BatchRollback
    <2>1. /\ writer = "rollback" /\ row_i' = 1 /\ UNCHANGED <<table, lost, rows_written, dropped_write_failed>>
          /\ writer' = "retry_begin"
      BY <1>7 DEF BatchRollback, Rollback
    <2>2. Unsettled' = Unsettled
      BY <1>1, <1>4, <2>1 DEF Unsettled
    <2> QED
      BY <1>2, <2>1, <2>2
  <1>8. CASE RetryBegin
    <2>1. /\ writer = "retry_begin" /\ UNCHANGED <<table, lost, rows_written, dropped_write_failed, row_i>>
          /\ writer' \in {"retry_insert", "retry_rollback"}
      BY <1>8, BeginFacts DEF RetryBegin, SinkInv, TxnOK
    <2>2. Unsettled' = Unsettled
      BY <1>1, <2>1 DEF Unsettled
    <2> QED
      BY <1>2, <2>1, <2>2
  <1>9. CASE RetryInsert
    <2>1. /\ writer = "retry_insert" /\ UNCHANGED <<lost, rows_written, dropped_write_failed, row_i>>
          /\ Insert(batch[row_i], "retry_commit", "retry_rollback")
      BY <1>9 DEF RetryInsert
    <2>2. UNCHANGED table /\ writer' \in {"retry_commit", "retry_rollback"}
      BY <1>3, <2>1, InsertFacts
    <2>3. Unsettled' = Unsettled
      BY <1>1, <2>1, <2>2 DEF Unsettled
    <2> QED
      BY <1>2, <2>1, <2>2, <2>3
  <1>10. CASE BatchCommit
    <2>1. /\ writer = "commit" /\ UNCHANGED <<row_i, lost, dropped_write_failed>>
          /\ Commit("read_stopping", "rollback", Len(batch))
      BY <1>10 DEF BatchCommit
    <2>2. txn.rows = batch /\ Unsettled = batch /\ Len(batch) >= 1
      BY <2>1 DEF SinkInv, TxnOK, BatchOK, Unsettled
    <2>3. CASE writer' = "rollback" /\ UNCHANGED <<table, rows_written>>
      <3>1. Unsettled' = Unsettled
        BY <1>1, <2>1, <2>3 DEF Unsettled
      <3> QED
        BY <1>2, <2>1, <2>3, <3>1
    <2>4. CASE /\ writer' = "read_stopping" /\ table' = table \o txn.rows
               /\ rows_written' = rows_written + Len(batch)
      <3>1. Unsettled' = << >> /\ << >> \o queue = queue
        BY <1>3, <2>4, ConcatEmptySeq DEF Unsettled
      <3>2. Pending' = queue /\ Pending = batch \o queue
        BY <1>1, <2>2, <3>1, Zenon DEF Pending
      <3>3. SubSeq(Pending, 1, Len(batch)) = batch
            /\ SubSeq(Pending, Len(batch) + 1, Len(Pending)) = queue
        BY <1>3, <3>2, SplitJoined
      <3>4. Len(batch) \in 1..MaxBatchRows /\ Len(batch) <= Len(Pending)
        BY <1>3, <2>2, PendingFacts, SinkAssumption
      <3>5. table' = table \o SubSeq(Pending, 1, Len(batch))
            /\ Pending' = SubSeq(Pending, Len(batch) + 1, Len(Pending))
        BY <2>2, <2>4, <3>2, <3>3, Zenon
      <3>6. Writes(Len(batch))
        BY <1>1, <2>1, <2>4, <3>4, <3>5, Zenon DEF Writes
      <3> QED
        BY <1>3, <3>6, Zenon DEF StepEffect
    <2> QED
      BY <1>3, <2>1, <2>3, <2>4, CommitFacts
  <1> DEFINE x == batch[row_i]
             w == SubSeq(batch, row_i + 1, Len(batch)) \o queue
  <1>11. ASSUME writer \in Retrying, writer' = AfterRetry, row_i' = row_i + 1
         PROVE  /\ Pending = <<x>> \o w /\ x \in Nat /\ w \in Seq(Nat) /\ Pending' = w
    <2>1. /\ x \in Nat /\ row_i \in 1..Len(batch) /\ w \in Seq(Nat) /\ Pending = <<x>> \o w
          /\ row_i = Len(batch) => w = queue
      BY <1>11, RetriedFirst
    <2>2. << >> \o queue = queue
      BY <1>3, ConcatEmptySeq
    <2>3. CASE row_i < Len(batch)
      <3>1. Unsettled' = SubSeq(batch, row_i + 1, Len(batch))
        BY <1>1, <1>11, <2>3 DEF Unsettled, AfterRetry
      <3> QED
        BY <1>1, <2>1, <3>1, Zenon DEF Pending
    <2>4. CASE ~(row_i < Len(batch))
      <3>1. Unsettled' = << >> /\ row_i = Len(batch)
        BY <1>3, <1>11, <2>1, <2>4 DEF Unsettled, AfterRetry
      <3>2. Pending' = queue
        BY <1>1, <2>2, <3>1, Zenon DEF Pending
      <3> QED
        BY <2>1, <3>1, <3>2
    <2> QED
      BY <2>3, <2>4
  <1> HIDE DEF x, w
  <1>12. CASE RetryCommit
    <2>1. /\ writer = "retry_commit" /\ UNCHANGED <<lost, dropped_write_failed>>
          /\ row_i' = IF writer' = "retry_rollback" THEN row_i ELSE row_i + 1
          /\ Commit(AfterRetry, "retry_rollback", 1)
      BY <1>12 DEF RetryCommit
    <2>2. txn.rows = <<x>>
      BY <2>1 DEF SinkInv, TxnOK, x
    <2>3. CASE writer' = "retry_rollback" /\ UNCHANGED <<table, rows_written>>
      <3>1. Unsettled' = Unsettled
        BY <1>1, <2>1, <2>3 DEF Unsettled
      <3> QED
        BY <1>2, <2>1, <2>3, <3>1
    <2>4. CASE writer' = AfterRetry /\ table' = table \o txn.rows /\ rows_written' = rows_written + 1
      <3>1. row_i' = row_i + 1 /\ writer \in Retrying
        BY <2>1, <2>4 DEF AfterRetry, Retrying
      <3>2. Pending = <<x>> \o w /\ x \in Nat /\ w \in Seq(Nat) /\ Pending' = w
        BY <1>11, <2>4, <3>1
      <3>3. /\ Len(Pending) = Len(w) + 1
            /\ SubSeq(Pending, 1, 1) = <<x>> /\ SubSeq(Pending, 2, Len(Pending)) = w
        BY <3>2, FirstJoined
      <3>4. 1 \in 1..MaxBatchRows /\ 1 <= Len(Pending) /\ 1 + 1 = 2
        BY <3>2, <3>3, SinkAssumption
      <3>5. /\ table' = table \o SubSeq(Pending, 1, 1)
            /\ Pending' = SubSeq(Pending, 1 + 1, Len(Pending))
        BY <2>2, <2>4, <3>2, <3>3, <3>4, Zenon
      <3>6. Writes(1)
        BY <1>1, <2>1, <2>4, <3>4, <3>5, Zenon DEF Writes
      <3>7. 1 \in Nat
        OBVIOUS
      <3> QED
        BY <3>6, <3>7, Zenon DEF StepEffect
    <2> QED
      BY <1>3, <2>1, <2>3, <2>4, CommitFacts
  <1>13. CASE RetryRollback
    <2>1. /\ writer \in Retrying /\ row_i' = row_i + 1 /\ writer' = AfterRetry
          /\ dropped_write_failed' = dropped_write_failed + 1 /\ lost' = lost \cup {x}
          /\ UNCHANGED <<table, rows_written>>
      BY <1>13 DEF RetryRollback, Rollback, Retrying, x
    <2>2. Pending = <<x>> \o w /\ x \in Nat /\ w \in Seq(Nat) /\ Pending' = w
      BY <1>11, <2>1
    <2>3. Pending # << >> /\ Head(Pending) = x /\ Tail(Pending) = w
      BY <2>2, FirstJoined
    <2>4. GivesUp
      BY <1>1, <2>1, <2>2, <2>3, Zenon DEF GivesUp
    <2> QED
      BY <2>4 DEF StepEffect
  <1> QED
    BY <1>5, <1>6, <1>7, <1>8, <1>9, <1>10, <1>12, <1>13

\* What a step of the sink does to the rows.
LEMMA StepEffects == SinkInv /\ [Next]_vars => StepEffect
  <1> SUFFICES ASSUME SinkInv, [Next]_vars PROVE StepEffect
    OBVIOUS
  <1>1. CASE \/ \E id \in CorrelationIds, refused \in BOOLEAN : Record(id, refused)
             \/ RecordOversized \/ RecordReloadTail \/ RecordPush
    BY <1>1, RecordEffect
  <1>2. CASE Open \/ Close \/ CloseJoined \/ Crash \/ UNCHANGED vars
    BY <1>2, OpenCloseEffect
  <1>3. CASE ReadStopping \/ DrainPop \/ DrainReloadHead \/ DrainBatchFull
    BY <1>3, DrainEffect
  <1>4. CASE \/ BatchBegin \/ BatchInsert \/ BatchCommit \/ BatchRollback
             \/ RetryBegin \/ RetryInsert \/ RetryCommit \/ RetryRollback
    BY <1>4, WriteEffect
  <1> QED
    BY <1>1, <1>2, <1>3, <1>4, Zenon DEF Next, Caller, Writer

-----------------------------------------------------------------------------
(* The sink implements the log.                                            *)

\* The threads keep their invariant.
LEMMA SinkInvAlways == Spec => []SinkInv
  BY SinkInvInit, SinkInvNext, PTL DEF Spec

\* What a step does to the rows is a step of the log, or none.
LEMMA LogStep ==
  ASSUME SinkInv, SinkInv', StepEffect
  PROVE  [Log!Next]_(Log!logVars)
  <1>1. Unsettled \o queue = Pending /\ (Unsettled \o queue)' = Pending'
    BY DEF Pending
  <1>2. /\ dropped_ring_full \in Nat /\ dropped_oversized_id \in Nat /\ joinable \in BOOLEAN
        /\ Len(events) \in Nat /\ Len(events) <= MaxRecords
        /\ RowInHand => Len(events) >= 1
    <2>1. CallerTypeOK /\ FlagsOK /\ OutcomeTypeOK
      BY DEF SinkInv, SinkTypeOK
    <2>2. dropped_ring_full \in Nat
      BY <2>1 DEF OutcomeTypeOK
    <2>3. joinable \in BOOLEAN
      BY <2>1, Zenon DEF FlagsOK
    <2>4. dropped_oversized_id \in Nat /\ Len(events) \in Nat
      BY <2>1 DEF CallerTypeOK
    <2>5. Len(events) + dropped_oversized_id <= MaxRecords /\ (RowInHand => Len(events) >= 1)
      BY <2>1 DEF CallerTypeOK, RowInHand
    <2>6. Len(events) <= MaxRecords
      BY <2>4, <2>5, SinkAssumption
    <2> QED
      BY <2>2, <2>3, <2>4, <2>5, <2>6
  <1>3. CASE Records
    <2>1. UNCHANGED <<Pending, table, lost, dropped_ring_full, dropped_oversized_id, joinable>>
      BY <1>3 DEF Records, outcomes
    <2> QED
      BY <1>1, <2>1 DEF Log!logVars
  <1>4. CASE Pushes
    <2>1. /\ Len(Pending) < Capacity + MaxBatchRows /\ Pending' = Append(Pending, Len(events))
          /\ UNCHANGED <<table, lost, dropped_ring_full, dropped_oversized_id, joinable>>
          /\ RowInHand
      BY <1>4 DEF Pushes, outcomes
    <2>2. Log!Accept(Len(events))
      BY <1>1, <2>1 DEF Log!Accept
    <2>3. Len(events) \in 1..MaxRecords
      BY <1>2, <2>1, SinkAssumption
    <2>4. \E r \in 1..MaxRecords : Log!Accept(r)
      BY <2>2, <2>3, Zenon
    <2> QED
      BY <2>4, Zenon DEF Log!Next
  <1>5. CASE DropsRow \/ DropsId
    <2>1. /\ dropped_ring_full' + dropped_oversized_id' = dropped_ring_full + dropped_oversized_id + 1
          /\ UNCHANGED <<Pending, table, lost, joinable>>
      BY <1>2, <1>5 DEF DropsRow, DropsId
    <2>2. Log!Drop
      BY <1>1, <2>1 DEF Log!Drop
    <2> QED
      BY <2>2 DEF Log!Next
  <1>6. ASSUME NEW n \in Nat, Writes(n) PROVE Log!Write
    <2>1. /\ joinable /\ n \in 1..MaxBatchRows /\ n <= Len(Pending)
          /\ table' = table \o SubSeq(Pending, 1, n)
          /\ Pending' = SubSeq(Pending, n + 1, Len(Pending))
          /\ UNCHANGED <<lost, dropped_ring_full, dropped_oversized_id, joinable>>
      BY <1>6 DEF Writes
    <2> QED
      BY <1>1, <2>1 DEF Log!Write
  <1>7. CASE \E n \in Nat : Writes(n)
    BY <1>6, <1>7 DEF Log!Next, Log!Settle
  <1>8. CASE GivesUp
    <2>1. Log!GiveUp
      BY <1>1, <1>8 DEF GivesUp, Log!GiveUp
    <2> QED
      BY <2>1 DEF Log!Next, Log!Settle
  <1>9. CASE Idles
    <2>1. UNCHANGED <<Pending, table, lost, dropped_ring_full, dropped_oversized_id>>
      BY <1>9 DEF Idles, outcomes
    <2>2. CASE UNCHANGED joinable
      BY <1>1, <2>1, <2>2 DEF Log!logVars
    <2>3. CASE ~joinable /\ joinable' = TRUE
      <3>1. Log!Open
        BY <1>1, <2>1, <2>3 DEF Log!Open
      <3> QED
        BY <3>1 DEF Log!Next
    <2>4. CASE joinable /\ joinable' = FALSE /\ Pending = << >>
      <3>1. Log!CloseReturns
        BY <1>1, <2>1, <2>4 DEF Log!CloseReturns
      <3> QED
        BY <3>1 DEF Log!Next
    <2> QED
      BY <1>9, <2>2, <2>3, <2>4 DEF Idles
  <1>10. CASE Crashes
    <2>1. /\ Pending' = << >> /\ dropped_ring_full' = 0 /\ dropped_oversized_id' = 0
          /\ joinable' = FALSE /\ UNCHANGED <<table, lost>>
      BY <1>10 DEF Crashes, Crash
    <2>2. Log!Crash
      BY <1>1, <2>1 DEF Log!Crash
    <2> QED
      BY <2>2 DEF Log!Next
  <1> QED
    BY <1>3, <1>4, <1>5, <1>7, <1>8, <1>9, <1>10 DEF StepEffect

\* The log is what the sink promises (TelemetrySink in src/telemetry.cpp): record()
\* takes or drops a row at once, the rows taken are settled in that order, a whole
\* transaction at a time, close() returns when none waits, and a crash costs those
\* that wait and no other.
THEOREM ImplementsTheLog == Spec => ImplementsLog
  <1>1. Init => Log!Init
    <2> SUFFICES ASSUME Init PROVE Log!Init
      OBVIOUS
    <2>1. /\ queue = << >> /\ Unsettled = << >> /\ table = << >> /\ lost = {}
          /\ dropped_ring_full = 0 /\ dropped_oversized_id = 0 /\ joinable = FALSE
      BY DEF Init, Ring!Init, Unsettled
    <2>2. Unsettled \o queue = << >>
      BY <2>1
    <2> QED
      BY <2>1, <2>2 DEF Log!Init
  <1>2. SinkInv /\ SinkInv' /\ [Next]_vars => [Log!Next]_(Log!logVars)
    BY StepEffects, LogStep
  <1> QED
    BY <1>1, <1>2, SinkInvAlways, PTL DEF Spec, ImplementsLog, Log!Spec

-----------------------------------------------------------------------------
(* The rows are in order, each is in one place, and the counters count     *)
(* them.                                                                   *)

\* The rows of which record() has said whether it took them are 1..Answered.
Answered == IF RowInHand THEN Len(events) - 1 ELSE Len(events)

\* What a step does to the places a row can be in.
Stays ==
    /\ UNCHANGED <<table, lost, Pending, accepted, base, rows_written, dropped_write_failed>>
    /\ \/ Answered' = Answered /\ dropped_ring_full' = dropped_ring_full
       \/ Answered' = Answered + 1 /\ dropped_ring_full' = dropped_ring_full + 1

Arrives ==
    /\ Answered' = Answered + 1
    /\ Pending' = Append(Pending, Answered + 1) /\ accepted' = Append(accepted, Answered + 1)
    /\ UNCHANGED <<table, lost, base, rows_written, dropped_ring_full, dropped_write_failed>>

IsWritten(u, q) ==
    /\ Pending = u \o q /\ table' = table \o u /\ Pending' = q
    /\ rows_written' = rows_written + Len(u)
    /\ UNCHANGED <<Answered, lost, accepted, base, dropped_ring_full, dropped_write_failed>>

IsLost(x, q) ==
    /\ Pending = <<x>> \o q /\ lost' = lost \cup {x} /\ Pending' = q
    /\ dropped_write_failed' = dropped_write_failed + 1
    /\ UNCHANGED <<Answered, table, accepted, base, dropped_ring_full, rows_written>>

StartsAnew ==
    /\ Answered' >= Answered /\ base' = Answered' /\ Pending' = << >>
    /\ rows_written' = 0 /\ dropped_ring_full' = 0 /\ dropped_write_failed' = 0
    /\ UNCHANGED <<table, lost, accepted>>

RowStep ==
    \/ Stays \/ Arrives \/ StartsAnew
    \/ \E u, q \in Seq(Nat) : IsWritten(u, q)
    \/ \E x \in Nat, q \in Seq(Nat) : IsLost(x, q)

\* Every step of the sink is one of these.
LEMMA RowSteps ==
  ASSUME SinkInv, StepEffect
  PROVE  RowStep
  <1>1. /\ Len(events) \in Nat /\ (RowInHand => Len(events) >= 1) /\ Answered \in Nat
        /\ events \in Seq([id : CorrelationIds, refused : BOOLEAN])
        /\ Pending \in Seq(Nat) /\ Len(Pending) \in Nat
    BY PendingFacts DEF SinkInv, SinkTypeOK, CallerTypeOK, RowInHand, Answered
  <1>2. CASE Records
    <2>1. Len(events') = Len(events) + 1
      BY <1>1, <1>2 DEF Records
    <2>2. Answered' = Answered
      BY <1>1, <1>2, <2>1 DEF Records, Answered
    <2> QED
      BY <1>2, <2>2 DEF Records, outcomes, processVars, RowStep, Stays
  <1>3. CASE Pushes
    <2>1. Answered' = Answered + 1 /\ Len(events) = Answered + 1
      BY <1>1, <1>3 DEF Pushes, Answered
    <2>2. Arrives
      BY <1>3, <2>1, Zenon DEF Pushes, outcomes, processVars, Arrives
    <2> QED
      BY <2>2 DEF RowStep
  <1>4. CASE DropsRow
    <2>1. Answered' = Answered + 1
      BY <1>1, <1>4 DEF DropsRow, Answered
    <2> QED
      BY <1>4, <2>1 DEF DropsRow, processVars, RowStep, Stays
  <1>5. CASE DropsId \/ Idles
    <2>1. Answered' = Answered
      BY <1>1, <1>5 DEF DropsId, Idles, Answered
    <2> QED
      BY <1>5, <2>1 DEF DropsId, Idles, processVars, outcomes, RowStep, Stays
  <1>6. ASSUME NEW n \in Nat, Writes(n) PROVE RowStep
    <2> DEFINE u == SubSeq(Pending, 1, n)
               q == SubSeq(Pending, n + 1, Len(Pending))
    <2>1. n \in 0..Len(Pending)
      BY <1>1, <1>6 DEF Writes
    <2>2. u \in Seq(Nat) /\ q \in Seq(Nat) /\ Len(u) = n /\ Pending = u \o q
      BY <1>1, <2>1, CutAt
    <2>3. table' = table \o u /\ Pending' = q
      BY <1>6, Zenon DEF Writes
    <2> HIDE DEF u, q
    <2>4. Answered' = Answered
      BY <1>6 DEF Writes, Answered, RowInHand
    <2>5. IsWritten(u, q)
      BY <1>6, <2>2, <2>3, <2>4, Zenon DEF Writes, IsWritten, processVars
    <2> QED
      BY <2>2, <2>5, Zenon DEF RowStep
  <1>7. CASE GivesUp
    <2> DEFINE x == Head(Pending)
               q == Tail(Pending)
    <2>1. x \in Nat /\ q \in Seq(Nat) /\ Pending = <<x>> \o q
      BY <1>1, <1>7, CutFirst DEF GivesUp
    <2>2. lost' = lost \cup {x} /\ Pending' = q
      BY <1>7, Zenon DEF GivesUp
    <2> HIDE DEF x, q
    <2>3. Answered' = Answered
      BY <1>7 DEF GivesUp, Answered, RowInHand
    <2>4. IsLost(x, q)
      BY <1>7, <2>1, <2>2, <2>3, Zenon DEF GivesUp, IsLost, processVars
    <2> QED
      BY <2>1, <2>4, Zenon DEF RowStep
  <1>8. CASE Crashes
    <2>1. events' = events /\ caller' = "idle" /\ base' = Len(events)
      BY <1>8 DEF Crashes, Crash
    <2>2. Answered' >= Answered /\ base' = Answered'
      BY <1>1, <2>1 DEF Answered, RowInHand
    <2>3. StartsAnew
      BY <1>8, <2>2 DEF Crashes, Crash, StartsAnew
    <2> QED
      BY <2>3 DEF RowStep
  <1> QED
    BY <1>2, <1>3, <1>4, <1>5, <1>6, <1>7, <1>8 DEF StepEffect

\* The numbers of a sequence increase.
Increasing(s) == \A i, j \in 1..Len(s) : i < j => s[i] < s[j]

\* Two sequences joined increase when each does, and all of the first is below all of
\* the second.
LEMMA IncreasingJoined ==
  ASSUME NEW a \in Seq(Nat), NEW b \in Seq(Nat)
  PROVE  Increasing(a \o b) <=>
            /\ Increasing(a) /\ Increasing(b)
            /\ \A x \in Range(a), y \in Range(b) : x < y
  <1> DEFINE Less == {p \in Nat \X Nat : p[1] < p[2]}
  <1>1. ASSUME NEW x \in Nat, NEW y \in Nat PROVE <<x, y>> \in Less <=> x < y
    OBVIOUS
  <1> HIDE DEF Less
  <1>2. ASSUME NEW s \in Seq(Nat) PROVE SortedBy(Less, s) <=> Increasing(s)
    <2>1. ASSUME NEW i \in 1..Len(s) PROVE s[i] \in Nat
      OBVIOUS
    <2>2. \A i, j \in 1..Len(s) : <<s[i], s[j]>> \in Less <=> s[i] < s[j]
      BY <1>1, <2>1
    <2> QED
      BY <2>2 DEF SortedBy, Increasing
  <1>3. a \o b \in Seq(Nat) /\ Range(a) \subseteq Nat /\ Range(b) \subseteq Nat
    BY Joined, RangeOfSeq
  <1>4. SortedBy(Less, a \o b) <=>
            /\ SortedBy(Less, a) /\ SortedBy(Less, b)
            /\ \A x \in Range(a), y \in Range(b) : <<x, y>> \in Less
    BY SortedJoined
  <1>5. (\A x \in Range(a), y \in Range(b) : <<x, y>> \in Less) <=>
           \A x \in Range(a), y \in Range(b) : x < y
    BY <1>1, <1>3
  <1> QED
    BY <1>2, <1>3, <1>4, <1>5, Zenon

\* The table increases and so do the rows that wait, which are later than every row
\* that is settled and of this process; no row is both written and lost.
Ordered(t, p, l, b, top) ==
    /\ Increasing(t) /\ Increasing(p) /\ Range(t) \cap l = {}
    /\ \A r \in Range(t) \cup l : r >= 1 /\ r <= top
    /\ \A x \in Range(p) : /\ b < x /\ x <= top
                           /\ \A r \in Range(t) \cup l : r < x
    /\ b <= top

\* A row of this process that was accepted is written, lost or waiting.
OwnOf(S, b) == {r \in S : r > b}
Kept(a, t, p, l, b, top) ==
    /\ \A r \in Range(a) : r <= top
    /\ OwnOf(Range(a), b) = OwnOf((Range(t) \cup l) \cup Range(p), b)

\* A row that is dropped keeps the others' order.
LEMMA OrderedStays ==
  ASSUME NEW t, NEW p, NEW l, NEW b \in Nat, NEW top \in Nat,
         Range(t) \subseteq Nat, Range(p) \subseteq Nat, l \subseteq Nat,
         Ordered(t, p, l, b, top)
  PROVE  Ordered(t, p, l, b, top + 1)
  <1>1. \A r \in Nat : r <= top => r <= top + 1
    OBVIOUS
  <1>2. b <= top + 1
    BY DEF Ordered
  <1>3. \A r \in (Range(t) \cup l) \cup Range(p) : r \in Nat
    OBVIOUS
  <1> QED
    BY <1>1, <1>2, <1>3, Zenon DEF Ordered

\* A row that arrives is later than all.
LEMMA OrderedArrives ==
  ASSUME NEW t \in Seq(Nat), NEW p \in Seq(Nat), NEW l \in SUBSET Nat,
         NEW b \in Nat, NEW top \in Nat, Ordered(t, p, l, b, top)
  PROVE  Ordered(t, Append(p, top + 1), l, b, top + 1)
  <1>1. /\ Range(t) \subseteq Nat /\ Range(p) \subseteq Nat
        /\ Range(Append(p, top + 1)) = Range(p) \cup {top + 1}
        /\ <<top + 1>> \in Seq(Nat) /\ Range(<<top + 1>>) = {top + 1} /\ top + 1 \in Nat
    BY Ranges
  <1>2. Append(p, top + 1) = p \o <<top + 1>>
    BY <1>1, AppendJoins
  <1>3. Increasing(<<top + 1>>)
    BY DEF Increasing
  <1>4. \A x \in Range(p), y \in {top + 1} : x < y
    BY <1>1 DEF Ordered
  <1>5. Increasing(p)
    BY DEF Ordered
  <1>6. Increasing(Append(p, top + 1))
    <2> DEFINE o == <<top + 1>>
    <2>1. o \in Seq(Nat) /\ Increasing(o) /\ \A x \in Range(p), y \in Range(o) : x < y
      BY <1>1, <1>3, <1>4
    <2>2. Append(p, top + 1) = p \o o
      BY <1>2
    <2> HIDE DEF o
    <2>3. Increasing(p \o o)
      BY <1>5, <2>1, IncreasingJoined
    <2> QED
      BY <2>2, <2>3
  <1>7. Ordered(t, p, l, b, top + 1)
    BY <1>1, OrderedStays
  <1>8. /\ b < top + 1 /\ top + 1 <= top + 1
        /\ \A r \in Range(t) \cup l : r < top + 1
    <2>1. b <= top /\ \A r \in Range(t) \cup l : r <= top
      BY DEF Ordered
    <2>2. \A r \in Range(t) \cup l : r \in Nat
      BY <1>1
    <2> QED
      BY <2>1, <2>2
  <1> QED
    BY <1>1, <1>6, <1>7, <1>8, Zenon DEF Ordered

\* A transaction writes the rows that waited longest.
LEMMA OrderedWritten ==
  ASSUME NEW t \in Seq(Nat), NEW u \in Seq(Nat), NEW q \in Seq(Nat), NEW l \in SUBSET Nat,
         NEW b \in Nat, NEW top \in Nat, Ordered(t, u \o q, l, b, top)
  PROVE  Ordered(t \o u, q, l, b, top)
  <1>1. /\ Range(u \o q) = Range(u) \cup Range(q) /\ Range(t \o u) = Range(t) \cup Range(u)
        /\ Range(t) \subseteq Nat /\ Range(u) \subseteq Nat /\ Range(q) \subseteq Nat
    BY Ranges
  <1>2. Increasing(u) /\ Increasing(q) /\ \A x \in Range(u), y \in Range(q) : x < y
    BY IncreasingJoined DEF Ordered
  <1>3. \A x \in Range(t), y \in Range(u) : x < y
    BY <1>1, Zenon DEF Ordered
  <1>4. Increasing(t \o u)
    BY <1>2, <1>3, IncreasingJoined DEF Ordered
  <1>5. (Range(t) \cup Range(u)) \cap l = {}
    <2>1. ASSUME NEW x \in Range(u), x \in l PROVE FALSE
      <3>1. x < x /\ x \in Nat
        BY <1>1, <2>1 DEF Ordered
      <3> QED
        BY <3>1
    <2> QED
      BY <2>1, Zenon DEF Ordered
  <1>6. ASSUME NEW x \in Range(u) PROVE x >= 1 /\ x <= top
    <2>1. b < x /\ x <= top /\ x \in Nat
      BY <1>1 DEF Ordered
    <2> QED
      BY <2>1
  <1>7. /\ \A r \in (Range(t) \cup Range(u)) \cup l : r >= 1 /\ r <= top
        /\ \A x \in Range(q) : /\ b < x /\ x <= top
                               /\ \A r \in (Range(t) \cup Range(u)) \cup l : r < x
        /\ b <= top
    BY <1>1, <1>2, <1>6, Zenon DEF Ordered
  <1> QED
    BY <1>1, <1>2, <1>4, <1>5, <1>7, Zenon DEF Ordered

\* The row that waited longest is given up.
LEMMA OrderedLost ==
  ASSUME NEW t \in Seq(Nat), NEW x \in Nat, NEW q \in Seq(Nat), NEW l \in SUBSET Nat,
         NEW b \in Nat, NEW top \in Nat, Ordered(t, <<x>> \o q, l, b, top)
  PROVE  Ordered(t, q, l \cup {x}, b, top)
  <1> DEFINE u == <<x>>
  <1>1. Ordered(t, u \o q, l, b, top) /\ u \in Seq(Nat)
    OBVIOUS
  <1>2. Range(u) = {x}
    BY Ranges
  <1> HIDE DEF u
  <1>3. /\ Range(u \o q) = Range(u) \cup Range(q) /\ Range(u) = {x}
        /\ Range(t) \subseteq Nat /\ Range(q) \subseteq Nat
    BY <1>1, <1>2, Ranges
  <1>4. Increasing(q) /\ \A y \in Range(q) : x < y
    BY <1>3, <1>1, IncreasingJoined DEF Ordered
  <1>5. x \notin Range(t)
    <2>1. ASSUME x \in Range(t) PROVE FALSE
      <3>1. x < x
        BY <1>3, <1>1, <2>1 DEF Ordered
      <3> QED
        BY <3>1
    <2> QED
      BY <2>1
  <1>6. x >= 1 /\ x <= top
    <2>1. b < x /\ x <= top
      BY <1>3, <1>1 DEF Ordered
    <2> QED
      BY <2>1
  <1> QED
    BY <1>3, <1>1, <1>4, <1>5, <1>6, Zenon DEF Ordered

\* A crash or a new open() leaves no row waiting.
LEMMA OrderedAnew ==
  ASSUME NEW t \in Seq(Nat), NEW p \in Seq(Nat), NEW l \in SUBSET Nat,
         NEW b \in Nat, NEW top \in Nat, NEW later \in Nat, top <= later,
         Ordered(t, p, l, b, top)
  PROVE  Ordered(t, << >>, l, later, later)
  <1>1. Range(t) \subseteq Nat /\ Range(<< >>) = {}
    BY Ranges
  <1>2. ASSUME NEW r \in Range(t) \cup l PROVE r >= 1 /\ r <= later
    <2>1. r >= 1 /\ r <= top /\ r \in Nat
      BY <1>1 DEF Ordered
    <2> QED
      BY <2>1
  <1>3. Increasing(<< >>)
    BY DEF Increasing
  <1> QED
    BY <1>1, <1>2, <1>3 DEF Ordered

\* The counters count the rows of this process: answered, written, dropped, lost, and
\* waiting.
Counted(t, p, l, b, top, written, full, failed) ==
    /\ top - b = ((written + full) + failed) + Len(p)
    /\ written = Cardinality(OwnOf(Range(t), b)) /\ failed = Cardinality(OwnOf(l, b))

\* The inductive invariant of the rows.
RowsInv ==
    /\ base \in Nat
    /\ Ordered(table, Pending, lost, base, Answered)
    /\ Kept(accepted, table, Pending, lost, base, Answered)
    /\ Counted(table, Pending, lost, base, Answered,
               rows_written, dropped_ring_full, dropped_write_failed)

\* A row that arrives is accepted, and waits.
LEMMA KeptArrives ==
  ASSUME NEW a \in Seq(Nat), NEW t \in Seq(Nat), NEW p \in Seq(Nat), NEW l \in SUBSET Nat,
         NEW b \in Nat, NEW top \in Nat, Kept(a, t, p, l, b, top)
  PROVE  Kept(Append(a, top + 1), t, Append(p, top + 1), l, b, top + 1)
  <1>1. /\ Range(Append(a, top + 1)) = Range(a) \cup {top + 1}
        /\ Range(Append(p, top + 1)) = Range(p) \cup {top + 1}
        /\ Range(a) \subseteq Nat
    <2>1. top + 1 \in Nat
      OBVIOUS
    <2> QED
      BY <2>1, Ranges, Zenon
  <1>2. ASSUME NEW r \in Range(a) \cup {top + 1} PROVE r <= top + 1
    BY <1>1 DEF Kept
  <1>3. OwnOf(Range(a) \cup {top + 1}, b) =
           OwnOf((Range(t) \cup l) \cup (Range(p) \cup {top + 1}), b)
    <2>1. OwnOf(Range(a), b) = OwnOf((Range(t) \cup l) \cup Range(p), b)
      BY DEF Kept
    <2>2. OwnOf(Range(a) \cup {top + 1}, b) = OwnOf(Range(a), b) \cup OwnOf({top + 1}, b)
      BY Zenon DEF OwnOf
    <2>3. OwnOf((Range(t) \cup l) \cup (Range(p) \cup {top + 1}), b) =
             OwnOf((Range(t) \cup l) \cup Range(p), b) \cup OwnOf({top + 1}, b)
      BY Zenon DEF OwnOf
    <2> QED
      BY <2>1, <2>2, <2>3, Zenon
  <1> QED
    BY <1>1, <1>2, <1>3 DEF Kept

\* Of this process no row is left after a crash.
LEMMA NoneIsOwn ==
  ASSUME NEW S \in SUBSET Nat, NEW b \in Nat, NEW top \in Nat, top <= b, \A r \in S : r <= top
  PROVE  OwnOf(S, b) = {}
  <1>1. ASSUME NEW r \in OwnOf(S, b) PROVE FALSE
    <2>1. r \in Nat /\ r > b /\ r <= top
      BY DEF OwnOf
    <2> QED
      BY <2>1
  <1> QED
    BY <1>1, Zenon

\* The rows of this process: of a set of rows at most top there are finitely many, and
\* an increasing sequence has as many as it is long.
LEMMA OwnCount ==
  ASSUME NEW t \in Seq(Nat), NEW u \in Seq(Nat), NEW b \in Nat, NEW top \in Nat,
         Increasing(u), \A r \in Range(t) : r <= top,
         \A x \in Range(u) : /\ b < x /\ x <= top
                             /\ \A r \in Range(t) : r < x
  PROVE  Cardinality(OwnOf(Range(t) \cup Range(u), b)) = Cardinality(OwnOf(Range(t), b)) + Len(u)
  <1>1. Range(t) \subseteq Nat /\ Range(u) \subseteq Nat /\ Len(u) \in Nat /\ u \in [1..Len(u) -> Nat]
        /\ Range(u) = {u[i] : i \in 1..Len(u)}
    BY Ranges, LenProperties
  <1> DEFINE S == OwnOf(Range(t), b)
             T == Range(u)
  <1>2. OwnOf(Range(t) \cup T, b) = S \cup T
    <2>1. \A x \in T : x > b
      BY <1>1
    <2> QED
      BY <2>1, Zenon DEF OwnOf
  <1>3. IsFiniteSet(S)
    <2>1. S \in SUBSET Nat /\ \A r \in S : r <= top
      BY <1>1 DEF OwnOf
    <2> QED
      BY <2>1, FS_BoundedSetOfNaturals
  <1>4. IsFiniteSet(T) /\ Cardinality(T) = Len(u)
    <2>1. u \in [1..Len(u) -> T]
      BY <1>1
    <2>2. \A i, j \in 1..Len(u) : u[i] = u[j] => i = j
      <3> SUFFICES ASSUME NEW i \in 1..Len(u), NEW j \in 1..Len(u), u[i] = u[j], i # j PROVE FALSE
        OBVIOUS
      <3>1. u[i] \in Nat /\ u[j] \in Nat /\ (i < j \/ j < i)
        BY <1>1
      <3>2. u[i] < u[j] \/ u[j] < u[i]
        BY <3>1 DEF Increasing
      <3> QED
        BY <3>1, <3>2
    <2>3. \A x \in T : \E i \in 1..Len(u) : u[i] = x
      BY <1>1
    <2>4. u \in Bijection(1..Len(u), T)
      <3>1. u \in Injection(1..Len(u), T)
        <4>1. DOMAIN u = 1..Len(u)
          BY <1>1
        <4> QED
          BY <2>1, <2>2, <4>1, Zenon DEF Injection, IsInjective
      <3>2. u \in Surjection(1..Len(u), T)
        BY <2>1, <2>3, Zenon DEF Surjection
      <3> QED
        BY <3>1, <3>2, Zenon DEF Bijection
    <2>5. ExistsBijection(1..Len(u), T)
      BY <2>4, Zenon DEF ExistsBijection
    <2>6. IsFiniteSet(1..Len(u)) /\ Cardinality(1..Len(u)) = Len(u)
      <3>1. 1 \in Int /\ Len(u) \in Int
        BY <1>1
      <3>2. /\ IsFiniteSet(1..Len(u))
            /\ Cardinality(1..Len(u)) = IF 1 > Len(u) THEN 0 ELSE Len(u) - 1 + 1
        BY <3>1, FS_Interval, Zenon
      <3> QED
        BY <1>1, <3>2
    <2> QED
      BY <2>5, <2>6, FS_Bijection, Zenon
  <1>5. S \cap T = {}
    <2>1. ASSUME NEW x \in S, x \in T PROVE FALSE
      <3>1. x < x /\ x \in Nat
        BY <1>1, <2>1 DEF OwnOf
      <3> QED
        BY <3>1
    <2> QED
      BY <2>1, Zenon
  <1> HIDE DEF S, T
  <1>6. Cardinality(S \cup T) = Cardinality(S) + Cardinality(T) - Cardinality(S \cap T)
    BY <1>3, <1>4, FS_Union, Zenon
  <1>7. Cardinality(S \cap T) = 0 /\ Cardinality(S) \in Nat
    BY <1>3, <1>5, FS_EmptySet, FS_CardinalityType, Zenon
  <1>8. Cardinality(S \cup T) = Cardinality(S) + Len(u)
    BY <1>1, <1>4, <1>6, <1>7
  <1> QED
    BY <1>2, <1>8 DEF S, T

\* rows_written counts the rows of a transaction.
LEMMA CountedWritten ==
  ASSUME NEW t \in Seq(Nat), NEW u \in Seq(Nat), NEW q \in Seq(Nat), NEW l \in SUBSET Nat,
         NEW b \in Nat, NEW top \in Nat, NEW written \in Nat, NEW full \in Nat,
         NEW failed \in Nat, Ordered(t, u \o q, l, b, top),
         Counted(t, u \o q, l, b, top, written, full, failed)
  PROVE  Counted(t \o u, q, l, b, top, written + Len(u), full, failed)
  <1>1. /\ Range(u \o q) = Range(u) \cup Range(q) /\ Range(t \o u) = Range(t) \cup Range(u)
        /\ Len(u \o q) = Len(u) + Len(q) /\ Len(u) \in Nat /\ Len(q) \in Nat
    BY Ranges, Joined
  <1>2. Increasing(u)
    BY IncreasingJoined DEF Ordered
  <1>3. /\ \A r \in Range(t) : r <= top
        /\ \A x \in Range(u) : /\ b < x /\ x <= top
                               /\ \A r \in Range(t) : r < x
    BY <1>1, Zenon DEF Ordered
  <1>4. Cardinality(OwnOf(Range(t) \cup Range(u), b)) = Cardinality(OwnOf(Range(t), b)) + Len(u)
    BY <1>2, <1>3, OwnCount
  <1>5. written + Len(u) = Cardinality(OwnOf(Range(t \o u), b))
    BY <1>1, <1>4 DEF Counted
  <1>6. top - b = (((written + Len(u)) + full) + failed) + Len(q)
    BY <1>1, SMTT(30) DEF Counted
  <1> QED
    BY <1>5, <1>6 DEF Counted

\* dropped_write_failed counts a row given up.
LEMMA CountedLost ==
  ASSUME NEW t \in Seq(Nat), NEW x \in Nat, NEW q \in Seq(Nat), NEW l \in SUBSET Nat,
         NEW b \in Nat, NEW top \in Nat, NEW written \in Nat, NEW full \in Nat,
         NEW failed \in Nat, Ordered(t, <<x>> \o q, l, b, top),
         Counted(t, <<x>> \o q, l, b, top, written, full, failed)
  PROVE  Counted(t, q, l \cup {x}, b, top, written, full, failed + 1)
  <1> DEFINE u == <<x>>
             S == OwnOf(l, b)
  <1>1. u \in Seq(Nat) /\ Len(u) = 1
    OBVIOUS
  <1>2. Range(u) = {x}
    BY Ranges
  <1>3. /\ Ordered(t, u \o q, l, b, top)
        /\ Counted(t, u \o q, l, b, top, written, full, failed)
    OBVIOUS
  <1> HIDE DEF u
  <1>4. /\ Range(u \o q) = Range(u) \cup Range(q)
        /\ Len(u \o q) = 1 + Len(q) /\ Len(q) \in Nat
    <2>1. Range(u \o q) = Range(u) \cup Range(q)
      BY <1>1, Ranges, Zenon
    <2>2. Len(u \o q) = Len(u) + Len(q) /\ Len(q) \in Nat
      BY <1>1, Joined, Zenon
    <2> QED
      BY <1>1, <2>1, <2>2
  <1>5. b < x /\ \A r \in l : r < x
    BY <1>2, <1>3, <1>4 DEF Ordered
  <1>6. OwnOf(l \cup {x}, b) = S \cup {x}
    <2>1. x > b
      BY <1>5
    <2> QED
      BY <2>1, Zenon DEF OwnOf
  <1>7. x \notin S
    BY <1>5 DEF OwnOf
  <1>8. IsFiniteSet(S)
    <2>1. S \in SUBSET Nat /\ \A r \in S : r <= top
      BY <1>3 DEF Ordered, OwnOf
    <2> QED
      BY <2>1, FS_BoundedSetOfNaturals
  <1>9. Cardinality(S \cup {x}) = Cardinality(S) + 1
    BY <1>7, <1>8, FS_AddElement, Zenon
  <1>10. failed + 1 = Cardinality(OwnOf(l \cup {x}, b))
    BY <1>3, <1>6, <1>9 DEF Counted
  <1>11. top - b = ((written + full) + (failed + 1)) + Len(q)
    BY <1>3, <1>4 DEF Counted
  <1> QED
    BY <1>3, <1>10, <1>11 DEF Counted

\* There is no row.
LEMMA RowsInvInit == Init => RowsInv
  <1> SUFFICES ASSUME Init PROVE RowsInv
    OBVIOUS
  <1>1. /\ queue = << >> /\ Unsettled = << >> /\ table = << >> /\ lost = {} /\ accepted = << >>
        /\ base = 0 /\ Answered = 0
        /\ rows_written = 0 /\ dropped_ring_full = 0 /\ dropped_write_failed = 0
    BY DEF Init, Ring!Init, Unsettled, Answered, RowInHand
  <1>2. Pending = << >>
    BY <1>1 DEF Pending
  <1>3. Range(<< >>) = {}
    <2>1. << >> \in Seq(Nat) /\ 0 \in Nat
      OBVIOUS
    <2> QED
      BY <2>1, Ranges, Zenon
  <1>4. Increasing(<< >>)
    BY DEF Increasing
  <1>5. OwnOf({}, 0) = {} /\ Cardinality({}) = 0
    BY FS_EmptySet DEF OwnOf
  <1>6. Ordered(table, Pending, lost, base, Answered)
    BY <1>1, <1>2, <1>3, <1>4 DEF Ordered
  <1>7. Kept(accepted, table, Pending, lost, base, Answered)
    BY <1>1, <1>2, <1>3 DEF Kept
  <1>8. Counted(table, Pending, lost, base, Answered,
                rows_written, dropped_ring_full, dropped_write_failed)
    <2>1. 0 - 0 = ((0 + 0) + 0) + Len(<< >>)
      OBVIOUS
    <2>2. 0 = Cardinality(OwnOf(Range(<< >>), 0)) /\ 0 = Cardinality(OwnOf({}, 0))
      BY <1>3, <1>5
    <2> QED
      BY <1>1, <1>2, <2>1, <2>2, Zenon DEF Counted
  <1> QED
    BY <1>1, <1>6, <1>7, <1>8 DEF RowsInv

\* Every step keeps the invariant.
LEMMA RowsInvNext ==
  ASSUME SinkInv, SinkInv', RowsInv, RowStep
  PROVE  RowsInv'
  <1>1. /\ table \in Seq(Nat) /\ accepted \in Seq(Nat) /\ lost \in SUBSET Nat
        /\ base \in Nat /\ Answered \in Nat
        /\ rows_written \in Nat /\ dropped_ring_full \in Nat /\ dropped_write_failed \in Nat
        /\ Pending \in Seq(Nat) /\ Len(Pending) \in Nat
    <2>1. Pending \in Seq(Nat) /\ Len(Pending) \in Nat
      BY PendingFacts
    <2>2. Answered \in Nat /\ accepted \in Seq(Nat)
      BY DEF SinkInv, SinkTypeOK, CallerTypeOK, RowInHand, Answered
    <2>3. base \in Nat
      BY DEF RowsInv
    <2> QED
      BY <2>1, <2>2, <2>3 DEF SinkInv, SinkTypeOK, OutcomeTypeOK
  <1>2. Answered' \in Nat
    BY DEF SinkInv, SinkTypeOK, CallerTypeOK, RowInHand, Answered
  <1>3. Range(table) \subseteq Nat /\ Range(Pending) \subseteq Nat /\ Range(accepted) \subseteq Nat
        /\ Range(<< >>) = {}
    BY <1>1, Ranges
  <1>4. /\ Ordered(table, Pending, lost, base, Answered)
        /\ Kept(accepted, table, Pending, lost, base, Answered)
        /\ Counted(table, Pending, lost, base, Answered,
                   rows_written, dropped_ring_full, dropped_write_failed)
    BY DEF RowsInv
  <1>5. Answered - base =
            ((rows_written + dropped_ring_full) + dropped_write_failed) + Len(Pending)
    BY <1>4, Zenon DEF Counted
  <1>6. CASE Stays
    <2>1. /\ Ordered(table, Pending, lost, base, Answered')
          /\ Kept(accepted, table, Pending, lost, base, Answered')
          /\ Counted(table, Pending, lost, base, Answered',
                     rows_written, dropped_ring_full', dropped_write_failed)
      <3>1. CASE Answered' = Answered /\ dropped_ring_full' = dropped_ring_full
        BY <1>4, <3>1
      <3>2. CASE Answered' = Answered + 1 /\ dropped_ring_full' = dropped_ring_full + 1
        <4>1. Ordered(table, Pending, lost, base, Answered + 1)
          BY <1>1, <1>3, <1>4, OrderedStays
        <4>2. ASSUME NEW r \in Range(accepted) PROVE r <= Answered + 1
          <5>1. r <= Answered /\ r \in Nat
            BY <1>3, <1>4 DEF Kept
          <5> QED
            BY <1>1, <5>1
        <4>3. Kept(accepted, table, Pending, lost, base, Answered + 1)
          BY <1>4, <4>2, Zenon DEF Kept
        <4>4. (Answered + 1) - base =
                 ((rows_written + (dropped_ring_full + 1)) + dropped_write_failed) + Len(Pending)
          BY <1>1, <1>5
        <4>5. Counted(table, Pending, lost, base, Answered + 1,
                      rows_written, dropped_ring_full + 1, dropped_write_failed)
          BY <1>4, <4>4, Zenon DEF Counted
        <4> QED
          BY <3>2, <4>1, <4>3, <4>5
      <3> QED
        BY <1>6, <3>1, <3>2 DEF Stays
    <2>2. UNCHANGED <<table, lost, Pending, accepted, base, rows_written, dropped_write_failed>>
      BY <1>6 DEF Stays
    <2> QED
      BY <1>1, <2>1, <2>2, Zenon DEF RowsInv
  <1>7. CASE Arrives
    <2> DEFINE p == Append(Pending, Answered + 1)
               a == Append(accepted, Answered + 1)
    <2>1. Ordered(table, p, lost, base, Answered + 1)
      BY <1>1, <1>4, OrderedArrives
    <2>2. Kept(a, table, p, lost, base, Answered + 1)
      BY <1>1, <1>4, KeptArrives
    <2>3. Len(p) = Len(Pending) + 1
      BY <1>1
    <2>4. /\ Pending' = p /\ accepted' = a /\ Answered' = Answered + 1
          /\ UNCHANGED <<table, lost, base, rows_written, dropped_ring_full, dropped_write_failed>>
      BY <1>7 DEF Arrives
    <2> HIDE DEF p, a
    <2>5. (Answered + 1) - base =
             ((rows_written + dropped_ring_full) + dropped_write_failed) + Len(p)
      BY <1>1, <1>5, <2>3
    <2>6. Counted(table, p, lost, base, Answered + 1,
                  rows_written, dropped_ring_full, dropped_write_failed)
      BY <1>4, <2>5, Zenon DEF Counted
    <2> QED
      BY <1>1, <2>1, <2>2, <2>4, <2>6, Zenon DEF RowsInv
  <1>8. ASSUME NEW u \in Seq(Nat), NEW q \in Seq(Nat), IsWritten(u, q) PROVE RowsInv'
    <2>1. /\ Pending = u \o q /\ table' = table \o u /\ Pending' = q
          /\ rows_written' = rows_written + Len(u)
          /\ UNCHANGED <<Answered, lost, accepted, base, dropped_ring_full, dropped_write_failed>>
      BY <1>8 DEF IsWritten
    <2>2. /\ Ordered(table, u \o q, lost, base, Answered)
          /\ Kept(accepted, table, u \o q, lost, base, Answered)
          /\ Counted(table, u \o q, lost, base, Answered,
                     rows_written, dropped_ring_full, dropped_write_failed)
      BY <1>4, <2>1
    <2>3. Ordered(table \o u, q, lost, base, Answered)
      BY <1>1, <2>2, OrderedWritten
    <2>4. Kept(accepted, table \o u, q, lost, base, Answered)
      <3>1. Range(u \o q) = Range(u) \cup Range(q) /\ Range(table \o u) = Range(table) \cup Range(u)
        BY <1>1, Ranges
      <3>2. (Range(table) \cup lost) \cup (Range(u) \cup Range(q))
               = ((Range(table) \cup Range(u)) \cup lost) \cup Range(q)
        BY Zenon
      <3> QED
        BY <2>2, <3>1, <3>2, Zenon DEF Kept
    <2>5. Counted(table \o u, q, lost, base, Answered,
                  rows_written + Len(u), dropped_ring_full, dropped_write_failed)
      BY <1>1, <2>2, CountedWritten
    <2> QED
      BY <1>1, <2>1, <2>3, <2>4, <2>5, Zenon DEF RowsInv
  <1>9. ASSUME NEW x \in Nat, NEW q \in Seq(Nat), IsLost(x, q) PROVE RowsInv'
    <2>1. /\ Pending = <<x>> \o q /\ lost' = lost \cup {x} /\ Pending' = q
          /\ dropped_write_failed' = dropped_write_failed + 1
          /\ UNCHANGED <<Answered, table, accepted, base, dropped_ring_full, rows_written>>
      BY <1>9 DEF IsLost
    <2>2. /\ Ordered(table, <<x>> \o q, lost, base, Answered)
          /\ Kept(accepted, table, <<x>> \o q, lost, base, Answered)
          /\ Counted(table, <<x>> \o q, lost, base, Answered,
                     rows_written, dropped_ring_full, dropped_write_failed)
      BY <1>4, <2>1, Zenon
    <2>3. Ordered(table, q, lost \cup {x}, base, Answered)
      BY <1>1, <2>2, OrderedLost, Zenon
    <2>4. Kept(accepted, table, q, lost \cup {x}, base, Answered)
      <3>1. Range(<<x>> \o q) = {x} \cup Range(q)
        <4> DEFINE h == <<x>>
        <4>1. h \in Seq(Nat)
          OBVIOUS
        <4>2. Range(h) = {x}
          BY <4>1, Ranges
        <4> HIDE DEF h
        <4>3. Range(h \o q) = Range(h) \cup Range(q)
          BY <4>1, Ranges, ZenonT(30)
        <4> QED
          BY <4>2, <4>3 DEF h
      <3>2. (Range(table) \cup lost) \cup ({x} \cup Range(q))
               = (Range(table) \cup (lost \cup {x})) \cup Range(q)
        BY Zenon
      <3> QED
        BY <2>2, <3>1, <3>2, Zenon DEF Kept
    <2>5. Counted(table, q, lost \cup {x}, base, Answered,
                  rows_written, dropped_ring_full, dropped_write_failed + 1)
      BY <1>1, <2>2, CountedLost, Zenon
    <2> QED
      BY <1>1, <2>1, <2>3, <2>4, <2>5, Zenon DEF RowsInv
  <1>10. CASE StartsAnew
    <2> DEFINE later == Answered'
    <2>1. /\ later >= Answered /\ base' = later /\ Pending' = << >> /\ later \in Nat
          /\ rows_written' = 0 /\ dropped_ring_full' = 0 /\ dropped_write_failed' = 0
          /\ UNCHANGED <<table, lost, accepted>>
      BY <1>2, <1>10 DEF StartsAnew
    <2>2. Answered' = later
      OBVIOUS
    <2> HIDE DEF later
    <2>3. Answered <= later
      BY <1>1, <2>1
    <2>4. Ordered(table, << >>, lost, later, later)
      BY <1>1, <1>4, <2>1, <2>3, OrderedAnew
    <2>5. /\ OwnOf(Range(table), later) = {} /\ OwnOf(lost, later) = {}
          /\ OwnOf(Range(accepted), later) = {}
          /\ OwnOf((Range(table) \cup lost) \cup {}, later) = {}
      <3>1. /\ \A r \in Range(table) \cup lost : r <= Answered
            /\ \A r \in Range(accepted) : r <= Answered
        BY <1>4 DEF Ordered, Kept
      <3> QED
        BY <1>1, <1>3, <2>1, <2>3, <3>1, NoneIsOwn
    <2>6. ASSUME NEW r \in Range(accepted) PROVE r <= later
      <3>1. r <= Answered /\ r \in Nat
        BY <1>3, <1>4 DEF Kept
      <3> QED
        BY <1>1, <2>1, <2>3, <3>1
    <2>7. Kept(accepted, table, << >>, lost, later, later)
      BY <1>3, <2>5, <2>6, Zenon DEF Kept
    <2>8. Counted(table, << >>, lost, later, later, 0, 0, 0)
      BY <2>1, <2>5, FS_EmptySet DEF Counted
    <2> QED
      BY <2>1, <2>2, <2>4, <2>7, <2>8, Zenon DEF RowsInv
  <1> QED
    BY <1>6, <1>7, <1>8, <1>9, <1>10, Zenon DEF RowStep

\* The rows keep their invariant.
LEMMA RowsInvAlways == Spec => [](SinkInv /\ RowsInv)
  <1>1. SinkInv /\ SinkInv' /\ RowsInv /\ [Next]_vars => RowsInv'
    BY StepEffects, RowSteps, RowsInvNext
  <1> QED
    BY <1>1, RowsInvInit, SinkInvAlways, PTL DEF Spec

\* However batches, rollbacks, per-row retries and crashes mix, latency_events holds each
\* row at most once, in the order of the record() calls, and no row that was counted as
\* failed (write_batch in src/telemetry.cpp).
THEOREM RowsOnceInOrder == Spec => []NoRowTwiceOrOutOfOrder
  <1>1. SinkInv /\ RowsInv => NoRowTwiceOrOutOfOrder
    <2> SUFFICES ASSUME SinkInv, RowsInv PROVE NoRowTwiceOrOutOfOrder
      OBVIOUS
    <2>1. table \in Seq(Nat)
      BY DEF SinkInv, SinkTypeOK, OutcomeTypeOK
    <2>2. DOMAIN table = 1..Len(table)
      BY <2>1
    <2>3. Increasing(table) /\ Range(table) \cap lost = {}
      BY Zenon DEF RowsInv, Ordered
    <2> QED
      BY <2>2, <2>3, Zenon DEF Increasing, NoRowTwiceOrOutOfOrder
  <1> QED
    BY <1>1, RowsInvAlways, PTL

\* The counters that main prints at shutdown account for every record() of the process,
\* and those of rows written and of rows that failed are the rows that are in the table
\* and those that are lost (TelemetrySink::stats in src/telemetry.cpp).
THEOREM CountersAddUp == Spec => []StatsAddUp
  <1>1. SinkInv /\ RowsInv => StatsAddUp
    <2> SUFFICES ASSUME SinkInv, RowsInv, ~joinable, caller = "idle"
                 PROVE  /\ Len(events) - base =
                              rows_written + dropped_ring_full + dropped_write_failed + Len(queue)
                        /\ rows_written = Cardinality(Own(Range(table)))
                        /\ dropped_write_failed = Cardinality(Own(lost))
      BY DEF StatsAddUp
    <2>1. Pending = queue
      BY PendingFacts
    <2>2. Answered = Len(events)
      BY DEF Answered, RowInHand
    <2>3. Own(Range(table)) = OwnOf(Range(table), base) /\ Own(lost) = OwnOf(lost, base)
      BY DEF Own, OwnOf
    <2> QED
      BY <2>1, <2>2, <2>3, Zenon DEF RowsInv, Counted
  <1> QED
    BY <1>1, RowsInvAlways, PTL

\* What the bounds count.
BoundsInv == crashes \in Nat /\ faults \in Nat

\* The bounds count up.
LEMMA BoundsInvAlways == Spec => []BoundsInv
  <1>1. Init => BoundsInv
    BY DEF Init, BoundsInv
  <1>2. BoundsInv /\ [Next]_vars => BoundsInv'
    <2> SUFFICES ASSUME BoundsInv, [Next]_vars PROVE BoundsInv'
      OBVIOUS
    <2>1. crashes' = crashes \/ crashes' = crashes + 1
      BY DEF Next, Caller, Writer, Record, RecordOversized, RecordReloadTail, RecordPush, Open,
             Close, CloseJoined, ReadStopping, DrainPop, DrainReloadHead, DrainBatchFull,
             BatchBegin, BatchInsert, BatchCommit, BatchRollback, RetryBegin, RetryInsert,
             RetryCommit, RetryRollback, Crash, writeBatchRest, callerVars, processVars, vars
    <2>2. faults' = faults \/ faults' = faults + 1
      <3>1. CASE BatchBegin \/ RetryBegin
        BY <3>1 DEF BatchBegin, RetryBegin, Begin, Fault, NoFault
      <3>2. CASE BatchInsert \/ RetryInsert
        BY <3>2, Zenon DEF BatchInsert, RetryInsert, Insert, Fault, NoFault
      <3>3. CASE BatchCommit \/ RetryCommit
        BY <3>3, Zenon DEF BatchCommit, RetryCommit, Commit, Fault, NoFault
      <3>4. CASE ~(\/ BatchBegin \/ RetryBegin \/ BatchInsert \/ RetryInsert
                   \/ BatchCommit \/ RetryCommit)
        BY <3>4 DEF Next, Caller, Writer, Record, RecordOversized, RecordReloadTail, RecordPush,
               Open, Close, CloseJoined, ReadStopping, DrainPop, DrainReloadHead, DrainBatchFull,
               BatchRollback, RetryRollback, Crash, writerVars, vars
      <3> QED
        BY <3>1, <3>2, <3>3, <3>4
    <2> QED
      BY <2>1, <2>2 DEF BoundsInv
  <1> QED
    BY <1>1, <1>2, PTL DEF Spec

\* close() drains what is queued: when it returns, every row accepted by this process is
\* in the table or counted as failed, however late the writer learned of the last pushes
\* and of the stop (TelemetrySink::close in src/telemetry.cpp).
THEOREM CloseDrainsAll == Spec => CloseDrains
  <1>1. ASSUME SinkInv, RowsInv, BoundsInv, [Next]_vars,
               caller = "joining", caller' = "idle", UNCHANGED crashes
        PROVE  queue = << >> /\ Own(Range(accepted)) = Own(Range(table) \cup lost)
    <2>1. ~Crash
      BY <1>1 DEF Crash, BoundsInv
    <2>2. CloseJoined
      BY <1>1, <2>1 DEF Next, Caller, Writer, Record, RecordOversized, RecordReloadTail,
             RecordPush, Open, Close, ReadStopping, DrainPop, DrainReloadHead,
             DrainBatchFull, BatchBegin, BatchInsert, BatchCommit, BatchRollback, RetryBegin,
             RetryInsert, RetryCommit, RetryRollback, writeBatchRest, callerVars, vars
    <2>3. queue = << >> /\ Unsettled = << >>
      BY <1>1, <2>2 DEF CloseJoined, SinkInv, ThreadsOK, Unsettled
    <2>4. Pending = << >>
      BY <1>1, <2>3, PendingFacts
    <2>5. Range(<< >>) = {}
      <3>1. << >> \in Seq(Nat) /\ 0 \in Nat
        OBVIOUS
      <3> QED
        BY <3>1, Ranges, Zenon
    <2>6. OwnOf(Range(accepted), base) = OwnOf((Range(table) \cup lost) \cup {}, base)
      BY <1>1, <2>4, <2>5, Zenon DEF RowsInv, Kept
    <2>7. (Range(table) \cup lost) \cup {} = Range(table) \cup lost
      OBVIOUS
    <2> QED
      BY <2>3, <2>6, <2>7 DEF Own, OwnOf
  <1>2. SinkInv /\ RowsInv /\ BoundsInv /\ [Next]_vars =>
           [caller = "joining" /\ caller' = "idle" /\ UNCHANGED crashes =>
              queue = << >> /\ Own(Range(accepted)) = Own(Range(table) \cup lost)]_vars
    BY <1>1
  <1> QED
    BY <1>2, RowsInvAlways, BoundsInvAlways, PTL DEF Spec, CloseDrains

-----------------------------------------------------------------------------
(* Parents, and the rows that are lost.                                    *)

\* The parents of a set of rows.
IdsOf(ev, S) == {ev[r].id : r \in S}

\* Between BEGIN and COMMIT the transaction holds the parents of its rows, and the file
\* those of the table.
ParentsInv ==
    /\ parents = IdsOf(events, Range(table))
    /\ writer \in {"insert", "commit", "retry_insert", "retry_commit"} =>
          /\ txn.parents = IdsOf(events, Range(txn.rows))
          /\ Range(txn.rows) \subseteq 1..Len(events)

\* Every good row that is lost, or about to be, has a fault of its own.
GoodOf(ev, S) == {r \in S : ~ev[r].refused}
BlameInv ==
    /\ Cardinality(GoodOf(events, lost)) <= faults
    /\ (writer = "retry_rollback" /\ ~events[batch[row_i]].refused) =>
          Cardinality(GoodOf(events, lost)) < faults

\* The rows the writer handles have been recorded.
LEMMA RowsKnown ==
  ASSUME SinkInv, RowsInv
  PROVE  /\ Range(table) \subseteq 1..Len(events) /\ lost \subseteq 1..Len(events)
         /\ writer \in {"insert"} \cup Retrying => batch[row_i] \in 1..Len(events)
         /\ IsFiniteSet(lost)
  <1>1. /\ Answered \in Nat /\ Len(events) \in Nat /\ Answered <= Len(events)
        /\ batch \in Seq(Nat) /\ queue \in Seq(Nat) /\ table \in Seq(Nat) /\ lost \in SUBSET Nat
    BY DEF SinkInv, SinkTypeOK, CallerTypeOK, WriterTypeOK, OutcomeTypeOK, Answered, RowInHand
  <1>2. Range(table) \subseteq Nat /\ Range(batch) = {batch[i] : i \in 1..Len(batch)}
        /\ Range(batch) \subseteq Nat
    BY <1>1, Ranges
  <1>3. /\ \A r \in Range(table) \cup lost : r >= 1 /\ r <= Answered
        /\ \A x \in Range(Pending) : base < x /\ x <= Answered
        /\ base \in Nat
    BY DEF RowsInv, Ordered
  <1>4. ASSUME NEW r \in Range(table) \cup lost PROVE r \in 1..Len(events)
    <2>1. r \in Nat /\ r >= 1 /\ r <= Answered
      BY <1>1, <1>2, <1>3
    <2> QED
      BY <1>1, <2>1
  <1>5. ASSUME NEW x \in Nat, x \in Range(Pending) PROVE x \in 1..Len(events)
    <2>1. base < x /\ x <= Answered /\ base \in Nat
      BY <1>3, <1>5
    <2> QED
      BY <1>1, <2>1
  <1>6. ASSUME writer = "insert" PROVE batch[row_i] \in 1..Len(events)
    <2>1. Pending = batch \o queue /\ row_i \in 1..Len(batch)
      BY <1>6 DEF Pending, Unsettled, SinkInv, BatchOK
    <2>2. Range(batch \o queue) = Range(batch) \cup Range(queue)
      BY <1>1, Ranges
    <2>3. batch[row_i] \in Range(batch) /\ batch[row_i] \in Nat
      BY <1>1, <1>2, <2>1
    <2> QED
      BY <1>5, <2>1, <2>2, <2>3
  <1>7. ASSUME writer \in Retrying PROVE batch[row_i] \in 1..Len(events)
    <2> DEFINE x == batch[row_i]
               w == SubSeq(batch, row_i + 1, Len(batch)) \o queue
               o == <<x>>
    <2>1. x \in Nat /\ w \in Seq(Nat) /\ Pending = <<x>> \o w
      BY <1>7, RetriedFirst
    <2> HIDE DEF x, w
    <2>2. o \in Seq(Nat) /\ Range(o) = {x} /\ Pending = o \o w
      <3>1. Range(<<x>>) = {x}
        BY <2>1, Ranges, Zenon
      <3> QED
        BY <2>1, <3>1
    <2> HIDE DEF o
    <2>3. Range(o \o w) = Range(o) \cup Range(w)
      BY <2>1, <2>2, Ranges, Zenon
    <2>4. x \in 1..Len(events)
      BY <1>5, <2>1, <2>2, <2>3
    <2> QED
      BY <2>4 DEF x
  <1>8. IsFiniteSet(lost)
    <2>1. \A r \in lost : r <= Answered
      BY <1>3
    <2> QED
      BY <1>1, <2>1, FS_BoundedSetOfNaturals
  <1> QED
    BY <1>4, <1>6, <1>7, <1>8

\* A row keeps its contents.
LEMMA EventsKept ==
  ASSUME SinkInv, [Next]_vars
  PROVE  \A r \in 1..Len(events) : events'[r] = events[r]
  <1>1. CASE \E id \in CorrelationIds, refused \in BOOLEAN : Record(id, refused)
    <2>1. PICK e : events' = Append(events, e)
      BY <1>1 DEF Record
    <2>2. events \in Seq([id : CorrelationIds, refused : BOOLEAN])
      BY DEF SinkInv, SinkTypeOK, CallerTypeOK
    <2> QED
      BY <2>1, <2>2
  <1>2. CASE ~\E id \in CorrelationIds, refused \in BOOLEAN : Record(id, refused)
    BY <1>2 DEF Next, Caller, Writer, RecordOversized, RecordReloadTail, RecordPush, Open,
           Close, CloseJoined, ReadStopping, DrainPop, DrainReloadHead, DrainBatchFull,
           BatchBegin, BatchInsert, BatchCommit, BatchRollback, RetryBegin, RetryInsert,
           RetryCommit, RetryRollback, Crash, writeBatchRest, callerVars, vars
  <1> QED
    BY <1>1, <1>2

\* The steps outside write_batch() leave the file, the lost rows and the faults alone.
LEMMA OtherSteps ==
  ASSUME [Next]_vars,
         ~(\/ BatchBegin \/ BatchInsert \/ BatchCommit \/ BatchRollback
           \/ RetryBegin \/ RetryInsert \/ RetryCommit \/ RetryRollback)
  PROVE  /\ UNCHANGED <<table, parents, lost, faults>>
         /\ \/ UNCHANGED <<writer, txn, batch, row_i>>
            \/ writer' \in {"none", "read_stopping", "drain", "begin", "done"}
  <1>1. UNCHANGED <<table, parents, lost, faults>>
    BY DEF Next, Caller, Writer, Record, RecordOversized, RecordReloadTail, RecordPush, Open,
           Close, CloseJoined, ReadStopping, DrainPop, DrainReloadHead, DrainBatchFull,
           Crash, writerVars, dbVars, vars
  <1>2. \/ UNCHANGED <<writer, txn, batch, row_i>>
        \/ writer' \in {"none", "read_stopping", "drain", "begin", "done"}
    BY DEF Next, Caller, Writer, Record, RecordOversized, RecordReloadTail, RecordPush, Open,
           Close, CloseJoined, ReadStopping, DrainPop, DrainReloadHead, DrainBatchFull,
           AfterDrain, Crash, writerVars, dbVars, vars
  <1> QED
    BY <1>1, <1>2

\* Every step keeps the parents.
LEMMA ParentsInvNext ==
  ASSUME SinkInv, SinkInv', RowsInv, ParentsInv, [Next]_vars
  PROVE  ParentsInv'
  <1> DEFINE Inserting == {"insert", "commit", "retry_insert", "retry_commit"}
  <1>1. /\ \A r \in 1..Len(events) : events'[r] = events[r]
        /\ Range(table) \subseteq 1..Len(events)
        /\ writer \in {"insert"} \cup Retrying => batch[row_i] \in 1..Len(events)
    BY EventsKept, RowsKnown
  <1>2. ASSUME NEW S, S \subseteq 1..Len(events) PROVE IdsOf(events', S) = IdsOf(events, S)
    BY <1>1, <1>2 DEF IdsOf
  <1>3. Len(events') >= Len(events) /\ Len(events') \in Nat /\ Len(events) \in Nat
    <2>1. Len(events') = Len(events) \/ \E e : events' = Append(events, e)
      BY DEF Next, Caller, Writer, Record, RecordOversized, RecordReloadTail, RecordPush, Open,
           Close, CloseJoined, ReadStopping, DrainPop, DrainReloadHead, DrainBatchFull,
           BatchBegin, BatchInsert, BatchCommit, BatchRollback, RetryBegin, RetryInsert,
           RetryCommit, RetryRollback, Crash, writeBatchRest, callerVars, vars
    <2>2. events \in Seq([id : CorrelationIds, refused : BOOLEAN])
      BY DEF SinkInv, SinkTypeOK, CallerTypeOK
    <2> QED
      BY <2>1, <2>2
  <1>4. parents = IdsOf(events, Range(table))
    BY DEF ParentsInv
  <1>5. ASSUME UNCHANGED <<table, parents>> PROVE parents' = IdsOf(events', Range(table'))
    BY <1>1, <1>2, <1>4, <1>5
  <1>6. ASSUME UNCHANGED <<table, parents>>, writer' \notin Inserting PROVE ParentsInv'
    BY <1>5, <1>6 DEF ParentsInv
  <1>7. table \in Seq(Nat) /\ txn.rows \in Seq(Nat)
    BY DEF SinkInv, SinkTypeOK, WriterTypeOK, OutcomeTypeOK
  <1>8. CASE ~(\/ BatchBegin \/ BatchInsert \/ BatchCommit \/ BatchRollback
               \/ RetryBegin \/ RetryInsert \/ RetryCommit \/ RetryRollback)
    <2>1. /\ UNCHANGED <<table, parents>>
          /\ \/ UNCHANGED <<writer, txn>>
             \/ writer' \in {"none", "read_stopping", "drain", "begin", "done"}
      BY <1>8, OtherSteps
    <2>2. CASE writer' \in {"none", "read_stopping", "drain", "begin", "done"}
      BY <1>6, <2>1, <2>2
    <2>3. CASE UNCHANGED <<writer, txn>> /\ writer \in Inserting
      <3>1. txn.parents = IdsOf(events, Range(txn.rows)) /\ Range(txn.rows) \subseteq 1..Len(events)
        BY <2>3 DEF ParentsInv
      <3>2. IdsOf(events', Range(txn.rows)) = IdsOf(events, Range(txn.rows))
        BY <1>2, <3>1
      <3>3. Range(txn.rows) \subseteq 1..Len(events')
        BY <1>3, <3>1
      <3>4. txn'.parents = IdsOf(events', Range(txn'.rows)) /\ Range(txn'.rows) \subseteq 1..Len(events')
        BY <2>3, <3>1, <3>2, <3>3
      <3> QED
        BY <1>5, <2>1, <3>4 DEF ParentsInv
    <2> QED
      BY <1>6, <2>1, <2>2, <2>3
  <1>9. CASE BatchBegin \/ RetryBegin
    <2>1. /\ UNCHANGED <<table, parents, events>>
          /\ writer' \in Inserting => txn' = OpenTxn(<< >>, {})
      BY <1>9, BeginFacts DEF BatchBegin, RetryBegin, SinkInv, TxnOK, writeBatchRest, callerVars
    <2>2. txn' = OpenTxn(<< >>, {}) => txn'.rows = << >> /\ txn'.parents = {}
      BY TxnFields, ZenonT(30)
    <2>3. Range(<< >>) = {}
      BY <1>3, <1>7, Ranges, Zenon
    <2>4. IdsOf(events', {}) = {}
      BY DEF IdsOf
    <2> QED
      BY <1>5, <2>1, <2>2, <2>3, <2>4 DEF ParentsInv
  <1>10. CASE BatchInsert \/ RetryInsert
    <2> DEFINE r == batch[row_i]
    <2>1. PICK ok, failed : Insert(r, ok, failed) /\ failed \notin Inserting
      BY <1>10 DEF BatchInsert, RetryInsert
    <2>2. writer \in Inserting /\ r \in 1..Len(events) /\ events' = events
      BY <1>1, <1>10 DEF BatchInsert, RetryInsert, Retrying, writeBatchRest, callerVars
    <2>3. txn.parents = IdsOf(events, Range(txn.rows)) /\ Range(txn.rows) \subseteq 1..Len(events)
      BY <2>2 DEF ParentsInv
    <2> HIDE DEF r
    <2>4. /\ UNCHANGED <<table, parents>>
          /\ \/ writer' \notin Inserting
             \/ /\ txn'.rows = Append(txn.rows, r)
                /\ txn'.parents = txn.parents \cup {events[r].id}
      BY <1>7, <2>1, InsertFacts
    <2>5. Range(Append(txn.rows, r)) = Range(txn.rows) \cup {r}
      <3>1. r \in Nat
        BY <1>3, <2>2
      <3> QED
        BY <1>7, <3>1, Ranges, Zenon
    <2>6. IdsOf(events, Range(txn.rows) \cup {r}) = IdsOf(events, Range(txn.rows)) \cup {events[r].id}
      BY Zenon DEF IdsOf
    <2>7. CASE writer' \notin Inserting
      BY <1>6, <2>4, <2>7
    <2>8. CASE /\ txn'.rows = Append(txn.rows, r)
               /\ txn'.parents = txn.parents \cup {events[r].id}
      <3>1. Range(txn'.rows) = Range(txn.rows) \cup {r}
        BY <2>5, <2>8
      <3>2. txn'.parents = IdsOf(events', Range(txn'.rows)) /\ Range(txn'.rows) \subseteq 1..Len(events')
        BY <2>2, <2>3, <2>6, <2>8, <3>1
      <3> QED
        BY <1>5, <2>4, <3>2 DEF ParentsInv
    <2> QED
      BY <2>4, <2>7, <2>8
  <1>11. CASE BatchCommit \/ RetryCommit
    <2>1. PICK ok, failed, n : Commit(ok, failed, n) /\ ok \notin Inserting /\ failed \notin Inserting
      BY <1>11 DEF BatchCommit, RetryCommit, AfterRetry
    <2>2. writer \in Inserting /\ events' = events
      BY <1>11 DEF BatchCommit, RetryCommit, writeBatchRest, callerVars
    <2>3. txn.parents = IdsOf(events, Range(txn.rows))
      BY <2>2 DEF ParentsInv
    <2>4. /\ writer' \notin Inserting
          /\ \/ table' = table \o txn.rows /\ parents' = parents \cup txn.parents
             \/ UNCHANGED <<table, parents>>
      BY <1>7, <2>1, CommitFacts
    <2>5. CASE table' = table \o txn.rows /\ parents' = parents \cup txn.parents
      <3>1. Range(table \o txn.rows) = Range(table) \cup Range(txn.rows)
        BY <1>3, <1>7, Ranges, Zenon
      <3>2. IdsOf(events, Range(table) \cup Range(txn.rows))
               = IdsOf(events, Range(table)) \cup IdsOf(events, Range(txn.rows))
        BY Zenon DEF IdsOf
      <3> QED
        BY <1>4, <2>2, <2>3, <2>4, <2>5, <3>1, <3>2 DEF ParentsInv
    <2> QED
      BY <1>6, <2>4, <2>5
  <1>12. CASE BatchRollback \/ RetryRollback
    <2>1. UNCHANGED <<table, parents>> /\ writer' \notin Inserting
      BY <1>12 DEF BatchRollback, RetryRollback, Rollback, AfterRetry
    <2> QED
      BY <1>6, <2>1
  <1> QED
    BY <1>8, <1>9, <1>10, <1>11, <1>12

\* The file is empty.
LEMMA ParentsInvInit == Init => ParentsInv
  <1> SUFFICES ASSUME Init PROVE ParentsInv
    OBVIOUS
  <1>1. table = << >> /\ parents = {} /\ writer = "none"
    BY DEF Init
  <1>2. << >> \in Seq(Nat) /\ 0 \in Nat
    OBVIOUS
  <1>3. Range(<< >>) = {}
    BY <1>2, Ranges, Zenon
  <1>4. IdsOf(events, {}) = {}
    BY DEF IdsOf
  <1> QED
    BY <1>1, <1>3, <1>4 DEF ParentsInv

\* A transaction is open only inside write_batch(), so the BEGIN of the next batch finds
\* none; and the file has the parent of every row it holds and no other, whatever was
\* rolled back (write_batch and insert in src/telemetry.cpp).
THEOREM TransactionsEnd == Spec => []TransactionsAreClosed
  <1>1. SinkInv /\ ParentsInv => TransactionsAreClosed
    <2> SUFFICES ASSUME SinkInv, ParentsInv PROVE TransactionsAreClosed
      OBVIOUS
    <2>1. writer \in {"none", "read_stopping", "drain", "begin", "retry_begin", "done"} =>
             txn = NoTxn
      BY DEF SinkInv, TxnOK
    <2>2. NoTxn.open = FALSE
      BY TxnFields
    <2>3. parents = {events[r].id : r \in Range(table)}
      BY DEF ParentsInv, IdsOf
    <2> QED
      BY <2>1, <2>2, <2>3, Zenon DEF TransactionsAreClosed
  <1>2. SinkInv /\ SinkInv' /\ RowsInv /\ ParentsInv /\ [Next]_vars => ParentsInv'
    BY ParentsInvNext
  <1> QED
    BY <1>1, <1>2, ParentsInvInit, RowsInvAlways, PTL DEF Spec

\* No row is lost.
LEMMA BlameInvInit == Init => BlameInv
  <1> SUFFICES ASSUME Init PROVE BlameInv
    OBVIOUS
  <1>1. lost = {} /\ faults = 0 /\ writer = "none"
    BY DEF Init
  <1>2. GoodOf(events, {}) = {} /\ Cardinality({}) = 0
    BY FS_EmptySet DEF GoodOf
  <1> QED
    BY <1>1, <1>2 DEF BlameInv

\* Every step keeps the blame.
LEMMA BlameInvNext ==
  ASSUME SinkInv, RowsInv, BoundsInv, BlameInv, [Next]_vars
  PROVE  BlameInv'
  <1> DEFINE card == Cardinality(GoodOf(events, lost))
  <1>1. /\ \A r \in 1..Len(events) : events'[r] = events[r]
        /\ lost \subseteq 1..Len(events) /\ IsFiniteSet(lost)
        /\ writer \in {"insert"} \cup Retrying => batch[row_i] \in 1..Len(events)
        /\ txn.rows \in Seq(Nat)
    BY EventsKept, RowsKnown DEF SinkInv, SinkTypeOK, WriterTypeOK
  <1>2. GoodOf(events', lost) = GoodOf(events, lost)
    BY <1>1 DEF GoodOf
  <1>3. IsFiniteSet(GoodOf(events, lost)) /\ card \in Nat
    <2>1. GoodOf(events, lost) \in SUBSET lost
      BY DEF GoodOf
    <2>2. IsFiniteSet(GoodOf(events, lost))
      BY <1>1, <2>1, FS_Subset
    <2> QED
      BY <2>2, FS_CardinalityType
  <1>4. card <= faults /\ faults \in Nat
    BY DEF BlameInv, BoundsInv
  <1>5. UNCHANGED lost => Cardinality(GoodOf(events', lost')) = card
    BY <1>2
  <1> HIDE DEF card
  <1>6. ASSUME UNCHANGED lost, faults' = faults + 1 PROVE BlameInv'
    <2>1. card < faults' /\ card <= faults'
      BY <1>3, <1>4, <1>6
    <2> QED
      BY <1>5, <1>6, <2>1 DEF BlameInv
  <1>7. ASSUME UNCHANGED <<lost, faults>>, writer' # "retry_rollback" PROVE BlameInv'
    BY <1>4, <1>5, <1>7 DEF BlameInv
  <1>8. CASE ~(\/ BatchBegin \/ BatchInsert \/ BatchCommit \/ BatchRollback
               \/ RetryBegin \/ RetryInsert \/ RetryCommit \/ RetryRollback)
    <2>1. /\ UNCHANGED <<lost, faults>>
          /\ \/ UNCHANGED <<writer, batch, row_i>>
             \/ writer' \in {"none", "read_stopping", "drain", "begin", "done"}
      BY <1>8, OtherSteps
    <2>2. CASE writer = "retry_rollback" /\ UNCHANGED <<writer, batch, row_i>>
      <3>1. events'[batch[row_i]] = events[batch[row_i]]
        BY <1>1, <2>2 DEF Retrying
      <3>2. ~events[batch[row_i]].refused => card < faults
        BY <2>2 DEF BlameInv, card
      <3> QED
        BY <1>4, <1>5, <2>1, <2>2, <3>1, <3>2 DEF BlameInv
    <2> QED
      BY <1>7, <2>1, <2>2
  <1>9. CASE BatchBegin \/ RetryBegin
    <2>1. UNCHANGED lost
      BY <1>9 DEF BatchBegin, RetryBegin
    <2>2. \/ writer' # "retry_rollback" /\ UNCHANGED faults
          \/ faults' = faults + 1
      BY <1>9, BeginFacts DEF BatchBegin, RetryBegin, SinkInv, TxnOK, Fault
    <2> QED
      BY <1>6, <1>7, <2>1, <2>2
  <1>10. CASE BatchInsert
    <2>1. UNCHANGED lost /\ (faults' = faults + 1 \/ UNCHANGED faults) /\ writer' # "retry_rollback"
      BY <1>1, <1>10, InsertFacts DEF BatchInsert, Fault
    <2> QED
      BY <1>6, <1>7, <2>1
  <1>11. CASE RetryInsert
    <2> DEFINE r == batch[row_i]
    <2>1. /\ UNCHANGED <<lost, events, batch, row_i>>
          /\ Insert(r, "retry_commit", "retry_rollback")
      BY <1>11 DEF RetryInsert, writeBatchRest, callerVars
    <2> HIDE DEF r
    <2>2. \/ writer' # "retry_rollback" /\ UNCHANGED faults
          \/ events[r].refused /\ UNCHANGED faults
          \/ faults' = faults + 1
      BY <1>1, <2>1, InsertFacts DEF Fault
    <2>3. CASE events[r].refused /\ UNCHANGED faults
      <3>1. events'[batch'[row_i']].refused
        BY <2>1, <2>3 DEF r
      <3> QED
        BY <1>4, <1>5, <2>1, <2>3, <3>1 DEF BlameInv
    <2> QED
      BY <1>6, <1>7, <2>1, <2>2, <2>3
  <1>12. CASE BatchCommit \/ RetryCommit
    <2>1. UNCHANGED lost
      BY <1>12 DEF BatchCommit, RetryCommit
    <2>2. \/ writer' # "retry_rollback" /\ UNCHANGED faults
          \/ faults' = faults + 1
      BY <1>1, <1>12, CommitFacts DEF BatchCommit, RetryCommit, AfterRetry, Fault
    <2> QED
      BY <1>6, <1>7, <2>1, <2>2
  <1>13. CASE BatchRollback
    BY <1>7, <1>13 DEF BatchRollback
  <1>14. CASE RetryRollback
    <2> DEFINE x == batch[row_i]
               G == GoodOf(events, lost)
    <2>1. /\ writer = "retry_rollback" /\ lost' = lost \cup {x} /\ UNCHANGED <<faults, events>>
          /\ writer' # "retry_rollback"
      BY <1>14 DEF RetryRollback, AfterRetry, writeBatchRest, callerVars
    <2>2. ~events[x].refused => card < faults
      BY <2>1 DEF BlameInv, card
    <2>3. card = Cardinality(G) /\ IsFiniteSet(G)
      BY <1>3 DEF card
    <2>4. GoodOf(events, lost \cup {x}) = IF events[x].refused THEN G ELSE G \cup {x}
      BY DEF GoodOf
    <2> HIDE DEF x, G
    <2>5. Cardinality(G \cup {x}) = IF x \in G THEN Cardinality(G) ELSE Cardinality(G) + 1
      BY <2>3, FS_AddElement, Zenon
    <2>6. Cardinality(GoodOf(events, lost \cup {x})) <= faults
      <3>1. CASE events[x].refused
        BY <1>4, <2>3, <2>4, <3>1
      <3>2. CASE ~events[x].refused
        <4>1. Cardinality(G \cup {x}) <= faults
          BY <1>3, <1>4, <2>2, <2>3, <2>5, <3>2
        <4> QED
          BY <2>4, <3>2, <4>1
      <3> QED
        BY <3>1, <3>2
    <2> QED
      BY <2>1, <2>6 DEF BlameInv
  <1> QED
    BY <1>8, <1>9, <1>10, <1>11, <1>12, <1>13, <1>14

\* "Exactly the bad one is lost": beside the rows SQLite refuses, each row that is lost is
\* paid for by a statement that failed on its own account, however large the batch it was
\* in (the per-row retry of write_batch in src/telemetry.cpp).
THEOREM LosesOnlyBadRows == Spec => []OnlyBadRowsLost
  <1>1. BlameInv => OnlyBadRowsLost
    BY DEF BlameInv, GoodOf, OnlyBadRowsLost
  <1>2. SinkInv /\ RowsInv /\ BoundsInv /\ BlameInv /\ [Next]_vars => BlameInv'
    BY BlameInvNext
  <1> QED
    BY <1>1, <1>2, BlameInvInit, RowsInvAlways, BoundsInvAlways, PTL DEF Spec

=============================================================================
