---------------------------- MODULE TelemetryLog ----------------------------
(***************************************************************************)
(* What TelemetrySink promises the executor: a log.  record() either takes *)
(* a row or drops it, at once; the rows taken are settled in the order in  *)
(* which they were taken, each written to the table or given up, a whole   *)
(* transaction at a time; close() returns when all of them are settled;    *)
(* and a crash costs the rows that are not settled, never one in the       *)
(* middle of the others, and no more than the ring and one batch hold.     *)
(***************************************************************************)
EXTENDS Integers, Sequences

CONSTANTS
    Row,          \* what can be recorded
    Capacity,     \* the ring's capacity
    MaxBatchRows  \* kMaxBatchRows

VARIABLES
    pending,   \* the rows taken and not settled, oldest first
    table,     \* latency_events, in order of insertion
    lost,      \* the rows given up
    dropped,   \* record() calls of this process that returned false
    up         \* whether a writer runs

logVars == <<pending, table, lost, dropped, up>>

Init ==
    /\ pending = << >> /\ table = << >> /\ lost = {}
    /\ dropped = 0 /\ up = FALSE

-----------------------------------------------------------------------------
Open == ~up /\ up' = TRUE /\ UNCHANGED <<pending, table, lost, dropped>>

Accept(r) ==
    /\ Len(pending) < Capacity + MaxBatchRows
    /\ pending' = Append(pending, r)
    /\ UNCHANGED <<table, lost, dropped, up>>

Drop == dropped' = dropped + 1 /\ UNCHANGED <<pending, table, lost, up>>

\* A transaction commits.
Write ==
    /\ up
    /\ \E n \in 1..MaxBatchRows :
          /\ n <= Len(pending)
          /\ table' = table \o SubSeq(pending, 1, n)
          /\ pending' = SubSeq(pending, n + 1, Len(pending))
    /\ UNCHANGED <<lost, dropped, up>>

\* A row that could not be written even on its own.
GiveUp ==
    /\ up /\ pending # << >>
    /\ lost' = lost \cup {Head(pending)}
    /\ pending' = Tail(pending)
    /\ UNCHANGED <<table, dropped, up>>

Settle == Write \/ GiveUp

CloseReturns ==
    /\ up /\ pending = << >>
    /\ up' = FALSE
    /\ UNCHANGED <<pending, table, lost, dropped>>

Crash ==
    /\ pending' = << >> /\ dropped' = 0 /\ up' = FALSE
    /\ UNCHANGED <<table, lost>>

Next ==
    \/ Open \/ Drop \/ Settle \/ CloseReturns \/ Crash
    \/ \E r \in Row : Accept(r)

Spec == Init /\ [][Next]_logVars

=============================================================================
