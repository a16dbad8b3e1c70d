\* Three rows through a ring of two, batches of two, an open after a close, one
\* SQLite statement that fails when it should not, and one crash and restart.
CONSTANTS
    Capacity = 2
    MaxBatchRows = 2
    CorrelationIds = {a}
    MaxRecords = 3
    MaxOpens = 2
    MaxFaults = 1
    MaxCrashes = 1
SPECIFICATION Spec
INVARIANTS
    NoRowTwiceOrOutOfOrder
    OnlyBadRowsLost
    TransactionsAreClosed
    StatsAddUp
PROPERTIES
    CloseDrains
    CloseReturns
    ImplementsLog
    RowsReachTable
CHECK_DEADLOCK FALSE
