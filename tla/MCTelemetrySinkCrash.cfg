\* A crash with a batch of one row in the writer's transaction and rows in the ring.
CONSTANTS
    Capacity = 2
    MaxBatchRows = 1
    CorrelationIds = {a}
    MaxRecords = 3
    MaxOpens = 1
    MaxFaults = 0
    MaxCrashes = 1
SPECIFICATION MainSpec
PROPERTIES
    CrashLosesAtMostOneBatch
CHECK_DEADLOCK FALSE
