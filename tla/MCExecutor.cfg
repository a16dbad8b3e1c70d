\* One peer and two frames, a ring and a batch of one row each.
CONSTANTS
    Clients = {1}
    SendRoom = 2
    MaxFrames = 2
    Capacity = 1
    MaxBatchRows = 1
SPECIFICATION ExecutorSpec
INVARIANTS
    EveryFireAccounted
    RowsFollowAcks
    
PROPERTIES
    SignalEndsProcess
CHECK_DEADLOCK FALSE
