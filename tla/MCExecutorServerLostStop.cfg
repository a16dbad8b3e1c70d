\* A stop from another thread that may miss the latest store to connection_fd_.
CONSTANTS
    Clients = {1}
    SendRoom = 1
    MaxFrames = 1
SPECIFICATION Spec
PROPERTIES
    StopAlwaysTerminates
CHECK_DEADLOCK FALSE
