\* A size_t of three bits; up to three wakes, a socket buffer too small for an ack,
\* and a stop() that may miss the latest store to connection_fd_; two keys to load
\* one after the other, one Key that cannot be allocated, and two requests to sign.
CONSTANTS
    Clients = {1}
    Poller = 1
    SendRoom = 1
    MaxFrames = 3
    SizeMod = 8
    MaxReserve = 3
    RsaKeys = {"rsa1", "rsa2"}
    Requests <- TwoRequests
    MaxLeaks = 1
SPECIFICATION MCSpec
INVARIANTS
    RoundtripsAddUp
    SignaturesAreOfThisRequest
    OwnsWhatItHolds
    ExitZeroMeansMeasured
PROPERTIES
    BenchmarkExits
CHECK_DEADLOCK FALSE
