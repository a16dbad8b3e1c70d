\* Two peers, two frames, a socket buffer too small for an ack, and a stop from a
\* handler or from another thread.
CONSTANTS
    Clients = {1, 2}
    SendRoom = 1
    MaxFrames = 2
SPECIFICATION Spec
INVARIANTS
    AckThenFireOnce
    StatsExplainFires
PROPERTIES
    StopTerminates
    DisconnectReleasesServer
    StopHitsItsConnection
    PeersAreServed
CHECK_DEADLOCK FALSE
