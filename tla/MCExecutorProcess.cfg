\* Three processes, two of which may overlap, each ending by a crash, a failure or
\* a stop.
CONSTANTS
    Executors = {e1, e2, e3}
    MaxRunning = 2
    SchemaVersion = 6
    PythonVersion = 3
SPECIFICATION Spec
INVARIANTS
    SchemaComplete
    VersionBelongsToCreator
    RestartReachable
    ConnectableByOwnerOnly
SYMMETRY Symmetry
CHECK_DEADLOCK FALSE
