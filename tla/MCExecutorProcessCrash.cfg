\* A process that ends between the schema and the version, and another.
CONSTANTS
    Executors = {e1, e2}
    MaxRunning = 1
    SchemaVersion = 6
    PythonVersion = 3
SPECIFICATION Spec
INVARIANTS
    OwnDatabaseIsStamped
CHECK_DEADLOCK FALSE
