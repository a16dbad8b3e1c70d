\* A ring asked for three rows (four slots) on four-bit counters, far enough for
\* the counters to wrap once with every occupancy.
CONSTANTS
    RequestedCapacity = 3
    Bits = 4
    Capacity = 4
    Modulus = 16
    MaxRows = 21
SPECIFICATION Spec
INVARIANTS
    TypeOK
    NoDataRace
    SizeWithinCapacity
PROPERTIES
    ImplementsQueue
