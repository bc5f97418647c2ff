SPECIFICATION Spec
CONSTANTS
    Reqs = {r1}
    MaxInFlight = 1
    QueueChunks = 1
    MaxBody = 0
    MaxRead = 1
    ChunkSizes = {1}
    ReadyCap = 1
    MaxBytes = 1
INVARIANTS
    SettledMeansCapacity
CHECK_DEADLOCK FALSE
