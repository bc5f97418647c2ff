SPECIFICATION FairSpec
CONSTANTS
    Reqs = {r1}
    MaxInFlight = 1
    QueueChunks = 2
    MaxBody = 4
    MaxRead = 1
    ChunkSizes = {1, 2}
    ReadyCap = 1
    MaxBytes = 5
INVARIANTS
    BytesInOrder SlotsAccountedFor SuccessMeansComplete CapacityAccountedFor
PROPERTIES DoneIsFinal CancelEndsTask TerminalReleasesReader
CHECK_DEADLOCK FALSE
