\* One cell, two activations that use, release or interrupt each other.
SPECIFICATION FairSpec
CONSTANTS
    Crates = {k1}
    Cells = {c1}
    Acts = {a1, a2}
    NoAct = NoAct
    NoCell = NoCell
    MaxArgs = 2
    MaxGen = 2
    MaxSession = 1
    MaxInterrupts = 1
INVARIANTS ForeignCallSafe FreedAtMostOnce
PROPERTIES FreedByItsAllocator ImplementsOwnedBox ReleaseReachesRust
CHECK_DEADLOCK FALSE
