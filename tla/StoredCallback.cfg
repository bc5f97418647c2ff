\* Two Lisp threads, one adopted thread; closures may call anything.
SPECIFICATION FairSpec
CONSTANTS
    Lisp = {l1, l2}
    Workers = {w}
    NoThread = NoThread
    MaxTokens = 2
    MadeBefore = 1
    MaxCalls = 4
    MaxDepth = 3
INVARIANT OnlyInstanceBlocks
INVARIANT HeldStaysRegistered
INVARIANT RunsItsOwn
PROPERTY EveryCallReturns
CHECK_DEADLOCK FALSE
