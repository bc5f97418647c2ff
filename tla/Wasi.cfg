\* Two threads on one handle; a guest with four instructions.
SPECIFICATION FairSpec
CONSTANTS
    Threads = {t1, t2}
    NoThread = NoThread
    EnvKeys = {"PATH"}
    Inputs = {"arg", "stdin"}
    Fuel = 4
    MemoryLimit = 3
    OpenDescriptors = 2
    Second = 1
    MaxCallTime = 2
    MaxWrite = 2
INVARIANT TypeOK
INVARIANT BudgetsHold
INVARIANT SpentIsReleased
PROPERTY SpentStaysSpent
PROPERTY EveryCallReturns
