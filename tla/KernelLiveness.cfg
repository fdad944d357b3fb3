SPECIFICATION FairSpec
CONSTANTS
    N = 4
    Spawns = 2
    HeapStacks = 3
    FifoSize = 2
    BufSize = 2
    MaxBytes = 3
    EarlyTick = FALSE
PROPERTIES
    ReadyRuns
    DeadReclaimed
    ImplementsChannel
