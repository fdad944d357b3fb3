SPECIFICATION Spec
CONSTANTS
    N = 4
    Spawns = 2
    HeapStacks = 3
    FifoSize = 1
    BufSize = 1
    MaxBytes = 1
    EarlyTick = TRUE
INVARIANTS
    NoPanic
