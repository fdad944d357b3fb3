SPECIFICATION Spec
CONSTANTS
    N = 4
    Spawns = 4
    HeapStacks = 3
    FifoSize = 2
    BufSize = 2
    MaxBytes = 7
    EarlyTick = FALSE
INVARIANTS
    TypeOK
    NoPanic
    MaskDiscipline
    BoundedNesting
    OnOwnStack
    EndedBeforeSwitch
    WaitersAreBlocked
    NoLostWakeup
    NoStrandedByte
    WorkConserving
    StacksAccounted
