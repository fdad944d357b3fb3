SPECIFICATION PartsSpec
CONSTANTS
    c1 = c1
    c2 = c2
    NoLock = NoLock
    Cores = {c1, c2}
    Locks = {"sched", "heap", "input"}
    Inner <- MCInner
    MaxAttempts = 1
    MaxDepth = 3
    Frequency = 6
    Hz = 2
    Nanos = 4
    Durations <- MCDurations
    MaxLatency = 7
    MaxCount = 26
    MaxOrder = 2
    Base = 6
    Count = 10
    Reserved = {7}
    MaxHeld = 3
SYMMETRY Symmetry
INVARIANTS
    MutualExclusion
    MaskRestored
    NoDeadlock
    SleepsAtLeast
    NoDrift
    Partition
    EntriesTrue
    Coalesced
    ListsSound
PROPERTIES
    ImplementsPageAllocator
\* Cores that panicked are parked, and the counter ends at its bound.
CHECK_DEADLOCK FALSE
