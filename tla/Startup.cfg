SPECIFICATION StartupSpec
CONSTANTS
    Byte = 17
    Cell = 2
    PpiBase = 2
    SpiBase = 4
    IrqCount = 8
    Earlycon = 7
    Blobs <- MCBlobs
    PageSize = 2
    Memories <- MCMemories
    Claims <- MCClaims
    MaxReserved = 3
    EntrySize = 1
    MaxPages = 5
INVARIANTS
    BoardIsTree
    SeedsFree
    EntriesPlaced
PROPERTIES
    InterruptsServed
    Terminates
\* kmain may halt, and mm::init ends.
CHECK_DEADLOCK FALSE
