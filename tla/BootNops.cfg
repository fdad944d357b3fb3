SPECIFICATION BootSpec
CONSTANTS
    Byte = 17
    Cell = 2
    PpiBase = 2
    SpiBase = 4
    IrqCount = 8
    Earlycon = 7
    Blobs <- NopBlobs
INVARIANTS
    NopsSkipped
CHECK_DEADLOCK FALSE
