SPECIFICATION Spec
CONSTANTS
    PageSize = 2
    SlotCount = 3
    MaxTables = 8
    Boards <- MCBoards
INVARIANTS
    TablesAreTree
    MappedAsPlanned
    RefusesForCause
PROPERTIES
    ImplementsAddressSpace
CHECK_DEADLOCK FALSE
