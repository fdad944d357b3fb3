SPECIFICATION Spec
CONSTANTS
    Pages = {0, 1, 2}
    PageSize = 6
    Sizes <- MCSizes
    MaxOrder = 1
    Layouts <- MCLayouts
    MaxLive = 8
INVARIANTS
    SlotsAccounted
    PartialLists
    FreeAssertsHold
PROPERTIES
    ImplementsObjectAllocator
