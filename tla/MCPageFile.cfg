CONSTANTS
    MaxPages = 3
    MaxHandles = 2
    Contents = {fresh, changed}
    Fresh = fresh
    Free = free
    NotHeld = notheld
SPECIFICATION Spec
INVARIANTS
    TypeOK
    FreeListExact
    UsedPagesReachable
PROPERTIES
    ListsPreserved
    AllocateReturns
    RefinesPageSet
