SPECIFICATION Spec
CONSTANTS
    Bodies = {b1, b2, b3}
    PageSize = 2
    IndexSpan = 8
    SeedSpan = 4
    MaxSlots = 4
    MaxAdds = 7
INVARIANTS
    FreeListExact
    StaleRejected
PROPERTY ImplementsHandleTable
CHECK_DEADLOCK FALSE
