SPECIFICATION Spec
CONSTANTS
    Cap = 8
    HeaderLen = 2
    Layouts <- MCLargeLayouts
    Cooperative = TRUE
    Saead = TRUE
    AllocFails = TRUE
    MaxPouches = 2
INVARIANTS
    NoInvalidAccess
    BuffersAccounted
    BlocksInOrder
CHECK_DEADLOCK FALSE
