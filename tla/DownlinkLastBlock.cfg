SPECIFICATION Spec
CONSTANTS
    Cap = 8
    HeaderLen = 2
    Layouts <- MCSmallLayouts
    Cooperative = TRUE
    Saead = FALSE
    AllocFails = FALSE
    MaxPouches = 1
INVARIANT PouchIsDelivered
CHECK_DEADLOCK FALSE
