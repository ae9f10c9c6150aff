SPECIFICATION FairSpec
CONSTANTS
    Cap = 6
    HeaderLen = 2
    Layouts <- MCLayouts
    Cooperative = FALSE
    Saead = FALSE
    AllocFails = FALSE
    MaxPouches = 2
INVARIANTS
    TypeOK
    FramingExact
    NoLostWork
PROPERTY BlocksReachApplication
CHECK_DEADLOCK FALSE
