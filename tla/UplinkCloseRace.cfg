SPECIFICATION Spec
CONSTANTS
    Apps = {a1, a2}
    EntryLens = {1}
    BlockSpace = 1
    EventDepth = 1
    Cooperative = TRUE
    EarlyFinish = FALSE
    Failures = FALSE
    MaxWrites = 2
    MaxSessions = 1
INVARIANT CloseDelivers
CHECK_DEADLOCK FALSE
