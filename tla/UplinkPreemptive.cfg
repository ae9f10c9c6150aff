SPECIFICATION FairSpec
CONSTANTS
    Apps = {a1, a2}
    EntryLens = {1}
    BlockSpace = 1
    EventDepth = 1
    Cooperative = FALSE
    EarlyFinish = FALSE
    Failures = FALSE
    MaxWrites = 2
    MaxSessions = 2
INVARIANTS
    TypeOK
    NoLostWakeup
    EndedIsDrained
PROPERTIES
    SessionsProgress
    ImplementsPouch
CHECK_DEADLOCK FALSE
