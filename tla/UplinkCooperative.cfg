SPECIFICATION Spec
CONSTANTS
    Apps = {a1, a2}
    EntryLens = {1, 3}
    BlockSpace = 2
    EventDepth = 2
    Cooperative = TRUE
    EarlyFinish = TRUE
    Failures = TRUE
    MaxWrites = 3
    MaxSessions = 2
SYMMETRY Symmetry
INVARIANTS
    WellFormedPouch
    EntriesInOrder
    BuffersAccounted
    NothingLost
    EventsAlternate
PROPERTY ImplementsPouch
CHECK_DEADLOCK FALSE
