SPECIFICATION Spec
CONSTANTS
    Handles = {h1, h2, h3}
    StreamsMax = 2
    IdMod = 4
    Cap = 2
    HeaderLen = 1
    WriteLens = {1, 3}
    AllocFails = TRUE
    MaxBytes = 4
    MaxOpens = 3
    MaxSessions = 1
SYMMETRY Symmetry
INVARIANTS
    TypeOK
    StreamsCounted
    WellFramed
    BytesAccounted
CHECK_DEADLOCK FALSE
