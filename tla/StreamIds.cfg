SPECIFICATION Spec
CONSTANTS
    Handles = {h1, h2, h3, h4}
    StreamsMax = 4
    IdMod = 4
    Cap = 2
    HeaderLen = 1
    WriteLens = {1}
    AllocFails = FALSE
    MaxBytes = 1
    MaxOpens = 4
    MaxSessions = 0
SYMMETRY Symmetry
INVARIANT DistinctIds
CHECK_DEADLOCK FALSE
