SPECIFICATION FairSpec
CONSTANTS
    Values = {"device_cert", "serial"}
    Size <- MCSize
    ReadLens = {1, 2}
    Fragments = 2
    MaxPouch = 2
    MaxPouches = 2
    MaxVersions = 2
    MaxDrops = 1
INVARIANTS
    TypeOK
    WholeTransfers
    WritesUnmixed
    SessionOwned
PROPERTIES
    GatewayServed
CHECK_DEADLOCK FALSE
