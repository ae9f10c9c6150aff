SPECIFICATION Spec
CONSTANTS
    Headers <- MCHeaders
    DeviceAlg = "GCM"
    DeviceLog = 9
    PouchBlocks = 3
    NonceMod = 2
    MaxCerts = 2
    KeySlots = 3
    MaxSessions = 2
    MaxBlocks = 3
    MaxStarts = 2
INVARIANTS
    TypeOK
    NonceUnique
    PouchDecryptable
    DecryptedInSequence
    KeyMatchesSession
PROPERTY NoReplayOfSession
CHECK_DEADLOCK FALSE
