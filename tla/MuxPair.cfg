SPECIFICATION FairSpec
CONSTANTS
    Streams = {1}
    EvCap = 1
    SendCap = 1
    VBufMax = 2
    NetCap = 1
    DataCap = 1
    Report = 2
    Scopes <- PairScopes
INVARIANTS
    GridlockNeedsWindow
    LossHasCause
PROPERTIES
    WrittenArrives
    CloseReaches
CHECK_DEADLOCK FALSE
