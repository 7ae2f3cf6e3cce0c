SPECIFICATION FairSpec
CONSTANTS
    Streams = {s1}
    NoStream = NoStream
    Scopes <- LiveScopes
    EvCap = 2
    SendCap = 1
    VBufMax = 2
    DataCap = 1
    MaxWrites = 1
PROPERTIES
    ShutdownCompletes
    RoutineReturns
CHECK_DEADLOCK FALSE
