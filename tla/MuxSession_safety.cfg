SPECIFICATION Spec
CONSTANTS
    Streams = {s1, s2}
    NoStream = NoStream
    Scopes <- SafeScopes
    EvCap = 2
    SendCap = 1
    VBufMax = 2
    DataCap = 1
    MaxWrites = 1
SYMMETRY StreamSymmetry
INVARIANTS
    SynFirst
    PendingHasCause
    OrphansWerePending
CHECK_DEADLOCK FALSE
