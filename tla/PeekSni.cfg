SPECIFICATION Spec
CONSTANTS
    Fixed = 2
    SidLens = {0, 1, 5}
    CipherLens = {0, 2}
    MaxExts = 2
INVARIANTS
    FoundIsFirst
    PanicHasCause
CHECK_DEADLOCK FALSE
