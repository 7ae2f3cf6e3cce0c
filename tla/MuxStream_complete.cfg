SPECIFICATION Spec
CONSTANTS
    Window = 2
    MinReport = 2
    Chunk = 1
    Peek = 1
    DataCap = 1
    QueueCap = 2
    WireCap = 1
    MaxBytes = 2
INVARIANT
    TransferComplete
CHECK_DEADLOCK FALSE
