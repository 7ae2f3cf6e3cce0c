SPECIFICATION FairSpec
CONSTANTS
    Window = 5
    MinReport = 3
    Chunk = 2
    Peek = 5
    DataCap = 1
    QueueCap = 1
    WireCap = 1
    MaxBytes = 9
INVARIANTS
    InOrder
    StallHasCause
    PanicOnlyOnFirstFrame
    FlowInv
PROPERTIES
    WakeupLostOnlyByStaleCheck
    ImplementsPipe
    OfferReturns
    CloseReachesPeer
    ParkedWriterRuns
CHECK_DEADLOCK FALSE
