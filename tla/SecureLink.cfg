SPECIFICATION FairSpec
CONSTANTS
    Transports = {"tcp", "ws"}
    Methods = {"aes128gcm", "chacha20poly1305", "none"}
    HeaderLen = 2
    TagLen = 1
    MinRead = 3
    Slack = 1
    LenMod = 8
    AuthLen = 2
    Bodies = {5}
    Credits = {3}
    Rand = 3
    MaxEvents <- ClientTwice
    MaxRetries = 1
INVARIANTS
    InStep
    WaitsOnlyWithoutFrame
PROPERTIES
    ImplementsLink
    EventsArrive
    AuthEnds
CHECK_DEADLOCK FALSE
