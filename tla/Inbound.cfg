SPECIFICATION FairSpec
CONSTANTS
    Kinds = {"socks5", "socks4", "tls", "http", "connect", "other"}
    Openings <- MCOpenings
    Pacs <- MCPacs
    Channels = {"c1", "c2"}
    MaxChanges = 1
INVARIANTS
    PayloadKept
    TurnedDownHasCause
    DirectIsReached
PROPERTIES
    HandshakeEnds
CHECK_DEADLOCK FALSE
