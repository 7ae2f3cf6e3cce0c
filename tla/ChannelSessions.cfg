SPECIFICATION FairSpec
CONSTANTS
    Sides = {{"routine"}, {"rmux", "ws"}}
    Conns = 1
    CursorMod = 4
    MaxSessions = 3
    MaxCalls = 4
INVARIANTS
    LookupFindsOwn
    EntriesMatchRunning
PROPERTIES
    FailsOnlyWithoutSession
    ChannelRefilled
