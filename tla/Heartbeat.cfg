SPECIFICATION Spec
CONSTANTS
    Roles = {"client", "server"}
    Thresholds = {2, 3}
    GapLimit = 7
    IdleLimit = 16
    MaxDelay = 3
    PeerGap = 4
    Start = 40
    Jumps <- BackAndForth
    MaxTime = 24
INVARIANTS
    DeadPeerNoticed
    IdleEnds
    ResponsiveKept
CHECK_DEADLOCK FALSE
