SPECIFICATION FairSpec
CONSTANTS
    Requests = 3
    HeaderLens = {3, 4}
    BodyLens = {2}
    BufSize = 3
    Slack = 2
    Pipelines = {TRUE, FALSE}
INVARIANTS
    MisreadHasCause
    EarlyEndHasCause
    PanicHasCause
PROPERTIES
    AllPassedOn
CHECK_DEADLOCK FALSE
