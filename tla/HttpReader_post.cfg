SPECIFICATION FairSpec
CONSTANTS
    Requests = 1
    HeaderLens = {2}
    BodyLens = {1}
    BufSize = 4
    Slack = 1
    Pipelines = {FALSE}
PROPERTIES
    BodyPassedOn
CHECK_DEADLOCK FALSE
