SPECIFICATION FairSpec
CHECK_DEADLOCK FALSE
CONSTANTS
    c1 = c1  c2 = c2  c3 = c3  c4 = c4
    Ids <- MCIds
    NoId = NoId
    AutoRestart = TRUE
    MaxRequests = 1
    MaxKills = 1
    MaxErrors = 1
PROPERTY OperationsEnd
PROPERTY CrashesHandled
INVARIANT ThreeAttempts
INVARIANT TypeOK
INVARIANT SingleContainer
