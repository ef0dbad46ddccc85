SPECIFICATION Spec
CHECK_DEADLOCK FALSE
CONSTANTS
    c1 = c1  c2 = c2  c3 = c3  c4 = c4
    Ids <- MCIds
    NoId = NoId
    AutoRestart = TRUE
    MaxRequests = 2
    MaxKills = 0
    MaxErrors = 0
PROPERTY ManualStopsStayStopped
