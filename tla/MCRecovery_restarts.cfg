SPECIFICATION RecoverySpec
CONSTANTS
    r1 = r1  r2 = r2  e1 = e1  e2 = e2  c1 = c1  c2 = c2
    Releases <- MCReleases
    Edits = {e1}
    Ids <- MCIds
    NoId = NoId
    Absent = Absent
    Torn = Torn
    Callers = {"inline", "route"}
    MaxFileKills = 1
    MaxFileErrors = 1
    MaxAttempts = 3
    MaxKills = 2
    MaxErrors = 1
INVARIANT EndedAttemptsInert
INVARIANT FilesAndPackKept
PROPERTY OperationsEnd
PROPERTY AttemptsResolve
CHECK_DEADLOCK FALSE
