SPECIFICATION Spec
CONSTANTS
    r1 = r1  r2 = r2  e1 = e1  e2 = e2  c1 = c1  c2 = c2
    Releases <- MCReleases
    Edits <- MCEdits
    Ids <- MCIds
    NoId = NoId
    Absent = Absent
    Torn = Torn
    Callers = {"inline", "route"}
    MaxKills = 2
    MaxErrors = 1
PROPERTY ReplacesAtomically
INVARIANT TypeOK
INVARIANT FilesMatchConfiguration
PROPERTY NeverBesideRunningGame
CONSTRAINT RowsAreFresh
