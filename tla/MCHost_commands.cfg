SPECIFICATION FairHostSpec
CONSTANTS
    Parts = {"lease", "commands"}
    Games = {g1, g2}
    NoGame = none
    Watched = {}
    MaxSessions = 2
    MaxKills = 2
    MaxDeaths = 1
    MaxErrors = 1
    Releases = {1, 2, 3}
    Legacy = 1
    SchemaOf <- MCSchemaOf
    Compatible <- MCCompatible
    Libraries = {1, 2}
    MaxWrites = 1
    MaxFaults = 2
    MaxCommands = 5
INVARIANTS ColdUntilExpiry GamesBroughtBack RollbackIsSound
PROPERTIES MaintenanceEnds BackedUpBeforeChange
CHECK_DEADLOCK FALSE
