SPECIFICATION HostSpec
CONSTANTS
    Parts = {"lease"}
    Games = {g1, g2}
    NoGame = none
    Watched = {g1, g2}
    MaxSessions = 1
    MaxKills = 2
    MaxDeaths = 0
    MaxErrors = 0
    Releases = {1, 2, 3}
    Legacy = 1
    SchemaOf <- MCSchemaOf
    Compatible <- MCCompatible
    Libraries = {1, 2}
    MaxWrites = 0
    MaxFaults = 0
    MaxCommands = 0
PROPERTY StopsRespected
CHECK_DEADLOCK FALSE
