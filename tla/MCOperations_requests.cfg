SPECIFICATION OperationsSpec
CONSTANTS
    Parts = {"allocations", "files", "deployment", "settings", "manifests", "configuration"}
    a = a
    b = b
    Servers = {a, b}
    NoServer = none
    Ports = {1, 2, 3}
    PortsNeeded <- MCPortsNeeded
    HostMemory <- MCHostMemory
    MinHeadroom = 1
    OverheadPct = 10
    Sizes = {0, 1, 2}
    MaxRequests = 5
    Names = {"world", "config", "engine", "mod.jar", "mod.jar.disabled"}
    Toggled <- MCToggled
    World = "world"
    Preserved = {"world", "config"}
    Engine = {"engine"}
    Texts = {"engine"}
    Editors = {e1, e2}
    MaxWrites = 2
    MaxPrepares = 2
    MaxKills = 1
    Games = {"minecraft", "valheim"}
    Editions <- MCEditions
    Platform <- MCPlatform
    NeedsEula = {"paper", "pack"}
    Packs = {"pack"}
    NoGame = none
    NoEdition = none
    MaxChoices = 3
    MaxSubmissions = 2
    Keys = {"pvp", "friendly", "password"}
    Default <- MCDefault
    ShowWhen <- MCShowWhen
    Enterable <- MCEnterable
    Secret = {"password"}
    Required = {"password"}
    InFile = {"pvp", "friendly"}
    Own = "own"
    MaxSaves = 2
    BuiltIn <- MCBuiltIn
    Slots = 1
    Offered <- MCOffered
    AtFirst <- MCAtFirst
    Decisive = {"Rcon", "Password", "sf_use_perf_threads", "bEnablePlayerToPlayerDamage"}
    Dashed = {"max-players"}
    MaxChanges = 2
    Chosen = {"N", "M"}
    OwnNames = {"U"}
    MaxBroken = 0
INVARIANTS  ReadyPlansHaveTheirCandidate CreatesOneGame StartsComplete OneLineFieldsSurvive
PROPERTIES GrowsOnlyIfItFits UpdatesKeepSaves DocumentsSurvive SavesOnlyWhatWasChanged
CHECK_DEADLOCK FALSE
SYMMETRY Symmetry
