SPECIFICATION Spec
CONSTANTS
    MaxEntries = 5
    MaxMoves = 3
    MaxClicks = 3
    MaxEdits = 2
    MaxWithdrawn = 1
    Games = 2
    MaxLines = 3
    Kept = 2
    Batch = 2
    MaxBuffer = 1
    MaxLosses = 1
    People = {"owner", "manager", "member"}
    ServerOwner = "owner"
    Scopes <- MCScopes
    Starts <- MCStarts
    PanelRoles <- MCPanelRoles
    Ticked = {"mods", "subusers"}
    MaxRequests = 2
INVARIANTS UnsavedWorkGuarded ScreenIsALog OffersHonoured
PROPERTIES GrantsWereHeld
CHECK_DEADLOCK FALSE
