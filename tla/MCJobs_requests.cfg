SPECIFICATION Spec
CONSTANTS
    clock = clock
    crash = crash
    Clocks <- MCClocks
    Triggers <- MCTriggers
    Cooldown = 1
    QueueLimit = 1
    MaxTime = 2
    MaxEvents = 2
    MaxRequests = 1
    MaxStops = 1
    Servers = {"a", "b"}
    Ports = {1, 2, 3}
    LoopbackOnly = {3}
    Vias <- MCVias
    FirstVia <- MCFirstVia
    FirstPort <- MCFirstPort
    MaxPower = 2
    MaxFaults = 1
    Addresses = {"a", "b"}
    Views = {"serverPage", "overview", "systemPage", "networkPage", "installation", "shareDialog", "useResource", "files", "resources"}
    MaxChanges = 1
    MaxErrors = 1
    MaxReads = 3
    MaxMoves = 1
INVARIANTS NothingForgotten KnowsItsRules
PROPERTIES ClaimsAreDue ForeignRulesKept RulesSettle CatchesUp
CHECK_DEADLOCK FALSE
