SPECIFICATION Spec
CONSTANTS
    Users = {o1, o2, p}
    Owners = {o1, o2}
    SecondFactor = {o1}
    Invites = {i1}
    Requests = {r1, r2}
    Tickets = {t1}
    NoOne = NoOne
    OpenRegistration = TRUE
    MaxTries = 2
    Window = 1
    MaxTime = 1
    MaxVersions = 3
    MaxAsks = 3
    MaxFaults = 1
SYMMETRY Symmetry
INVARIANT FactorOnce
INVARIANT OwnerRemains
PROPERTY InvitesHonoured
CHECK_DEADLOCK FALSE
