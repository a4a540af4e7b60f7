SPECIFICATION AuthoritySpec
CONSTANTS
    Accounts = {a1, a2}
    Requests = {r1, r2}
    KeepMs = 1
    Bounds <- AllBounds
    MaxNow = 1
    MaxRuns = 3
    MaxDepth = 2
    Clients = {client}
    Keys = {key}
    MaxReign = 2
    MaxLinks = 1
    MaxServed = 1
    Offers = {a, b}
    NoOffer = NoOffer
    Gone = Gone
    Self = 1
    Peer = 2
    InitialRole = "offline"
    Eligible = TRUE
    AutoPromote = TRUE
    Probing = FALSE
    MaxEpoch = 2
    MaxChanges = 0
    MaxFaults = 1
    MaxElections = 1
SYMMETRY Symmetry
CHECK_DEADLOCK FALSE
INVARIANTS AuthorityTypeOK LineIsIndex RoleIsWhole
PROPERTIES AtMostOnce InFlightKeepsItsReceipt BoundsRestored LeadershipIsRightful FactsSurvive
