CONSTANTS
    Offers = {a}
    NoOffer = NoOffer
    Gone = Gone
    Self = 2
    Peer = 1
    InitialRole = "offline"
    Eligible = TRUE
    AutoPromote = FALSE
    Probing = FALSE
    MaxEpoch = 2
    MaxChanges = 1
    MaxFaults = 0
    MaxElections = 1
SPECIFICATION Spec
PROPERTIES StepsDownForBetter
CHECK_DEADLOCK FALSE
