CONSTANTS
    Offers = {a, b}
    NoOffer = NoOffer
    Gone = Gone
    Self = 1
    Peer = 2
    InitialRole = "offline"
    Eligible = FALSE
    AutoPromote = FALSE
    Probing = FALSE
    MaxEpoch = 1
    MaxChanges = 1
    MaxFaults = 1
    MaxElections = 0
SPECIFICATION Spec
PROPERTIES FailedHandoffKeepsRoute
CHECK_DEADLOCK FALSE
