CONSTANTS
    Offers = {a, b}
    NoOffer = NoOffer
    Gone = Gone
    Self = 1
    Peer = 2
    InitialRole = "offline"
    Eligible = FALSE
    AutoPromote = FALSE
    Probing = TRUE
    MaxEpoch = 1
    MaxChanges = 1
    MaxFaults = 0
    MaxElections = 0
SPECIFICATION FairSpec
PROPERTIES FollowerIsFed
CHECK_DEADLOCK FALSE
