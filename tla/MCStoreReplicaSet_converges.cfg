CONSTANTS
    Offers = {a}
    NoOffer = NoOffer
    Gone = Gone
    Self = 1
    Peer = 2
    InitialRole = "leader"
    Eligible = FALSE
    AutoPromote = FALSE
    Probing = TRUE
    MaxEpoch = 1
    MaxChanges = 2
    MaxFaults = 1
    MaxElections = 0
SPECIFICATION FairPlainSpec
PROPERTIES DescriptorsConverge Converges
CHECK_DEADLOCK FALSE
