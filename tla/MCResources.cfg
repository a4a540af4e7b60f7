CONSTANTS
    MaxEntries = 3
    Keys = {k1, k2}
    MaxNews = 4
    Accounts = {a, b}
    Viewers = {b}
    MaxFiles = 2
    MaxJobs = 1
    MaxReports = 1
    Owners = {a, b}
    MaxOpens = 2
    MaxTurns = 2
    Consumers = {a, b}
    MaxCalls = 2
    MaxFaults = 1
    Window = 2
    AckEvery = 2
    HighWater = 2
    LowWater = 1
    Pushers = 2
    MaxFrames = 4
    MaxArtifacts = 2
    Reapers = {a}
    Hashes = {1, 2, 4}
    SizeOf <- Sizes
    MaxBytes = 3
    MaxTrips = 3
    MaxClears = 1
SPECIFICATION ResourcesSpec
INVARIANTS ResourcesTypeOK SettledMeansGone ListedAreCurrent NothingUnheard FilesAgree CallsKeepTheirIds ListenersAreFed WindowHolds FramesBeforeResponse
PROPERTIES DisposalInOrder EverythingSettles FinalStays
CHECK_DEADLOCK FALSE
