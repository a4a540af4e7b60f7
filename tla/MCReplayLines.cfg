\* See the README for what each bound makes possible.
CONSTANTS
    Keys = {k1, k2}
    Unkeyed = Unkeyed
    Limits = {0, 1, 2}
    HighWater = 1
    LowWater = 0
    GateEvents = 3
    MaxSeq = 8
    History = 1
    MaxOther = 2
    MaxDrops = 1
    EveryEvents = 2
    MaxItems = 1
    PruneRetried = FALSE
    MaxWrites = 3
    MaxRestarts = 2
    MaxFaults = 2
    SegmentSize = 2
    MaxBulk = 2
    MaxEmits = 4
    Served = 1
    MapEvents = 3
    MaxLines = 2
    MapDrops = 2
    MaxLives = 2
SPECIFICATION LinesSpec
INVARIANTS LinesTypeOK ArchiveHolds NumbersKeepTheirMeaning MirrorFollows NothingForgotten SpillIsHonest PublishedAsStored
PROPERTIES CloseLosesNothing CatchesUp
CHECK_DEADLOCK FALSE
