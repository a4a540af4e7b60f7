\* See the README for what each bound makes possible.
CONSTANTS
    FirstSeq = 1
    MaxSeq = 4
    History = 1
    KeepMs = FALSE
    HasKeyframe = TRUE
    CatchUpMode = "frame"
    GapPolicy = "keyframe"
    ForeignSince = 9
    CallbackThrows = FALSE
    MaxDrops = 2
    Routes = {a, b}
    FrameRoutes = {a}
    LateRoutes = {a}
    Callbacks = {{"throws"}, {"reenters"}}
    MaxSwitches = 1
    Foreign = 9
    OfflineEvents = 1
    MaxTurns = 2
SPECIFICATION ConsumersSpec
INVARIANTS TypeOK NoHole LiveIsComplete OthersAreComplete
PROPERTIES NeverBackwards GapsAreTerminal EveryoneKeepsPromise EveryoneCatchesUp SwitchesSettle
CHECK_DEADLOCK FALSE
