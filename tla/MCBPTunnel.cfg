SPECIFICATION FairSpec
CONSTANTS
    MinSize = 1
    MaxSize = 2
    Adaptive = TRUE
    AdaptSuccesses = 1
    ShrinkAfter = 1
    ShrinkStep = 0
    GrowFloor = 1
    NearGap = 0
    SlowFactor = 2
    ReconnectEvery = 1
    RequestCap = 1
    MinPipeline = 1
    MaxPipeline = 2
    Loads <- MCLoads
INVARIANTS TypeOK EOFOnlyAtEnd
PROPERTIES PipeSpec CallsReturn
CHECK_DEADLOCK FALSE
