SPECIFICATION FairSpec
CONSTANTS
    MinSize = 1
    MaxSize = 2
    Adaptive = TRUE
    AdaptSuccesses = 1
    ShrinkAfter = 1
    ShrinkStep = 0
    GrowFloor = 1
    NearGap = 0
    SlowFactor = 2
    ReconnectEvery = 2
    RequestCap = 2
    MinPipeline = 2
    MaxPipeline = 3
    BatchBytes = 3
    MinFailureLimit = 2
    StreamLen = 3
INVARIANTS TypeOK EOFOnlyAtEnd
PROPERTIES PipeSpec CallsReturn
CHECK_DEADLOCK FALSE
