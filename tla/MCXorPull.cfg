SPECIFICATION FairSpec
CONSTANTS
    MinSize = 1
    MaxSize = 1
    Adaptive = FALSE
    AdaptSuccesses = 1
    ShrinkAfter = 1
    ShrinkStep = 0
    GrowFloor = 1
    NearGap = 0
    SlowFactor = 2
    PollerCount = 2
    KeepsOpen = {TRUE}
    ChannelCap = 1
    MinFailureLimit = 2
    RecordLens <- MCRecordLens
    MaxClaim = 3
INVARIANTS TypeOK EOFOnlyAtEnd NothingLeftAfterClose
PROPERTIES PipeSpec CallsReturn
CHECK_DEADLOCK FALSE
