SPECIFICATION FairSpec
CONSTANTS
    MinSize = 1
    MaxSize = 3
    Adaptive = TRUE
    AdaptSuccesses = 1
    ShrinkAfter = 1
    ShrinkStep = 0
    GrowFloor = 1
    NearGap = 1
    SlowFactor = 2
    KeepsOpen = {TRUE, FALSE}
    ControlAttempts = 2
    MinFailureLimit = 2
    StreamLen = 4
    MaxLate = 1
INVARIANTS TypeOK
PROPERTIES PipeSpec CallsReturn
CHECK_DEADLOCK FALSE
