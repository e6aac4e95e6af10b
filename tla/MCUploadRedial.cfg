SPECIFICATION Spec
CONSTANTS
    MinSize = 1
    MaxSize = 2
    Adaptive = TRUE
    AdaptSuccesses = 1
    ShrinkAfter = 1
    ShrinkStep = 0
    GrowFloor = 1
    NearGap = 0
    SlowFactor = 2
    ReconnectEvery = 1
    RequestCap = 1
    MinFailureLimit = 2
    StreamLen = 3
    MaxOrphans = 2
PROPERTIES NoRedialWhenDead
CHECK_DEADLOCK FALSE
