SPECIFICATION SizerSpec
CONSTANTS
    Workers = {w1}
    MinSize = 32
    MaxSize = 256
    Adaptive = TRUE
    AdaptSuccesses = 1
    ShrinkAfter = 2
    ShrinkStep = 0
    GrowFloor = 32
    NearGap = 64
    SlowFactor = 8
PROPERTIES DocumentedGrowth
