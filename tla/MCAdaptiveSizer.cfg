SPECIFICATION SizerSpec
CONSTANTS
    Workers = {w1, w2}
    MinSize = 32
    MaxSize = 128
    Adaptive = TRUE
    AdaptSuccesses = 1
    ShrinkAfter = 2
    ShrinkStep = 0
    GrowFloor = 32
    NearGap = 64
    SlowFactor = 8
SYMMETRY Symmetry
INVARIANTS SizerTypeOK Bracketed
PROPERTIES NeverJumpsPastKnownBad
