SPECIFICATION PathSpec
CONSTANTS
    Workers = {w1, w2}
    MinSize = 4
    MaxSize = 24
    Adaptive = TRUE
    AdaptSuccesses = 1
    ShrinkAfter = 1
    ShrinkStep = 3
    GrowFloor = 4
    NearGap = 8
    SlowFactor = 2
    MaxChanges = 1
INVARIANTS BracketIsTrue
PROPERTIES FindsTheLimit
