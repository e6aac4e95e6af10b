SPECIFICATION CarrierFairSpec
CONSTANTS
    Writers = {w1, w2}
    FlushBytes = 2
    MaxBuffered = 4
    StreamLen = 7
INVARIANTS CarrierTypeOK NoMissedWakeup DrainedOnClose
PROPERTIES PipeSpec CarrierCallsReturn
CHECK_DEADLOCK FALSE
