CONSTANTS
    IsServer = FALSE
    MaxRxAckRanges = 1
    FrameRanges = 1
    PktsBeforeAck = 2
    MaxAckDelay = 2
    MaxPn <- MostlyApp
    MaxOwn <- NoneOfHandshake
    MaxBatch = 2
SPECIFICATION Spec
CHECK_DEADLOCK FALSE
INVARIANT NoPnProcessedTwice
