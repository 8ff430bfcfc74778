CONSTANTS
    IsServer = FALSE
    MaxRxAckRanges = 3
    FrameRanges = 2
    PktsBeforeAck = 2
    MaxAckDelay = 1
    MaxPn <- ManyRanges
    MaxOwn <- NoneOfHandshake
    MaxBatch = 1
SPECIFICATION Spec
CHECK_DEADLOCK FALSE
PROPERTY ReportsAllTracked
