CONSTANTS
    IsServer = FALSE
    MaxRxAckRanges = 1
    FrameRanges = 1
    PktsBeforeAck = 2
    MaxAckDelay = 1
    MaxPn <- MostlyApp
    MaxOwn <- NoneOfHandshake
    MaxBatch = 2
SPECIFICATION Spec
CHECK_DEADLOCK FALSE
INVARIANTS
    TypeOK
    SeenIsTracked
    AcksOnlyReceived
    OwedAckScheduled
