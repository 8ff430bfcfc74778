CONSTANTS
    SizeMax = 29
    MinDgram = 5
    Mdpl = 8
    Overhead = 1
    AckLen = 1
    PingLen = 1
    ServerHelloLens = {2}
    FlightLens = {12}
    RxLens = {1, 5}
    PktThreshold = 3
    MinCwnd = 16
    MaxRx = 3
    MaxPto = 1
    MaxLoss = 1
SPECIFICATION Spec
INVARIANTS
    TypeOK
    SentinelOnlyByValidation
    WindowBound
    NoCryptoLost
    NoCryptoDuplicated
    PnsUnique
PROPERTIES
    ProbeServedBySending
    InitialPaddedIfUnlimited
    AckRequestKept
    ImplementsSender
CHECK_DEADLOCK FALSE
