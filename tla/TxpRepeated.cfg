CONSTANTS
    SizeMax = 100000
    MinDgram = 8
    Mdpl = 8
    Overhead = 1
    AckLen = 1
    PingLen = 1
    ServerHelloLens = {2}
    FlightLens = {25}
    RxLens = {12}
    PktThreshold = 3
    MinCwnd = 100
    MaxRx = 2
    MaxPto = 1
    MaxLoss = 3
SPECIFICATION Spec
INVARIANTS
    FramesEnumerateRanges
CHECK_DEADLOCK FALSE
