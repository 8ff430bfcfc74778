CONSTANTS
    SizeMax = 100000
    MinDgram = 24
    Mdpl = 24
    Overhead = 1
    AckLen = 1
    PingLen = 1
    ServerHelloLens = {2}
    FlightLens = {66}
    RxLens = {24}
    PktThreshold = 3
    MinCwnd = 240
    MaxRx = 2
    MaxPto = 1
    MaxLoss = 0
SPECIFICATION Spec
INVARIANT WireBytesBounded
CHECK_DEADLOCK FALSE
