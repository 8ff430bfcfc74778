CONSTANTS
    Conns = {c1, c2}
    Addrs = {x}
    NChunks = 1
    Modes <- RetryOnly
    RetryLifetime = 1
    NewTokenLifetime = 10
    PktThreshold = 2
    MaxTime = 0
    MaxRetry = 2
    MaxPto = 0
    MaxLose = 0
    MaxRebind = 0
    None = None
SPECIFICATION Spec
INVARIANT NewTokenAccepted
CHECK_DEADLOCK FALSE
