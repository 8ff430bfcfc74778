CONSTANTS
    Conns = {c1, c2}
    Addrs = {x, y}
    NChunks = 1
    Modes <- RetryOnly
    RetryLifetime = 1
    NewTokenLifetime = 10
    PktThreshold = 2
    MaxTime = 2
    MaxRetry = 3
    MaxPto = 0
    MaxLose = 0
    MaxRebind = 1
    None = None
SPECIFICATION Spec
INVARIANTS
    NoSpuriousFailure
    SecretsAgree
    ValidatedOwnsAddress
CHECK_DEADLOCK FALSE
