CONSTANTS
    Conns = {c1}
    Addrs = {x}
    NChunks = 2
    Modes <- AllModes
    RetryLifetime = 1
    NewTokenLifetime = 10
    PktThreshold = 1
    MaxTime = 0
    MaxRetry = 3
    MaxPto = 1
    MaxLose = 1
    MaxRebind = 0
    None = None
SPECIFICATION FairSpec
INVARIANTS
    TypeOK
    NoSpuriousFailure
    OneChannelPerConn
    SecretsAgree
    RepliesReachClient
PROPERTY
    HandshakeCompletes
CHECK_DEADLOCK FALSE
