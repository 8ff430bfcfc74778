CONSTANTS
    Roles = {TRUE, FALSE}
    PktThreshold = 2
    MaxPtoCount = 3
    MaxAckDelay = 1
    Estimates <- TwoEstimates
    MaxTime = 3
    MaxPkts = 2
SPECIFICATION Spec
CHECK_DEADLOCK FALSE
INVARIANTS
    TypeOK
    CountersMatch
    TimerArmed
    TimeoutAssertion
PROPERTY ProbesInLiveSpace
