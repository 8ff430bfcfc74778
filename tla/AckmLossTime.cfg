CONSTANTS
    Roles = {TRUE, FALSE}
    PktThreshold = 2
    MaxPtoCount = 3
    MaxAckDelay = 1
    Estimates <- TwoEstimates
    MaxTime = 4
    MaxPkts = 2
SPECIFICATION Spec
CHECK_DEADLOCK FALSE
INVARIANT LossTimeHonoured
