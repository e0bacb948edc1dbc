SPECIFICATION MCFairSpec
CONSTANTS
    Events = {e1, e2}
    Workers = {w1, w2}
    NoMessage = NoMessage
    MaxSends = 2
    MaxRetries = 2
    MaxFaults = 1
INVARIANTS
    TypeOK
    AnsweredIsKept
    AppliedOnce
PROPERTIES
    EveryMessageSettles
CHECK_DEADLOCK FALSE
