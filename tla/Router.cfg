SPECIFICATION FairSpec
CONSTANTS
    x1 = x1
    x2 = x2
    Psps = {x1, x2}
    Clients = {c1, c2}
    Plans <- MCPlans
    FailureThreshold = 1
    SuccessThreshold = 2
INVARIANTS
    TypeOK
    CountersOfPhase
PROPERTIES
    Recovers
