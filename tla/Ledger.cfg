SPECIFICATION MCFairSpec
CONSTANTS
    Postings = {t1, t2, t3}
    Requests <- AllRequests
    NoOwner = NoOwner
    MaxFaults = 1
INVARIANTS
    TypeOK
    RunningChain
PROPERTIES
    ImplementsLedgerSpec
    AllReturn
CHECK_DEADLOCK FALSE
