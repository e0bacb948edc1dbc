SPECIFICATION MCSpec
CONSTANTS
    p1 = p1
    p2 = p2
    p3 = p3
    Payments = {p1, p2, p3}
    Batches = {b1}
    Psp = "stripe"
    Amount <- MCAmount
    PspAmount <- MCPspAmount
    Unknown = {p3}
    MaxFaults = 2
INVARIANTS
    TypeOK
    AccusedForAReason
    LostCaptureFound
