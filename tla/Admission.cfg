SPECIFICATION Spec
CONSTANTS
    Requests = {r1, r2}
    Rate = 1
    Interval = 2
    Burst = 2
    Stale = 4
    MaxFails = 1
    Window = 2
    Horizon = 6
    None = None
SYMMETRY Symmetry
INVARIANTS
    TypeOK
    AdmissionBound
    RefusedForAReason
    GuessBound
