SPECIFICATION MCSpec
CONSTANTS
    Clients = {c1, c2, c3, c4, c5}
    Entries = {e1, e2, e3}
    MaxLen = 2
    MaxFaults = 1
SYMMETRY Symmetry
INVARIANTS
    TypeOK
    UndisturbedLosesNothing
