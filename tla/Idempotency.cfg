SPECIFICATION MCSpec
CONSTANTS
    Requests = {r1, r2, r3, r4}
    Keys = {k1, k2}
    NoKey = NoKey
    MaxFaults = 2
    MaxResends = 1
    MaxExpiries = 1
SYMMETRY Symmetry
INVARIANTS
    TypeOK
    OneInFlight
    OneSuccessPerLife
    ReplaySound
PROPERTIES
    ImplementsOnceCell
