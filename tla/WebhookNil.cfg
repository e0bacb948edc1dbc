SPECIFICATION Spec
CONSTANTS
    Payments = {p1}
    Requests = {r1, r2, r3}
    Deliveries = {d1, d2}
    Ids = {i1}
    NoOwner = NoOwner
    NoPayment = NoPayment
    NoEvent = NoEvent
    Unmatched = Unmatched
    Psp = "stripe"
    MaxAttempts = 2
    MaxFaults = 1
    Amount <- MCAmount
    Events <- MCEvents
SYMMETRY MCSymmetry
INVARIANTS
    DuplicateWasProcessed
