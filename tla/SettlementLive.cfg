SPECIFICATION FairSpec
CONSTANTS
    Payments = {p1}
    Requests = {r1, r2}
    Deliveries = {d1, d2}
    Ids = {i1}
    NoOwner = NoOwner
    NoPayment = NoPayment
    NoEvent = NoEvent
    Unmatched = Unmatched
    Psp = "stripe"
    MaxAttempts = 1
    MaxFaults = 1
    Amount <- MCAmount
    Events <- MCOddEvents
PROPERTIES
    AllAnswered
