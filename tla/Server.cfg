SPECIFICATION MCSpec
CONSTANTS
    Requests = {p1, p2}
    Writers = {p1, p2}
    p1 = p1
    p2 = p2
    Readers = {r1}
    Amount <- MCAmount
    Ranges = {{p1, p2}, {p2}}
    Today <- MCToday
    Workers = {w1}
    Buckets = 1
INVARIANTS
    ServerTypeOK
    MetricsAgree
    StatsAgree
    PagesComplete
    GracefulLosesNothing
PROPERTIES
    Terminates
CHECK_DEADLOCK FALSE
