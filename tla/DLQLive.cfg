SPECIFICATION DLQFairSpec
CONSTANTS
    n1 = n1
    n2 = n2
    n3 = n3
    d1 = d1
    d2 = d2
    d3 = d3
    o1 = o1
    o2 = o2
    Notifications = {n1, n2, n3}
    RealTime = {n2}
    Malformed = {n3}
    Dispatches = {d1, d2, d3}
    MaxRetries = 5
    Faults = {"worker"}
    None = None
    Operators = {}
    MaxCopies = 2
INVARIANTS
    NothingLost
    StatusShowsOutcome
PROPERTIES
    EveryMessageIsAccountedFor
CHECK_DEADLOCK FALSE
