SPECIFICATION DLQSpec
CONSTANTS
    n1 = n1
    n2 = n2
    n3 = n3
    d1 = d1
    d2 = d2
    d3 = d3
    o1 = o1
    o2 = o2
    Notifications = {n1}
    RealTime = {}
    Malformed = {}
    Dispatches = {d1, d2, d3}
    MaxRetries = 0
    Faults = {}
    None = None
    Operators = {o1, o2}
    MaxCopies = 1
SYMMETRY Renamings
INVARIANTS
    RetryIsRecorded
    OnlyRetriesMislead
CHECK_DEADLOCK FALSE
