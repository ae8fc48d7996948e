SPECIFICATION DLQSpec
CONSTANTS
    n1 = n1
    n2 = n2
    n3 = n3
    d1 = d1
    d2 = d2
    d3 = d3
    o1 = o1
    o2 = o2
    Notifications = {n1}
    RealTime = {}
    Malformed = {}
    Dispatches = {d1, d2}
    MaxRetries = 1
    Faults = {"crash", "shutdown", "publish", "resend", "postgres", "worker"}
    None = None
    Operators = {o1}
    MaxCopies = 1
INVARIANTS
    RetriesInOrder
    DeliveredOnce
PROPERTIES
    ImplementsDeliveryOutcome
CHECK_DEADLOCK FALSE
