SPECIFICATION Spec
CONSTANTS
    r1 = r1
    r2 = r2
    r3 = r3
    Requests = {r1, r2, r3}
    Length <- MCLength
    Limit <- MCLimit
    CounterTTL <- MCCounterTTL
    Periods <- MCPeriods
    MaxDelay = 1
    Horizon = 5
    RedisFaults = TRUE
    RedisResends = TRUE
    Crashes = TRUE
SYMMETRY
    RequestSymmetry
INVARIANTS
    TypeOK
    LimitsHold
    RefusalIsDue
    CountersAreCollected
CHECK_DEADLOCK FALSE
