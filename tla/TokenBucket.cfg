SPECIFICATION BucketSpec
CONSTANTS
    Cost = 3
    Capacity = 6
    BucketTTL = 8
    MaxDelay = 2
    Horizon = 16
    Patience = 4
INVARIANTS
    BucketTypeOK
    BurstIsEarned
CHECK_DEADLOCK FALSE
