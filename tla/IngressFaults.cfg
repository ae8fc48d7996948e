SPECIFICATION FairSpec
CONSTANTS
    r1 = r1
    r2 = r2
    r3 = r3
    k1 = k1
    h1 = h1
    h2 = h2
    Requests = {r1, r2, r3}
    Keys = {k1}
    Hashes = {h1, h2}
    NoHash = NoHash
    KeyOf <- MCKeyOf
    HashOf <- MCHashOf
    RedisFaults = TRUE
    RedisResends = TRUE
    RedisLoss = TRUE
    TTLExpiry = TRUE
    PgFaults = TRUE
    BrokerLoss = TRUE
    EmitThrows = TRUE
    Crashes = TRUE
INVARIANTS
    TypeOK
    CompletionFollowsDispatch
    SuccessIsBacked
PROPERTIES
    ImplementsEventOnce
    ReservationsEnd
    EveryRequestEnds
CHECK_DEADLOCK FALSE
