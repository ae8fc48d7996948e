SPECIFICATION PlatformSpec
CONSTANTS
    t1 = t1
    e1 = e1
    e2 = e2
    k1 = k1
    h1 = h1
    d1 = d1
    d2 = d2
    o1 = o1
    Tenants = {t1}
    Events = {e1, e2}
    TenantOf <- OneTenant
    Requests = {e1}
    RequestOf <- OneRequest
    Guests = {}
    BadType = {}
    BadUser = {}
    IllTyped = {}
    Channels = {"EMAIL"}
    MaxVersion <- OneOfEach
    Broken = {}
    MaxRuns = 2
    Faults = {}
    Keys = {k1}
    Hashes = {h1}
    NoHash = NoHash
    KeyOf <- OneKey
    HashOf <- OneHash
    RedisFaults = FALSE
    RedisResends = FALSE
    RedisLoss = FALSE
    TTLExpiry = FALSE
    PgFaults = FALSE
    BrokerLoss = TRUE
    EmitThrows = FALSE
    Crashes = FALSE
    Dispatches = {d1, d2}
    MaxRetries = 0
    GatewayFaults = {"worker", "resend"}
    None = None
    Operators = {o1}
    MaxCopies = 1
SYMMETRY Symmetric
INVARIANTS
    DeliveriesAreExplained
    AcceptedIsAccountedFor
PROPERTIES
    ImplementsPipeline
CHECK_DEADLOCK FALSE
