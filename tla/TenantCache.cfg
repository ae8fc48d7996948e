SPECIFICATION FairSpec
CONSTANTS
    k1 = k1
    k2 = k2
    k3 = k3
    r1 = r1
    r2 = r2
    a1 = a1
    a2 = a2
    a3 = a3
    Keys = {k1, k2, k3}
    FirstKey = k1
    Requests = {r1}
    Admins = {a1, a2}
    Kinds = {"update", "rotate", "suspend", "deactivate", "reactivate"}
    RedisFaults = TRUE
    CrossingFills = TRUE
    ConcurrentAdmins = TRUE
INVARIANTS
    TypeOK
    StalenessIsExplained
PROPERTIES
    StalenessEnds
