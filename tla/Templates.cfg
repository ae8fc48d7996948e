SPECIFICATION Spec
CONSTANTS
    t1 = t1
    Tenants = {t1}
    Slots = {s1, s2}
    Quota <- OneEach
    Calls = {c1, c2, c3}
SYMMETRY Symmetric
INVARIANTS
    TypeOK
    ServedIsNewest
    QuotaIsExplained
    ForksAreExplained
    ConflictIsExplained
CHECK_DEADLOCK FALSE
