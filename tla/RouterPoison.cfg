SPECIFICATION FairSpec
CONSTANTS
    t1 = t1
    t2 = t2
    e1 = e1
    e2 = e2
    e3 = e3
    Tenants = {t1, t2}
    Events = {e1, e2}
    TenantOf <- TwoTenants
    Guests = {e2}
    BadType = {}
    BadUser = {}
    Channels = {"EMAIL"}
    MaxVersion <- OneOfEach
    Broken <- FirstEmail
    MaxRuns = 1
    Faults = {}
PROPERTIES
    TenantsAreIsolated
