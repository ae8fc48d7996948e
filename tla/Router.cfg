SPECIFICATION FairSpec
CONSTANTS
    t1 = t1
    t2 = t2
    e1 = e1
    e2 = e2
    e3 = e3
    Tenants = {t1}
    Events = {e1, e2, e3}
    TenantOf <- OneTenant
    Guests = {e2}
    BadType = {e3}
    BadUser = {e2}
    Channels = {"EMAIL", "PUSH"}
    MaxVersion <- TwoEmails
    Broken <- FirstEmail
    MaxRuns = 2
    Faults = {"crash", "postgres"}
INVARIANTS
    TypeOK
    OncePerRun
    CommittedIsRouted
PROPERTIES
    EveryEventIsHandled
