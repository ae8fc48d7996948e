SPECIFICATION Spec
CONSTANTS
    Calls = {c1, c2, c3}
    Changes = {d1}
    Saves = {s1, s2}
    NoPassword = NoPassword
    NoConfig = NoConfig
    Faults = {"interrupt", "provider"}
SYMMETRY Symmetric
INVARIANTS
    PasswordIsReachable
    StatusIsExplained
    SingleMailer
PROPERTIES
    OwnPasswordIsKept
CHECK_DEADLOCK FALSE
