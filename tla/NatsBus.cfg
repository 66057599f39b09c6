SPECIFICATION BusSpec
CONSTANTS
    c1 = c1
    c2 = c2
    t1 = t1
    t2 = t2
    Calls = {c1, c2}
    Tenants = {t1, t2}
    TenantOf <- Owners
    MaxAttempts = 2
    MinRequests = 1
    FailurePercent = 50
    WindowLen = 1
    Cooldown = 1
    MaxTime = 2
CHECK_DEADLOCK FALSE
INVARIANTS
    OwnFailuresOpen
PROPERTY
    EveryCallEnds
