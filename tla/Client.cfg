SPECIFICATION FairSpec
CONSTANTS
    r1 = r1
    r2 = r2
    r3 = r3
    u1 = u1
    Requests = {r1, r2, r3}
    Units = {u1}
    UnitOf <- MCUnitOf
    Versions <- MCVersions
    Models = {0, 1}
    CacheEnabled = TRUE
    Unlimited = Unlimited
    BudgetLimit = 2
    MaxRetries = 1
    GateCap = 2
    MaxRuns = 2
CHECK_DEADLOCK FALSE
INVARIANTS MetersExact CacheIsTrusted
PROPERTIES OnlySoundEntries EveryCallEnds
