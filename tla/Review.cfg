SPECIFICATION Spec
CONSTANTS
    Discovered = {f1, f2, f3}
    Dimensions = {d1}
    Breaker = 2
    MaxProfiles = 2
    MaxFollowUps = 2
    Options <- MCOptions
CHECK_DEADLOCK FALSE
INVARIANTS ReportAccounts TroubleContained
