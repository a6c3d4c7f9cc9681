SPECIFICATION Spec
CONSTANTS
    h1 = h1
    h2 = h2
    f1 = f1
    f2 = f2
    f3 = f3
    unit = unit
    deploy = deploy
    Heads = {h1, h2}
    Reviewed = h1
    Bases = {1, 2}
    MergeBase <- MCMergeBase
    Files <- MCFiles
    Unsupported <- MCUnsupported
    CheckRuns = {unit}
    Statuses = {deploy}
    Required = {unit}
    MaxPushes = 2
CHECK_DEADLOCK FALSE
INVARIANTS ApprovedWasCovered ApprovedOnEvidence ArtifactTellsOutcome
PROPERTIES RoutineChangeApproved
