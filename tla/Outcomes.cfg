SPECIFICATION HistorySpec
CONSTANTS
    Merges = {h1, h2, h3}
    Kinds = {"revert"}
    Window <- MCWindow
    Cutoff = 3
    MaxTime = 6
    MaxDelay = 1
    LastCapture = 1
    LastMerge = 4
    Reports <- MCReports
    Policy <- MCPolicy
    Dimensions = {"testGap"}
    MinTrain = 2
    MinHeldOut = 1
    MinBin = 1
    SeverityMax = 3
    BlockingSeverity = 2
    Unknown = Unknown
    NoHistory = NoHistory
SYMMETRY Symmetric
INVARIANTS ExportAccepted EligibleIsRecent
PROPERTY NoLookAhead
CHECK_DEADLOCK FALSE
