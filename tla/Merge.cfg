SPECIFICATION Spec
CONSTANTS
    Paths = {1, 2}
    Contents = {"old", "new"}
    Models = {"m1", "m2"}
    Counts = {2}
    Start <- MCStart
    Hash <- MCHash
    MaxProfiles = 1
    MaxScans = 2
    MaxEdits = 1
    NoShard = NoShard
    NoReport = NoReport
INVARIANT CompleteSetMerges
PROPERTY MergesOneReview
CHECK_DEADLOCK FALSE
