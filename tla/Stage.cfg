SPECIFICATION StageFairSpec
CONSTANTS
    Items = 5
    Breaker = 3
    Concurrency = 4
CHECK_DEADLOCK FALSE
INVARIANTS OneVerdictEach BreakerExact
PROPERTIES StageEnds
