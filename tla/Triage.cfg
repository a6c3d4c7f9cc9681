SPECIFICATION Spec
CONSTANTS
    Dimensions = {"correctness", "security", "testGap"}
    DimensionOrder <- MCDimensionOrder
    FileOrder <- MCFileOrder
    Failed = Failed
    Nothing = Nothing
    MinLocationConfidence = 50
    MinMetaConfidence = 50
    MinPlanConfidence = 60
    MinFixConfidence = 50
    RouteSeverity = 5
    BlockingSeverity = 8
    TaintMechanisms = {"injection"}
    MinSink = 20
    LowExploitability = 200000
    ClusterWindow = 10
    MaxCandidates = 2
    MaxTaint = 1
    MaxCounterfactual = 1
    MaxEnsemble = 1
    TopK = 2
    Cap = 5
    Screens <- MCScreens
    Thresholds <- MCThresholds
    DefaultThreshold = 50
    FollowUpCaps = {2, 3}
    Candidates = {1, 3, 12}
    LocateAnswers <- MCLocateAnswers
    TaintAnswers <- MCTaintAnswers
    VoteAnswers <- MCVoteAnswers
    Strengths = {1, 2}
    PlanAnswers = {"failurePath", "unitRegression", Failed}
    MaxEnrich = 2
    MaxPlans = 1
    HiddenSets <- MCHiddenSets
CHECK_DEADLOCK FALSE
INVARIANTS NothingVanishes BudgetWellSpent ContextAccounted
PROPERTIES BlockingSurvives
