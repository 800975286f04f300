\* A quarantined output is given to the judges.
SPECIFICATION BenchmarkSpec
CONSTANTS
    TaskList <- MCTaskList
    Seeds = {10, 11}
    Adapter = "endpoint"
    Checkpointed = TRUE
    MaxAttempts = 2
    None = None
    MaxRuns = 2
    Waiting = Waiting
    MaxText = 1
    AnimalFeatures <- MCAnimalFeatures
    ObjectFeatures <- MCObjectFeatures
    Relations <- MCRelations
    Judges <- MCJudges
    Weight <- MCWeight
    Calibration = "2026.1"
    NoVersion = "none"
    Percentages = {0, 100}
    FirewallPolicies <- MCFirewallPolicies
    NoAssessment = NoAssessment
    NoScore = NoScore
    MaxCharacters = 2
    Models = {1, 2}
    CanaryTasks = 1
    Delivered <- MCDelivered
    EvidenceGates <- MCGates
    Absent = Absent
    Stages <- MCStages
    Replicates = 1
    Policies <- MCPolicies
    PriceLists <- MCPrices
    Limits = {2}
    Results = {"succeeded", "failed", "ready"}
    Costs = {1, 2}
    MaxReturns = 1
INVARIANT QuarantinedUnjudged
CHECK_DEADLOCK FALSE
