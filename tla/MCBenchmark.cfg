\* Two runs into one directory with checkpoints, retries and crashes; the response
\* to one call, which may break off; the scoring of one output; or a campaign from
\* qualification to its end.
SPECIFICATION BenchmarkSpec
CONSTANTS
    TaskList <- MCTaskList
    Seeds = {10, 11}
    Adapter = "endpoint"
    Checkpointed = TRUE
    MaxAttempts = 2
    None = None
    MaxRuns = 2
    Waiting = Waiting
    MaxText = 4
    AnimalFeatures <- MCAnimalFeatures
    ObjectFeatures <- MCObjectFeatures
    Relations <- MCRelations
    Judges <- MCJudges
    Weight <- MCWeight
    Calibration = "2026.1"
    NoVersion = "none"
    Percentages = {0, 100}
    FirewallPolicies <- MCFirewallPolicies
    NoAssessment = NoAssessment
    NoScore = NoScore
    MaxCharacters = 2
    Models = {1, 2}
    CanaryTasks = 1
    Delivered <- MCDelivered
    EvidenceGates <- MCGates
    Absent = Absent
    Stages <- MCStages
    Replicates = 1
    Policies <- MCPolicies
    PriceLists <- MCPrices
    Limits = {2}
    Results = {"succeeded", "failed", "ready"}
    Costs = {1, 2}
    MaxReturns = 1
INVARIANTS
    ManifestAgrees
    NoDuplicateAnswers
    AnswerIsModelsDocument
    CreditIsEarned
    OnlyQualifiedLeased
    ReservationsHold
    ReserveCoversRetries
PROPERTIES
    RunsEnd
    CampaignCompletes
CHECK_DEADLOCK FALSE
