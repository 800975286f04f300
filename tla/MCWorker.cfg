\* Punctual heartbeats that may die, crashes, retries, batches of two: records and
\* terminal events join up, cells are executed by one worker, and leases end.
SPECIFICATION FairWorkerSpec
CONSTANTS
    m1 = m1
    NumCells = 2
    ModelOf <- MCOneModel
    InitialState <- MCInitial
    Estimate <- MCEstimate
    HardBudget = 6
    ReservePercent = 0
    MaxParallel = 2
    Filters <- MCBoth
    Limits = {1, 2}
    Terms = {1, 2}
    MaxWait = 0
    Outcomes = {"succeeded", "failed"}
    Costs = {2}
    Quantum = 1
    Workers = {w1, w2}
    Operators = {None}
    Tokens = {t1, t2}
    MaxLog = 3
    None = None
    Missing = {2}
    Flaky = TRUE
    Punctual = TRUE
    MaxCrashes = 2
INVARIANTS
    RecordsMatchEvents
    MissingRecordsAreCrashes
    ExclusiveExecution
PROPERTIES
    LeasesEnd
CHECK_DEADLOCK FALSE
