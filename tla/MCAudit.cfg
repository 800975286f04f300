\* Status and reconciliation between the transactions of a worker.
SPECIFICATION AuditSpec
CONSTANTS
    m1 = m1
    NumCells = 2
    ModelOf <- MCModelOf
    InitialState <- MCInitial
    Estimate <- MCEstimate
    HardBudget = 4
    ReservePercent = 0
    MaxParallel = 2
    Filters <- MCFilters
    Limits = {2}
    Terms = {1}
    MaxWait = 0
    Outcomes = {"failed"}
    Costs = {2}
    Quantum = 1
    Workers = {w1}
    Operators = {None}
    Tokens = {t1, t2}
    MaxLog = 1
    None = None
SYMMETRY Symmetry
INVARIANTS
    StatusWasTrue
    AlarmsExplained
CHECK_DEADLOCK FALSE
