\* One cell: an operator's retry of a cell that is still leased.
SPECIFICATION Spec
CONSTANTS
    m1 = m1
    m2 = m2
    NumCells = 1
    ModelOf <- MCOneModel
    InitialState <- MCOneInitial
    Estimate <- MCOneEstimate
    HardBudget = 4
    ReservePercent = 0
    MaxParallel = 1
    Filters <- MCOneFilters
    Limits = {1}
    Terms = {1}
    MaxWait = 1
    Outcomes = {"succeeded", "failed"}
    Costs = {1}
    Quantum = 1
    Workers = {w1, w2}
    Operators = {None}
    Tokens = {t1, t2}
    MaxLog = 2
    None = None
INVARIANT LeaseMetadataOnlyWhenLeased
CHECK_DEADLOCK FALSE
