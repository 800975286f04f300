\* Three cells of two models, two workers: batches, heartbeats, retries, expiries.
SPECIFICATION Spec
CONSTANTS
    m1 = m1
    m2 = m2
    NumCells = 3
    ModelOf <- MCModelOf
    InitialState <- MCInitial
    Estimate <- MCEstimate
    HardBudget = 4
    ReservePercent = 0
    MaxParallel = 1
    Filters <- MCFilters
    Limits = {3}
    Terms = {2}
    MaxWait = 1
    Outcomes = {"ready", "succeeded", "failed"}
    Costs = {2}
    Quantum = 1
    Workers = {w1, w2}
    Operators = {None}
    Tokens = {t1, t2, t3}
    MaxLog = 3
    None = None
SYMMETRY Symmetry
INVARIANTS
    ParallelCap
    LedgerReplays
    LeaseBacked
    SpendingExplained
PROPERTIES
    ImplementsLeaseService
    LiveLeaseNotTaken
CHECK_DEADLOCK FALSE
