\* Three ids, two elements: groups that break off, undo, checkpoints and their names.
SPECIFICATION CanvasSpec
CONSTANTS
    e1 = e1
    e2 = e2
    e3 = e3
    Ids = {e1, e2, e3}
    Looks = {round, square}
    Refused = Refused
    bike = bike
    Groups = {bike}
    NoGroup = NoGroup
    Kept = Kept
    IdLists <- MCIdLists
    Names <- MCNames
    MaxElements = 2
    MaxSteps = 4
    Actions <- MCActions
    Recoveries <- MCRecoveries
    NoAction = NoAction
    MaxScript = 2
    MaxRunSteps = 3
    MaxRuns = 2
SYMMETRY Symmetry
INVARIANTS
    RunIsReplayable
PROPERTIES
    ImplementsEditStack
CHECK_DEADLOCK FALSE
