\* A rater who was told the prompt of a task in one assignment, and answers the
\* blind stage of another.
SPECIFICATION StudySpec
CONSTANTS
    r1 = r1
    r2 = r2
    x1 = x1
    x2 = x2
    x3 = x3
    t1 = t1
    t2 = t2
    Rows <- MCRows
    TaskOf <- MCTaskOf
    Target = 2
    Panel <- MCPanel
    Repeated <- MCRepeated
    Norm <- MCNorm
    Expected <- MCExpected
    Readings <- MCReadings
    CriteriaRatings = {3}
    Policy <- MCPolicy
    MaxSpoiled = 1
    FirstAnalysis = 6
    Absent = Absent
    Models = {1, 2, 3}
    Panels = {{1, 2, 3}, {2, 3}}
    Produced = {2, 3}
    Keys = {1, 2}
    Digest <- MCDigest
    None = None
    FileCount = 4
    Protocol = 1
    TaskFile = 2
    Ledger = 3
    InputSets <- MCInputSets
    NotMade = NotMade
    MaxEdits = 2
    NumAssignments = 3
    Servers = {s1}
    Tabs = {b1, b2}
    NoTab = NoTab
    Ratings = {good, bad}
    NoContent = NoContent
    MaxCrashes = 2
    ShortWrites = TRUE
    EpisodeCount = 2
    DuplicateCount = 1
    Secrets = {1, 2}
    EpisodeDigest <- MCEpisodeDigest
    SelectionKey <- MCSelectionKey
    DutyDigest <- MCDutyDigest
    OrderKey <- MCOrderKey
    Short = {2}
    RaterTabs = {"left", "right"}
    Missing = Missing
    MaxTurns = 4
    MaxFolders = 2
    MaxLaunches = 2
INVARIANTS
    PromptStaysHidden
CHECK_DEADLOCK FALSE
