\* A local sync and the workflow's, which a push has just started, with no edit of
\* the records and no failure.
SPECIFICATION RepositorySpec
CONSTANTS
    TrackedCount = 3
    Assurance = 1
    Candidate = 3
    Snapshots <- MCSnapshots
    Published <- MCPublished
    Reports <- MCReports
    Checked <- MCReports
    Coverage = "coverage"
    Archives <- MCArchives
    Histories <- MCHistories
    Past <- MCPast
    Bad <- MCBad
    Nothing = Nothing
    MaxChanges = 0
    MaxPackages = 0
    MaxGone = 1
    Tools <- MCTools
    Available = {"python", "ruff"}
    Defects = {"mutations", "ruff"}
    MaxTouches = 0
    MaxStarts = 0
    phase = phase
    track = track
    Order <- MCOrder
    Parent <- MCParent
    Tracks = {track}
    Titles = {1, 2}
    Statuses = {"planned", "complete"}
    Runners = {local, workflow}
    Kept = {local}
    MaxEdits = 0
    MaxSyncs = 2
    MaxCrashes = 0
    None = None
    blocker = blocker
    claim = claim
    first = first
    second = second
    TrackIds = {track}
    Phases = {"P3"}
    BlockerIds = {blocker}
    CriteriaOf <- MCCriteria
    BlocksOf <- MCBlocks
    ClaimIds = {claim}
    AlphaProfiles = {"alpha"}
    RequiredOf <- MCRequired
    MinimumOf <- MCMinimum
    EvidenceFiles = {"report"}
    Marks = {"complete", "partial", "planned", "done"}
    Grades = {1, 3, 6}
    Touched = {"report", "pilot", "context", "ontology"}
    MaxRevisions = 0
INVARIANTS
    OneIssuePerItem
CHECK_DEADLOCK FALSE
