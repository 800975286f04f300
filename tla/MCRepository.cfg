\* Two packagings of a release while files, commits and reports change; the
\* harness in the working tree and in a clone; local syncs and the workflow's.
SPECIFICATION RepositorySpec
CONSTANTS
    TrackedCount = 3
    Assurance = 1
    Candidate = 3
    Snapshots <- MCSnapshots
    Published <- MCPublished
    Reports <- MCReports
    Checked <- MCReports
    Coverage = "coverage"
    Archives <- MCArchives
    Histories <- MCHistories
    Past <- MCPast
    Bad <- MCBad
    Nothing = Nothing
    MaxChanges = 2
    MaxPackages = 2
    MaxGone = 1
    Tools <- MCTools
    Available = {"python", "ruff"}
    Defects = {"mutations", "ruff"}
    MaxTouches = 2
    MaxStarts = 2
    phase = phase
    track = track
    Order <- MCOrder
    Parent <- MCParent
    Tracks = {track}
    Titles = {1, 2}
    Statuses = {"planned", "complete"}
    Runners = {local, workflow}
    Kept = {local}
    MaxEdits = 1
    MaxSyncs = 3
    MaxCrashes = 1
    None = None
    blocker = blocker
    claim = claim
    first = first
    second = second
    TrackIds = {track}
    Phases = {"P3"}
    BlockerIds = {blocker}
    CriteriaOf <- MCCriteria
    BlocksOf <- MCBlocks
    ClaimIds = {claim}
    AlphaProfiles = {"alpha"}
    RequiredOf <- MCRequired
    MinimumOf <- MCMinimum
    EvidenceFiles = {"report"}
    Marks = {"complete", "partial", "planned", "done"}
    Grades = {1, 3, 6}
    Touched = {"report", "pilot", "context", "ontology"}
    MaxRevisions = 2
INVARIANTS
    PackageIsOfCommit
    PackageIsOneRun
    VerdictIsShipped
    HarnessOkIsEarned
    TwinsExplained
    FinishedShows
    AcceptedIsTruthful
CHECK_DEADLOCK FALSE
