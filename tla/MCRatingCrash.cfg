\* One crash, in the worst place: the final response is never created.
SPECIFICATION FairSpec
CONSTANTS
    NumAssignments = 2
    Servers = {s1}
    Tabs = {b1, b2}
    NoTab = NoTab
    Ratings = {good}
    NoContent = NoContent
    MaxCrashes = 1
    ShortWrites = FALSE
PROPERTY CompleteIsWritten
CHECK_DEADLOCK FALSE
