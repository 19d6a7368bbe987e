\* Three events at the source, two ticks to a second, one failure.
SPECIFICATION Spec
CONSTANTS
    pull = pull
    issue = issue
    Items = {pull, issue}
    PullRequests = {pull}
    PageSize = 1
    Ticks = 2
    Skew = 0
    MaxTime = 3
    MaxFaults = 1
INVARIANTS
    TypeOK
    NothingSlips
PROPERTIES
    NoBackfill
    DueIsSaved
CHECK_DEADLOCK FALSE
