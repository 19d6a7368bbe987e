\* Linear, with issues that were Done before the ingester was started.
SPECIFICATION Spec
CONSTANTS
    pull = pull
    issue = issue
    Items = {pull, issue}
    PullRequests = {pull}
    PageSize = 1
    Ticks = 2
    Skew = 0
    MaxTime = 3
    MaxFaults = 0
INVARIANT OnlyTransitions
CHECK_DEADLOCK FALSE
