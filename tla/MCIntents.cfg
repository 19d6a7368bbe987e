\* Two clients submit and edit three intents.
SPECIFICATION FairSpec
CONSTANTS
    Intents <- MCIntentSet
    Submitted = {1, 2}
    NoIntent = NoIntent
    Statuses = {"todo", "cancelled"}
    Callers = {planner, reviewer}
    planner = planner
    reviewer = reviewer
    Makes <- MCMakes
    Lists <- MCLists
    MaxCalls = 3
INVARIANTS
    TypeOK
    ParentCyclesAreRaced
    DependencyCyclesAreRaced
PROPERTIES
    TreesEnd
    EditsReturn
CHECK_DEADLOCK FALSE
