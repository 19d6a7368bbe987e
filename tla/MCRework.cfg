\* Two extractors and two curators on a seed row, while the operator reindexes
\* or clears the queue.
SPECIFICATION FairSpec
CONSTANTS
    Records = {1}
    SeedRows = {1}
    IntentRows = {}
    Items = {mail, mail2, issue}
    NoItem = NoItem
    NoRecord = NoRecord
    AgentLabels = {"relevant", "noise", "uncertain", "other"}
    MaxFaults = 1
    LostWrites = {"enqueue", "curation release"}
    mail = mail
    mail2 = mail2
    issue = issue
    gmail = gmail
    file = file
    Ingesters = {gmail}
    FileIngesters = {}
    Handles <- MCNothing
    Policy <- MCPolicy
    Triagers = {}
    TriagePoison = {}
    Extractors = {e1, e2}
    ExtractionPoison = {}
    Curators = {c1, c2}
    ClaimsTimeOut = TRUE
    MaxOperations = 1
INVARIANTS
    CuratedByOne
PROPERTIES
    RelevantIsIndexed
    QueueDrains
