\* One process of every kind, as in the compose file, with crashes, failing
\* calls and refused writes.  Item "mail" goes through triage; "issue" is
\* trusted and read from a file.
SPECIFICATION FairSpec
CONSTANTS
    Records <- MCWithIntent
    SeedRows = {}
    IntentRows = {3}
    Items = {mail, mail2, issue}
    NoItem = NoItem
    NoRecord = NoRecord
    AgentLabels = {"relevant", "noise", "uncertain", "other"}
    MaxFaults = 1
    LostWrites = {"enqueue", "curation release"}
    mail = mail
    mail2 = mail2
    issue = issue
    gmail = gmail
    file = file
    Ingesters = {gmail, file}
    FileIngesters = {file}
    Handles <- MCMailAndFile
    Policy <- MCPolicy
    Triagers = {t1}
    TriagePoison = {}
    Extractors = {e1}
    ExtractionPoison = {1}
    Curators = {c1}
    ClaimsTimeOut = TRUE
    MaxOperations = 0
INVARIANTS
    TypeOK
    OneRowPerItem
    OnlyRelevantIndexed
    TriagingIsHeld
    QueuedIsCommitted
PROPERTIES
    
    LeavesQueueCurated
    
    PendingIsDecided
    RelevantIsIndexed
    QueueDrains
