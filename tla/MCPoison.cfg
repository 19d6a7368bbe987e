\* One triage process whose agent always raises on row 1.
SPECIFICATION FairSpec
CONSTANTS
    Records <- MCRecords
    SeedRows = {}
    IntentRows = {}
    Items = {mail, mail2, issue}
    NoItem = NoItem
    NoRecord = NoRecord
    AgentLabels = {"relevant", "noise", "uncertain", "other"}
    MaxFaults = 0
    LostWrites = {}
    mail = mail
    mail2 = mail2
    issue = issue
    gmail = gmail
    file = file
    Ingesters = {gmail}
    FileIngesters = {}
    Handles <- MCTwoMails
    Policy <- MCPolicy
    Triagers = {t1}
    TriagePoison = {1}
    Extractors = {}
    ExtractionPoison = {}
    Curators = {c1}
    ClaimsTimeOut = FALSE
    MaxOperations = 0
PROPERTIES
    PendingIsDecided
