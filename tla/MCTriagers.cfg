\* Two triage processes on two mails, with crashes, reboots that take claims
\* from one another, failing agents and a release that Postgres refuses.
SPECIFICATION Spec
CONSTANTS
    Records <- MCRecords
    SeedRows = {}
    IntentRows = {}
    Items = {mail, mail2, issue}
    NoItem = NoItem
    NoRecord = NoRecord
    AgentLabels = {"relevant", "noise", "uncertain", "other"}
    MaxFaults = 2
    LostWrites = {"triage release"}
    mail = mail
    mail2 = mail2
    issue = issue
    gmail = gmail
    file = file
    Ingesters = {gmail}
    FileIngesters = {}
    Handles <- MCTwoMails
    Policy <- MCPolicy
    Triagers = {t1, t2}
    TriagePoison = {}
    Extractors = {e1}
    ExtractionPoison = {}
    Curators = {c1}
    ClaimsTimeOut = FALSE
    MaxOperations = 0
SYMMETRY MCSymmetry
INVARIANTS
    JudgedByOne
    OnlyRelevantIndexed

    
