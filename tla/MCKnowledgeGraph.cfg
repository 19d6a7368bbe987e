\* Two extraction and two curation processes, one of whose runs fails, and a
\* judge that may say anything.
SPECIFICATION Spec
CONSTANTS
    seed = seed
    record = record
    Records = {seed, record}
    Seeds = {seed}
    chen = chen
    mchen = mchen
    Names = {chen, mchen}
    Within <- MCWithin
    mail = mail
    Idents = {mail}
    NoIdent = NoIdent
    first = first
    second = second
    Facts = {first, second}
    RecordOf <- MCRecordOf
    SourceAt <- MCSourceAt
    Inferred = {}
    Dated = {second}
    Relational = {second}
    NameLimit = 2
    FuzzyLimit = 1
    MaxChain = 50
    Extractors = {x1, x2}
    Curators = {c1, c2}
    Name <- MCName
    Ident <- MCIdent
    Form <- MCForm
    NoRecord = NoRecord
    MaxFaults = 1
SYMMETRY MCSymmetry
INVARIANTS
    TypeOK
    FactsToldWereCompared
    TimelineHasOneEnd
    AliasesKeepTheirRecords
    
CHECK_DEADLOCK FALSE
