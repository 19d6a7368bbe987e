\* Two operators; four commands, starts and package changes.
SPECIFICATION Spec
CONSTANTS
    mailer = mailer
    tracker = tracker
    letter = letter
    issue = issue
    project = project
    person = person
    first = first
    second = second
    Names <- MCNames
    Versions = {1, 2}
    Manifest <- MCManifest
    BaseTypes = {person}
    Operators = {first, second}
    Absent = Absent
    Unsaved = Unsaved
    MaxCommands = 4
SYMMETRY MCSymmetry
INVARIANTS
    TypeOK
    RegistryIsUnambiguous
    RecordsAreTyped
CHECK_DEADLOCK FALSE
