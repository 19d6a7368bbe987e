\* A terminal or Discord with one poll loop, an assistant and one expert, with
\* one error.
SPECIFICATION Spec
CONSTANTS
    Assistant = assistant
    Human = human
    Experts = {gmailscarf}
    Strangers = {stranger}
    Watchers = {w1}
    ExpertOf <- MCExpertOf
    Pollers = {p1}
    Frontends = {"repl", "discord"}
    Sessions <- MCSessions
    Places = {t1, t2}
    NoPlace = NoPlace
    Tasks = {d1, d2}
    MaxMessages = 3
    MaxErrors = 1
INVARIANTS
    TypeOK
    PromptKeepsHistory
    PostedWhereAsked
CHECK_DEADLOCK FALSE
