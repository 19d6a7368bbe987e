\* A terminal, or Discord with a second poll loop and one thread, under
\* fairness, with one error.
SPECIFICATION FairSpec
CONSTANTS
    Assistant = assistant
    Human = human
    Experts = {gmailscarf}
    Strangers = {stranger}
    Watchers = {w1}
    ExpertOf <- MCExpertOf
    Pollers = {p1, p2}
    Frontends = {"repl", "discord"}
    Sessions <- OneSession
    Places = {t1}
    NoPlace = NoPlace
    Tasks = {d1}
    MaxMessages = 3
    MaxErrors = 1
INVARIANTS
    ReadIsAccountedFor
PROPERTY
    TakenOnce
    SentIsTaken
CHECK_DEADLOCK FALSE
