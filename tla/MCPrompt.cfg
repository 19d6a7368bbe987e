\* A terminal: two questions of one session in a batch.
SPECIFICATION Spec
CONSTANTS
    Assistant = assistant
    Human = human
    Experts = {gmailscarf}
    Strangers = {stranger}
    Watchers = {}
    ExpertOf <- MCExpertOf
    Pollers = {p1}
    Frontends = {"repl"}
    Sessions <- MCSessions
    Places = {}
    NoPlace = NoPlace
    Tasks = {}
    MaxMessages = 3
    MaxErrors = 0
INVARIANT
    PromptHoldsMessageOnce
CHECK_DEADLOCK FALSE
