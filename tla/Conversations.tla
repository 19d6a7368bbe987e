---------------------------- MODULE Conversations ----------------------------
(***************************************************************************)
(* The process of `psc run` or `psc dev`: the assistant and the expert     *)
(* bots answer the messages of a session, each with an agent per session   *)
(* whose conversation is rebuilt from the table; the human writes and      *)
(* reads through a terminal or through Discord, one thread per session.    *)
(***************************************************************************)
EXTENDS MessageBus

CONSTANTS
    Frontends,   \* which of "repl" (psc run) and "discord" (psc dev) are tried
    Tasks,       \* the on_message calls the Discord event loop may have open
    Watchers,    \* threads of experts that open sessions of their own
    ExpertOf     \* the expert of such a thread

ASSUME ConversationsAssumption ==
    /\ Frontends \subseteq {"repl", "discord"}
    /\ ExpertOf \in [Watchers -> Experts]
    /\ Human \notin Tasks \union Watchers
    /\ Tasks \cap Watchers = {}
    /\ (Tasks \union Watchers) \cap Consumers = {}

VARIABLES
    frontend,  \* which front end was started
    running,   \* the poll loops it has started
    current,   \* the message a consumer is handling, or 0
    memory,    \* `_messages` of each consumer's agent of each session
    opened,    \* the session a watcher has opened and not used yet, or 0
    active,    \* the session the terminal writes to, or 0
    task,      \* what each on_message call of Discord has come to
    posting,   \* the message a poll loop has in hand, and the thread being
               \* created for it
    threadOf,  \* the table `discord_threads`
    live,      \* the threads that exist on Discord
    posted     \* history: the messages put into a thread, with the thread

agentVars == <<current, memory, opened>>
replVars  == <<active>>
botVars   == <<task, posting, threadOf, live, posted>>
vars      == <<busVars, frontend, running, agentVars, replVars, botVars>>

\* Who calls create_session: on_message, the terminal, an expert.
Creators == Tasks \union {Human} \union Watchers

NoTask == [at |-> "free", place |-> NoPlace, session |-> 0]
NoPost == [message |-> 0, place |-> NoPlace]

TypeOK ==
    /\ BusTypeOK(Creators)
    /\ frontend \in {"repl", "discord"}
    /\ running \in SUBSET Pollers
    /\ current \in [Consumers -> stored \union {0}]
    /\ memory \in [Consumers -> [Sessions -> Seq(stored)]]
    /\ opened \in [Watchers -> sessions \union {0}]
    /\ active \in sessions \union {0}
    /\ task \in [Tasks -> [at : {"free", "asking", "asking in thread", "creating", "created"},
                           place : Places \union {NoPlace},
                           session : sessions \union {0}]]
    /\ posting \in [Pollers -> [message : stored \union {0}, place : Places \union {NoPlace}]]
    /\ threadOf \in [Sessions -> Places \union {NoPlace}]
    /\ live \in SUBSET Places
    /\ posted \in SUBSET (stored \X Places)

\* The terminal starts its poll loop at once, Discord when it is connected.
AtStart(f) == IF f = "repl" THEN {{p} : p \in Pollers} ELSE {{}}

Init ==
    /\ BusInit(Creators)
    /\ frontend \in Frontends
    /\ running \in AtStart(frontend)
    /\ current = [c \in Consumers |-> 0]
    /\ memory = [c \in Consumers |-> [s \in Sessions |-> << >>]]
    /\ opened = [w \in Watchers |-> 0]
    /\ active = 0
    /\ task = [d \in Tasks |-> NoTask]
    /\ posting = [p \in Pollers |-> NoPost]
    /\ threadOf = [s \in Sessions |-> NoPlace]
    /\ live = {}
    /\ posted = {}

-----------------------------------------------------------------------------
(* The consumers *)

\* The conversation without its last message, unless c sent that itself.
WithoutLastUser(c, h) ==
    IF h # << >> /\ messages[Last(h)].from # c THEN Front(h) ELSE h

\* MUTANT: the memory of the session's agent is not cleared first.
RebuildOnTop(c, m) ==
    LET s == messages[m].session
    IN memory[c][s] \o Append(WithoutLastUser(c, History(s)), m)

\* What the agent is run on: the session's history, then the message.
Rebuild(c, m) == Append(WithoutLastUser(c, History(messages[m].session)), m)

\* _next pops a message; _handle, up to the first call of the LLM.
Handle(c) ==
    /\ \E m \in Ids :
          /\ Take(c, m)
          /\ current' = [current EXCEPT ![c] = m]
          /\ memory' = [memory EXCEPT ![c][messages[m].session] = Rebuild(c, m)]
    /\ polling' = [polling EXCEPT ![c] = "busy"]
    /\ UNCHANGED <<sessions, counted, sendVars, errors, frontend, running, opened,
                   replVars, botVars>>

\* A turn of the assistant's agent: the tool send_message, to any name.
AssistantSends ==
    /\ polling[Assistant] = "busy"
    /\ \E to \in Names :
          Send(Assistant, messages[current[Assistant]].session, Assistant, to, NoPlace)
    /\ UNCHANGED <<sessions, counted, pollVars, errors,
                   frontend, running, agentVars, replVars, botVars>>

\* A turn of an expert's agent: the tool reply, to who asked.
ExpertReplies(e) ==
    /\ polling[e] = "busy"
    /\ Send(e, messages[current[e]].session, e, messages[current[e]].from, NoPlace)
    /\ UNCHANGED <<sessions, counted, pollVars, errors,
                   frontend, running, agentVars, replVars, botVars>>

\* The run ends, with or without an answer, within max_turns calls of the
\* LLM, or one of these raises and the loop goes on with the next message.
Finish(c) ==
    /\ polling[c] = "busy"
    /\ sending[c] = 0
    /\ polling' = [polling EXCEPT ![c] = "ready"]
    /\ current' = [current EXCEPT ![c] = 0]
    /\ UNCHANGED <<sessions, counted, sendVars, read, pending, marked, taken, lost, errors,
                   frontend, running, memory, opened, replVars, botVars>>

\* An expert detects an event: it opens a session ...
ExpertCounts(w) ==
    /\ opened[w] = 0
    /\ sending[w] = 0
    /\ CountSessions(w)
    /\ UNCHANGED <<sessions, sendVars, pollVars, errors,
                   frontend, running, agentVars, replVars, botVars>>

\* ... unless create_session raises ...
ExpertOpens(w) ==
    /\ \/ InsertSession(w) /\ opened' = [opened EXCEPT ![w] = counted[w]]
       \/ InsertRaises(w) /\ UNCHANGED opened
    /\ UNCHANGED <<sendVars, pollVars, errors,
                   frontend, running, current, memory, replVars, botVars>>

\* ... and tells the assistant.
ExpertNotifies(w) ==
    /\ opened[w] # 0
    /\ Send(w, opened[w], ExpertOf[w], Assistant, NoPlace)
    /\ opened' = [opened EXCEPT ![w] = 0]
    /\ UNCHANGED <<sessions, counted, pollVars, errors,
                   frontend, running, current, memory, replVars, botVars>>

-----------------------------------------------------------------------------
(* The terminal *)

AtPrompt == frontend = "repl" /\ counted[Human] = 0 /\ sending[Human] = 0

\* MUTANT: the terminal goes to the session before it is inserted.
ReplCountsAndGoes ==
    /\ AtPrompt
    /\ CountSessions(Human)
    /\ active' = counted'[Human]
    /\ UNCHANGED <<sessions, sendVars, pollVars, errors,
                   frontend, running, agentVars, botVars>>

\* `/new`, and _ensure_session at the start, up to the INSERT.
ReplCounts ==
    /\ AtPrompt
    /\ CountSessions(Human)
    /\ UNCHANGED <<sessions, sendVars, pollVars, errors,
                   frontend, running, agentVars, replVars, botVars>>

ReplOpens ==
    /\ InsertSession(Human)
    /\ active' = counted[Human]
    /\ UNCHANGED <<sendVars, pollVars, errors, frontend, running, agentVars, botVars>>

\* `/switch` to a session that exists.
ReplSwitches(s) ==
    /\ AtPrompt
    /\ active # 0
    /\ s \in sessions
    /\ active' = s
    /\ UNCHANGED <<busVars, frontend, running, agentVars, botVars>>

\* A line that is no command.
ReplWrites ==
    /\ AtPrompt
    /\ active # 0
    /\ Send(Human, active, Human, Assistant, NoPlace)
    /\ UNCHANGED <<sessions, counted, pollVars, errors,
                   frontend, running, agentVars, replVars, botVars>>

\* _poll_responses of the terminal prints whatever session a message is of ...
ReplShows(p) ==
    /\ frontend = "repl"
    /\ \E m \in Ids : Take(p, m)
    /\ UNCHANGED <<sessions, counted, sendVars, polling, errors,
                   frontend, running, agentVars, replVars, botVars>>

\* ... unless printing raises: the rest of the batch is gone.
ReplShowRaises(p) ==
    /\ frontend = "repl"
    /\ polling[p] = "ready"
    /\ pending[p] # << >>
    /\ Error
    /\ DropBatch(p)
    /\ UNCHANGED <<sessions, counted, sendVars, polling,
                   frontend, running, agentVars, replVars, botVars>>

-----------------------------------------------------------------------------
(* Discord.  Its calls of the database block the event loop: no other task *)
(* runs between a count and the insert that follows it, or before a        *)
(* message is committed.                                                   *)

LoopIsFree == \A d \in Tasks : counted[d] = 0 /\ sending[d] = 0

Free(d) == frontend = "discord" /\ LoopIsFree /\ task[d].at = "free"

\* save_thread_mapping, an upsert by session.
SaveThreadMapping(s, t) == threadOf' = [threadOf EXCEPT ![s] = t]

\* The rows get_session_by_thread takes one of.
SessionsOf(t) == {s \in sessions : threadOf[s] = t}

\* Threads Discord may still create.
NewPlaces == {t \in Places \ live : \A d \in Tasks : task[d].place # t}

\* on_ready: when the bot is connected, and again when it had to connect anew.
OnReady(p) ==
    /\ frontend = "discord"
    /\ LoopIsFree
    /\ p \in Pollers \ running
    /\ running' = running \union {p}
    /\ UNCHANGED <<busVars, frontend, agentVars, replVars, botVars>>

\* A message in a channel: on_message opens a session.  `place` is the
\* thread that will be created for it.
BotAsked(d) ==
    /\ Free(d)
    /\ CountSessions(d)
    /\ \E t \in NewPlaces :
          task' = [task EXCEPT ![d] = [@ EXCEPT !.at = "asking", !.place = t]]
    /\ UNCHANGED <<sessions, sendVars, pollVars, errors, frontend, running,
                   agentVars, replVars, posting, threadOf, live, posted>>

\* The session is there; create_thread is awaited.
BotOpens(d) ==
    /\ task[d].at = "asking"
    /\ InsertSession(d)
    /\ task' = [task EXCEPT ![d] = [@ EXCEPT !.at = "creating", !.session = counted[d]]]
    /\ UNCHANGED <<sendVars, pollVars, errors, frontend, running,
                   agentVars, replVars, posting, threadOf, live, posted>>

\* Discord creates the thread: people see it before the task goes on.
ThreadAppears(d) ==
    /\ task[d].at = "creating"
    /\ live' = live \union {task[d].place}
    /\ task' = [task EXCEPT ![d].at = "created"]
    /\ UNCHANGED <<busVars, frontend, running, agentVars, replVars, posting, threadOf, posted>>

\* save_thread_mapping, then the question goes to the assistant.
BotSends(d) ==
    /\ task[d].at = "created"
    /\ LoopIsFree
    /\ SaveThreadMapping(task[d].session, task[d].place)
    /\ Send(d, task[d].session, Human, Assistant, task[d].place)
    /\ task' = [task EXCEPT ![d] = NoTask]
    /\ UNCHANGED <<sessions, counted, pollVars, errors, frontend, running,
                   agentVars, replVars, posting, live, posted>>

\* A message in a thread some session is mapped to: get_session_by_thread
\* returns one of them.
BotContinues(d) ==
    /\ Free(d)
    /\ \E t \in live : \E s \in SessionsOf(t) : Send(d, s, Human, Assistant, t)
    /\ UNCHANGED <<sessions, counted, pollVars, errors, frontend, running,
                   agentVars, replVars, botVars>>

\* A message in a thread no session is mapped to, or not yet ...
BotAskedInThread(d) ==
    /\ Free(d)
    /\ CountSessions(d)
    /\ \E t \in live :
          /\ SessionsOf(t) = {}
          /\ task' = [task EXCEPT ![d] = [@ EXCEPT !.at = "asking in thread", !.place = t]]
    /\ UNCHANGED <<sessions, sendVars, pollVars, errors, frontend, running,
                   agentVars, replVars, posting, threadOf, live, posted>>

\* ... gets a session of its own.
BotAdopts(d) ==
    /\ task[d].at = "asking in thread"
    /\ InsertSession(d)
    /\ SaveThreadMapping(counted[d], task[d].place)
    /\ Send(d, counted[d], Human, Assistant, task[d].place)
    /\ task' = [task EXCEPT ![d] = NoTask]
    /\ UNCHANGED <<pollVars, errors, frontend, running,
                   agentVars, replVars, posting, live, posted>>

\* create_session or create_thread raises: the human is told of an error.
BotGivesUp(d) ==
    /\ \/ InsertRaises(d)
       \/ task[d].at = "creating" /\ UNCHANGED <<sessions, counted>>
    /\ task' = [task EXCEPT ![d] = NoTask]
    /\ UNCHANGED <<sendVars, pollVars, errors, frontend, running,
                   agentVars, replVars, posting, threadOf, live, posted>>

\* _poll_responses of the bot: the answer goes to its session's thread.
BotPosts(p) ==
    /\ frontend = "discord"
    /\ LoopIsFree
    /\ \E m \in Ids :
          /\ Take(p, m)
          /\ threadOf[messages[m].session] # NoPlace
          /\ posted' = posted \union {<<m, threadOf[messages[m].session]>>}
    /\ UNCHANGED <<sessions, counted, sendVars, polling, errors, frontend, running,
                   agentVars, replVars, task, posting, threadOf, live>>

\* A session that has none gets a new one: create_thread is awaited ...
BotMakesThread(p) ==
    /\ frontend = "discord"
    /\ LoopIsFree
    /\ \E m \in Ids, t \in NewPlaces :
          /\ Take(p, m)
          /\ threadOf[messages[m].session] = NoPlace
          /\ posting' = [posting EXCEPT ![p] = [message |-> m, place |-> t]]
          /\ live' = live \union {t}
    /\ polling' = [polling EXCEPT ![p] = "busy"]
    /\ UNCHANGED <<sessions, counted, sendVars, errors, frontend, running,
                   agentVars, replVars, task, threadOf, posted>>

\* ... and the answer posted there.
BotPostsInNew(p) ==
    LET m == posting[p].message
        t == posting[p].place
    IN
    /\ polling[p] = "busy"
    /\ LoopIsFree
    /\ SaveThreadMapping(messages[m].session, t)
    /\ posted' = posted \union {<<m, t>>}
    /\ posting' = [posting EXCEPT ![p] = NoPost]
    /\ polling' = [polling EXCEPT ![p] = "ready"]
    /\ UNCHANGED <<sessions, counted, sendVars, read, pending, marked, taken, lost, errors,
                   frontend, running, agentVars, replVars, task, live>>

\* The thread is not in the bot's cache, or there is no channel for a new
\* one: the answer is passed over.
BotPassesOver(p) ==
    /\ frontend = "discord"
    /\ LoopIsFree
    /\ \E m \in Ids : Take(p, m)
    /\ UNCHANGED <<sessions, counted, sendVars, polling, errors, frontend, running,
                   agentVars, replVars, botVars>>

\* create_thread or send raises: the rest of the batch is gone.
BotPostRaises(p) ==
    /\ frontend = "discord"
    /\ LoopIsFree
    /\ polling[p] = "busy" \/ (polling[p] = "ready" /\ pending[p] # << >>)
    /\ Error
    /\ DropBatch(p)
    /\ polling' = [polling EXCEPT ![p] = "ready"]
    /\ posting' = [posting EXCEPT ![p] = NoPost]
    /\ UNCHANGED <<sessions, counted, sendVars, frontend, running,
                   agentVars, replVars, task, threadOf, live, posted>>

-----------------------------------------------------------------------------

\* The process dies, or leaves because the terminal's create_session raised,
\* and is started again.
Restart ==
    /\ \/ Error
       \/ counted[Human] \in sessions /\ UNCHANGED errors
    /\ BatchesVanish
    /\ running' \in AtStart(frontend)
    /\ current' = [c \in Consumers |-> 0]
    /\ memory' = [c \in Consumers |-> [s \in Sessions |-> << >>]]
    /\ opened' = [w \in Watchers |-> 0]
    /\ active' = 0
    /\ task' = [d \in Tasks |-> NoTask]
    /\ posting' = [p \in Pollers |-> NoPost]
    /\ UNCHANGED <<frontend, threadOf, live, posted>>

Quiet == UNCHANGED <<frontend, running, agentVars, replVars, botVars>>

Polls(a) == a \in Consumers \union running /\ Poll(a) /\ Quiet
Marks(a) == Mark(a) /\ Quiet

SendEnds(k) == (Commit(k) \/ SendRaises(k)) /\ Quiet

Shows(p) ==
    \/ ReplShows(p) \/ ReplShowRaises(p)
    \/ BotPosts(p) \/ BotMakesThread(p) \/ BotPostsInNew(p) \/ BotPassesOver(p) \/ BotPostRaises(p)

Next ==
    \/ \E a \in Readers : Polls(a) \/ Marks(a) \/ (PollRaises(a) /\ Quiet)
    \/ \E k \in Creators \union Consumers : SendEnds(k)
    \/ \E c \in Consumers : Handle(c) \/ Finish(c)
    \/ AssistantSends
    \/ \E e \in Experts : ExpertReplies(e)
    \/ \E w \in Watchers : ExpertCounts(w) \/ ExpertOpens(w) \/ ExpertNotifies(w)
    \/ ReplCounts \/ ReplOpens \/ ReplWrites \/ \E s \in Sessions : ReplSwitches(s)
    \/ \E d \in Tasks :
          \/ BotAsked(d) \/ BotOpens(d) \/ ThreadAppears(d) \/ BotSends(d)
          \/ BotContinues(d) \/ BotAskedInThread(d) \/ BotAdopts(d) \/ BotGivesUp(d)
    \/ \E p \in Pollers : OnReady(p) \/ Shows(p)
    \/ Restart

Spec == Init /\ [][Next]_vars

\* What the loop of a reader does next, of its own accord.
LoopStep(a) ==
    \/ Polls(a)
    \/ Marks(a)
    \/ a \in Consumers /\ (Handle(a) \/ Finish(a) \/ SendEnds(a))
    \/ a \in Pollers /\ Shows(a)

\* What a task of the event loop does while it blocks it.
TaskStep(d) == BotOpens(d) \/ BotAdopts(d) \/ BotGivesUp(d) \/ SendEnds(d)

\* Every reader is a loop; a run of an agent ends at its turn ceiling at the
\* latest; a call that blocks the event loop returns, and the loop serves its
\* tasks in turn; the bot gets connected.
FairSpec ==
    /\ Spec
    /\ \A c \in Consumers : WF_vars(LoopStep(c))
    /\ \A p \in Pollers : SF_vars(LoopStep(p))
    /\ \A d \in Tasks : WF_vars(TaskStep(d))
    /\ SF_vars(running = {} /\ \E p \in Pollers : OnReady(p))

-----------------------------------------------------------------------------
(* Properties *)

\* poll marks before it returns (bus.py:26), and nothing is given to a reader
\* twice, not after a crash between the marks either, nor to two readers, unless
\* both are poll loops of the human (discord_bot.py:24).
TakenOnce ==
    [][\A a \in Readers :
          pending'[a] # pending[a] /\ pending[a] # << >> /\ polling[a] = "ready" =>
              \A b \in Readers : <<b, Head(pending[a])>> \in taken =>
                  a # b /\ {a, b} \subseteq Pollers]_vars

\* A message that is marked read and that nobody began to handle is in what a
\* reader has marked of its batch, or an error or a crash dropped it: no message
\* goes missing in the ordinary course (bus.py:26, session_consumer.py:50).
ReadIsAccountedFor ==
    \A m \in read :
        \/ \E a \in Readers : <<a, m>> \in taken \/ m \in Held(a)
        \/ m \in lost

OfSession(m) == {x \in stored : messages[x].session = messages[m].session}

\* What consumer c is run on when it handles m.
Prompt(c) == memory[c][messages[current[c]].session]

KeepsHistory(c, p, m) ==
    /\ p # << >> /\ Last(p) = m
    /\ ToSet(p) \subseteq OfSession(m)
    /\ {x \in OfSession(m) \ overtaken : x < m} \subseteq ToSet(p)
    /\ \A i, j \in DOMAIN p : i < j /\ p[i] < m => p[i] < p[j]
    /\ \/ messages[m].from = c
       \/ \E x \in OfSession(m) : x > m
       \/ \A i \in DOMAIN p : p[i] = m => i = Len(p)

\* What an agent is run on holds every older message of its session, once, in
\* order and before the newer ones, none of another session, and ends with the
\* message it handles, although the history is read while others write it
\* (session_consumer.py:93): only a message that was committed after a newer one
\* may be missing.  If it handles the newest message, and did not write it
\* itself, it is given that one once.
PromptKeepsHistory ==
    \A c \in Consumers : polling[c] = "busy" => KeepsHistory(c, Prompt(c), current[c])

\* What the code says of the message it drops from the history: that "agent.run
\* will append it" (session_consumer.py:100), so that the message is there once.
PromptHoldsMessageOnce ==
    \A c \in Consumers : polling[c] = "busy" =>
        LET p == Prompt(c)
        IN  messages[current[c]].from = c \/ \A i \in DOMAIN p : p[i] = current[c] => i = Len(p)

\* An answer is posted in the thread the question was asked in (discord_bot.py:108):
\* the mapping is saved before the question is sent, and no two questions share a
\* session unless they share the thread.
PostedWhereAsked ==
    \A p \in posted, q \in stored :
        messages[q].session = messages[p[1]].session /\ messages[q].place # NoPlace
        => messages[q].place = p[2]

\* A message to a name that is polled for is taken up, or lost to an error; it
\* is not left unread.
SentIsTaken ==
    \A m \in 1 .. MaxMessages :
        (m \in stored /\ messages[m].to \notin Strangers)
            ~> (m \in lost \/ \E a \in Readers : <<a, m>> \in taken)
=============================================================================
