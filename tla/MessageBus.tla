----------------------------- MODULE MessageBus -----------------------------
(***************************************************************************)
(* The tables `sessions` and `messages`, and the polling every reader of   *)
(* messages does: the assistant, the expert bots and the poll loops of the *)
(* front end, which read for the human.  All of them are threads or tasks  *)
(* of one process.                                                         *)
(*                                                                         *)
(* A message is named by its place in ORDER BY created_at, the time its    *)
(* sender takes before the INSERT; others see the row when it is           *)
(* committed.  A session is named by the number in its id.  Contents are   *)
(* left out.                                                               *)
(***************************************************************************)
EXTENDS Integers, Sequences, FiniteSets, SequencesExt

CONSTANTS
    Assistant,    \* the name the assistant polls for
    Experts,      \* the names of the experts that have a bot
    Human,        \* the name the front end polls for
    Strangers,    \* names nobody polls for
    Pollers,      \* the poll loops a front end may come to have
    Sessions,     \* the sessions that may come to exist: 1 .. n
    Places,       \* Discord threads
    NoPlace,      \* "not on Discord"
    MaxMessages,  \* bound on the messages of a behaviour
    MaxErrors     \* bound on the crashes and failed calls of a behaviour

ASSUME BusAssumption ==
    /\ Sessions \subseteq Nat \ {0}
    /\ Assistant # Human
    /\ {Assistant, Human} \cap Experts = {}
    /\ Strangers \cap ({Assistant, Human} \union Experts) = {}
    /\ Pollers \cap ({Assistant, Human} \union Experts) = {}
    /\ NoPlace \notin Places
    /\ MaxMessages \in Nat
    /\ MaxErrors \in Nat

VARIABLES
    sessions,  \* the ids in the table `sessions`
    counted,   \* the id a create_session in progress computed, or 0
    messages,  \* what is or was to be in the table `messages`, by created_at
    sending,   \* the message each sender has stamped and not committed, or 0
    stored,    \* the messages in the table
    overtaken, \* history: the messages committed after a newer one of their session
    read,      \* the messages whose column `read` is TRUE
    polling,   \* each reader: "ready" for the next message, "marking" what
               \* it has selected as read, or "busy" with a message
    pending,   \* the batch of a reader: what is left of its last poll
    marked,    \* how many of the batch a reader has marked
    taken,     \* history: who began to handle which message
    lost,      \* history: messages dropped from a batch by an error or a crash
    errors     \* crashes and failed calls so far

sendVars == <<messages, sending, stored, overtaken>>
pollVars == <<read, polling, pending, marked, taken, lost>>
busVars  == <<sessions, counted, sendVars, pollVars, errors>>

Consumers == {Assistant} \union Experts
Readers   == Consumers \union Pollers
Names     == Consumers \union {Human} \union Strangers

\* The name a reader polls for.
NameOf(a) == IF a \in Pollers THEN Human ELSE a

\* A message; `place` is the Discord thread the human wrote it in (history).
Messages == [session : Sessions, from : Consumers \union {Human}, to : Names,
             place : Places \union {NoPlace}]

Ids == DOMAIN messages

BusTypeOK(Creators) ==
    /\ sessions \in SUBSET Sessions
    /\ counted \in [Creators -> Nat]
    /\ messages \in Seq(Messages)
    /\ \A m \in Ids : messages[m].session \in sessions
    /\ sending \in [Creators \union Consumers -> Ids \union {0}]
    /\ stored \in SUBSET Ids
    /\ overtaken \in SUBSET stored
    /\ read \in SUBSET stored
    /\ polling \in [Readers -> {"ready", "marking", "busy"}]
    /\ pending \in [Readers -> Seq(stored)]
    /\ marked \in [Readers -> Nat]
    /\ taken \in SUBSET (Readers \X stored)
    /\ lost \in SUBSET stored
    /\ errors \in 0 .. MaxErrors

BusInit(Creators) ==
    /\ sessions = {}
    /\ counted = [k \in Creators |-> 0]
    /\ messages = << >>
    /\ sending = [k \in Creators \union Consumers |-> 0]
    /\ stored = {}
    /\ overtaken = {}
    /\ read = {}
    /\ polling = [a \in Readers |-> "ready"]
    /\ pending = [a \in Readers |-> << >>]
    /\ marked = [a \in Readers |-> 0]
    /\ taken = {}
    /\ lost = {}
    /\ errors = 0

Error == errors < MaxErrors /\ errors' = errors + 1

-----------------------------------------------------------------------------
(* Sessions *)

\* _next_session_id: COUNT(*) + 1, read in a transaction of its own.
CountSessions(k) ==
    /\ counted[k] = 0
    /\ Cardinality(sessions) + 1 \in Sessions
    /\ counted' = [counted EXCEPT ![k] = Cardinality(sessions) + 1]

\* MUTANT: INSERT ... ON CONFLICT (id) DO NOTHING.
InsertOrShareSession(k) ==
    /\ counted[k] # 0
    /\ sessions' = sessions \union {counted[k]}
    /\ counted' = [counted EXCEPT ![k] = 0]

\* create_session: the INSERT, which the primary key refuses a known id.
InsertSession(k) ==
    /\ counted[k] # 0
    /\ counted[k] \notin sessions
    /\ sessions' = sessions \union {counted[k]}
    /\ counted' = [counted EXCEPT ![k] = 0]

\* The id went to someone else since it was computed, or the call fails:
\* create_session raises.
InsertRaises(k) ==
    /\ counted[k] # 0
    /\ counted' = [counted EXCEPT ![k] = 0]
    /\ UNCHANGED sessions

-----------------------------------------------------------------------------
(* Messages *)

\* insert_message, up to _now().
Send(k, s, from, to, place) ==
    /\ sending[k] = 0
    /\ Len(messages) < MaxMessages
    /\ messages' =
          Append(messages, [session |-> s, from |-> from, to |-> to, place |-> place])
    /\ sending' = [sending EXCEPT ![k] = Len(messages) + 1]
    /\ UNCHANGED <<stored, overtaken>>

\* ... its commit.
Commit(k) ==
    LET m == sending[k] IN
    /\ m # 0
    /\ stored' = stored \union {m}
    /\ overtaken' = IF \E n \in stored : n > m /\ messages[n].session = messages[m].session
                    THEN overtaken \union {m}
                    ELSE overtaken
    /\ sending' = [sending EXCEPT ![k] = 0]
    /\ UNCHANGED <<sessions, counted, messages, pollVars, errors>>

\* ... or it raises.
SendRaises(k) ==
    /\ sending[k] # 0
    /\ Error
    /\ sending' = [sending EXCEPT ![k] = 0]
    /\ UNCHANGED <<sessions, counted, messages, stored, overtaken, pollVars>>

\* mark_read.
MarkRead(m) == read' = read \union {m}

\* ORDER BY created_at: what comes at place i has i - 1 before it.
InOrder(S) ==
    [i \in 1 .. Cardinality(S) |-> CHOOSE m \in S : Cardinality({k \in S : k < m}) = i - 1]

\* get_history.
History(s) == InOrder({m \in stored : messages[m].session = s})

\* poll_unread.
Unread(a) == InOrder({m \in stored : messages[m].to = NameOf(a) /\ m \notin read})

\* MUTANT: a reader polls although it has not emptied its batch.
PollAgain(a) ==
    /\ polling[a] = "ready"
    /\ Unread(a) # << >>
    /\ pending' = [pending EXCEPT ![a] = Unread(a)]
    /\ polling' = [polling EXCEPT ![a] = "marking"]
    /\ UNCHANGED <<sessions, counted, sendVars, read, marked, taken, lost, errors>>

\* poll, up to the SELECT; a reader polls when its batch is empty.
Poll(a) ==
    /\ polling[a] = "ready"
    /\ pending[a] = << >>
    /\ Unread(a) # << >>
    /\ pending' = [pending EXCEPT ![a] = Unread(a)]
    /\ polling' = [polling EXCEPT ![a] = "marking"]
    /\ UNCHANGED <<sessions, counted, sendVars, read, marked, taken, lost, errors>>

\* MUTANT: only the message that is handled next is marked.
MarkFirst(a) ==
    /\ polling[a] = "marking"
    /\ MarkRead(Head(pending[a]))
    /\ polling' = [polling EXCEPT ![a] = "ready"]
    /\ UNCHANGED <<sessions, counted, sendVars, pending, marked, taken, lost, errors>>

\* MUTANT: UPDATE messages SET read = TRUE WHERE to_agent = ....
MarkAll(a) ==
    /\ polling[a] = "marking"
    /\ read' = read \union ToSet(Unread(a))
    /\ polling' = [polling EXCEPT ![a] = "ready"]
    /\ UNCHANGED <<sessions, counted, sendVars, pending, marked, taken, lost, errors>>

\* poll, one turn of its loop: mark_read, a transaction per message.
Mark(a) ==
    LET n == marked[a] + 1
        last == n = Len(pending[a])
    IN
    /\ polling[a] = "marking"
    /\ MarkRead(pending[a][n])
    /\ marked' = [marked EXCEPT ![a] = IF last THEN 0 ELSE n]
    /\ polling' = [polling EXCEPT ![a] = IF last THEN "ready" ELSE "marking"]
    /\ UNCHANGED <<sessions, counted, sendVars, pending, taken, lost, errors>>

\* What a reader has marked of its batch.
Held(a) ==
    {pending[a][i] : i \in IF polling[a] = "marking" THEN 1 .. marked[a] ELSE DOMAIN pending[a]}

\* A mark_read raises: the batch is gone, and what it had marked with it.
PollRaises(a) ==
    /\ polling[a] = "marking"
    /\ Error
    /\ lost' = lost \union Held(a)
    /\ pending' = [pending EXCEPT ![a] = << >>]
    /\ marked' = [marked EXCEPT ![a] = 0]
    /\ polling' = [polling EXCEPT ![a] = "ready"]
    /\ UNCHANGED <<sessions, counted, sendVars, read, taken>>

\* The head of the batch is what the reader works on next.
Take(a, m) ==
    /\ polling[a] = "ready"
    /\ pending[a] # << >>
    /\ m = Head(pending[a])
    /\ pending' = [pending EXCEPT ![a] = Tail(@)]
    /\ taken' = taken \union {<<a, m>>}
    /\ UNCHANGED <<read, marked, lost>>

\* An exception ends a loop over the batch.
DropBatch(a) ==
    /\ lost' = lost \union Held(a)
    /\ pending' = [pending EXCEPT ![a] = << >>]
    /\ UNCHANGED <<read, marked, taken>>

\* The process goes, and every batch with it; rows stay as they are.
BatchesVanish ==
    /\ lost' = lost \union UNION {Held(a) : a \in Readers}
    /\ pending' = [a \in Readers |-> << >>]
    /\ marked' = [a \in Readers |-> 0]
    /\ polling' = [a \in Readers |-> "ready"]
    /\ counted' = [k \in DOMAIN counted |-> 0]
    /\ sending' = [k \in DOMAIN sending |-> 0]
    /\ UNCHANGED <<sessions, messages, stored, overtaken, read, taken>>
=============================================================================
