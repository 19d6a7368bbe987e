------------------------ MODULE Conversations_proofs ------------------------
(***************************************************************************)
(* Theorems about Conversations, for any assistant, experts, front end,    *)
(* poll loops, sessions and threads, and any number of messages and errors.*)
(***************************************************************************)
EXTENDS Conversations, TLAPS, FiniteSetTheorems

-----------------------------------------------------------------------------
(* ORDER BY: what InOrder returns. *)

Before(m, S) == {k \in S : k < m}

\* Of two messages, the later has more before it, and none is before itself.
LEMMA LaterHasMoreBefore ==
    ASSUME NEW n \in Nat, NEW S \in SUBSET (1 .. n)
    PROVE  /\ IsFiniteSet(S) /\ Cardinality(S) \in Nat
           /\ \A m \in S : /\ Cardinality(Before(m, S)) \in Nat
                           /\ Cardinality(Before(m, S)) < Cardinality(S)
           /\ \A l, m \in S : l < m => Cardinality(Before(l, S)) < Cardinality(Before(m, S))
<1>1. IsFiniteSet(S) /\ Cardinality(S) \in Nat
  <2>1. IsFiniteSet(1 .. n)
    BY FS_Interval
  <2>2. QED
    BY <2>1, FS_Subset, FS_CardinalityType
<1>2. ASSUME NEW T \in SUBSET S, NEW U \in SUBSET T, NEW m \in T \ U
      PROVE  /\ Cardinality(U) \in Nat /\ Cardinality(T) \in Nat
             /\ Cardinality(U) < Cardinality(T)
  <2>1. IsFiniteSet(T) /\ IsFiniteSet(U)
    BY <1>1, FS_Subset
  <2>2. Cardinality(U) <= Cardinality(T) /\ Cardinality(U) # Cardinality(T)
    BY <2>1, FS_Subset
  <2>3. QED
    BY <2>1, <2>2, FS_CardinalityType
<1>3. ASSUME NEW m \in S
      PROVE  /\ Cardinality(Before(m, S)) \in Nat
             /\ Cardinality(Before(m, S)) < Cardinality(S)
  <2>1. Before(m, S) \in SUBSET S /\ m \notin Before(m, S)
    BY DEF Before
  <2>2. QED
    BY <1>2, <2>1
<1>4. ASSUME NEW l \in S, NEW m \in S, l < m
      PROVE  Cardinality(Before(l, S)) < Cardinality(Before(m, S))
  <2>1. Before(m, S) \in SUBSET S
    BY DEF Before
  <2>2. \A k \in S : k < l => k < m
    BY <1>4
  <2>3. Before(l, S) \in SUBSET Before(m, S) /\ l \in Before(m, S)
    BY <1>4, <2>2 DEF Before
  <2>4. l \notin Before(l, S)
    <3>1. l \in Nat
      OBVIOUS
    <3>2. QED
      BY <3>1 DEF Before
  <2>5. QED
    BY <1>2, <2>1, <2>3, <2>4
<1>5. QED
  BY <1>1, <1>3, <1>4

\* InOrder lists each member of a set of messages once, the older first.
LEMMA OrderedBy ==
    ASSUME NEW n \in Nat, NEW S \in SUBSET (1 .. n)
    PROVE  /\ IsFiniteSet(S) /\ Cardinality(S) \in Nat
           /\ InOrder(S) \in Seq(S) /\ Len(InOrder(S)) = Cardinality(S)
           /\ \A i \in 1 .. Cardinality(S) :
                 InOrder(S)[i] \in S /\ Cardinality(Before(InOrder(S)[i], S)) = i - 1
           /\ \A m \in S : \E i \in 1 .. Cardinality(S) : InOrder(S)[i] = m
           /\ \A i, j \in 1 .. Cardinality(S) : i < j => InOrder(S)[i] < InOrder(S)[j]
<1> DEFINE c == Cardinality(S)
           rank == [m \in S |-> Cardinality(Before(m, S)) + 1]
<1>1. /\ IsFiniteSet(S) /\ c \in Nat
      /\ \A m \in S : Cardinality(Before(m, S)) \in Nat /\ Cardinality(Before(m, S)) < c
      /\ \A l, m \in S : l < m => Cardinality(Before(l, S)) < Cardinality(Before(m, S))
  BY LaterHasMoreBefore
<1>2. \A m \in S : m \in Nat
  OBVIOUS
<1>3. \A l, m \in S : Cardinality(Before(l, S)) = Cardinality(Before(m, S)) => l = m
  BY <1>1, <1>2
<1>4. \A i \in 1 .. c : \E m \in S : Cardinality(Before(m, S)) = i - 1
  <2> HIDE DEF c
  <2>1. rank \in [S -> 1 .. c]
    BY <1>1
  <2>2. rank \in Injection(S, 1 .. c)
    <3>1. \A l, m \in S : rank[l] = rank[m] => l = m
      BY <1>1, <1>3
    <3>2. QED
      BY <2>1, <3>1 DEF Injection, IsInjective
  <2>3. IsFiniteSet(1 .. c) /\ Cardinality(1 .. c) = c
    BY <1>1, FS_Interval
  <2>4. rank \in Surjection(S, 1 .. c)
    BY <2>2, <2>3, FS_Injection DEF c
  <2>5. \A i \in 1 .. c : \E m \in S : rank[m] = i
    BY <2>4 DEF Surjection
  <2>6. ASSUME NEW i \in 1 .. c
        PROVE  \E m \in S : Cardinality(Before(m, S)) = i - 1
    <3>1. PICK m \in S : rank[m] = i
      BY <2>5
    <3>2. Cardinality(Before(m, S)) + 1 = i /\ Cardinality(Before(m, S)) \in Nat
      BY <1>1, <3>1
    <3>3. Cardinality(Before(m, S)) = i - 1
      BY <3>2
    <3>4. QED
      BY <3>3
  <2>7. QED
    BY <2>6
<1>5. \A i \in 1 .. c : InOrder(S)[i] \in S /\ Cardinality(Before(InOrder(S)[i], S)) = i - 1
  <2> SUFFICES ASSUME NEW i \in 1 .. c
               PROVE  InOrder(S)[i] \in S /\ Cardinality(Before(InOrder(S)[i], S)) = i - 1
    OBVIOUS
  <2>1. InOrder(S)[i] = CHOOSE m \in S : Cardinality(Before(m, S)) = i - 1
    BY DEF InOrder, Before
  <2>2. \E m \in S : Cardinality(Before(m, S)) = i - 1
    BY <1>4
  <2>3. QED
    BY <2>1, <2>2
<1>6. InOrder(S) \in Seq(S) /\ Len(InOrder(S)) = c
  <2>1. InOrder(S) \in [1 .. c -> S]
    BY <1>5 DEF InOrder
  <2>2. QED
    BY <1>1, <2>1
<1>7. \A m \in S : \E i \in 1 .. c : InOrder(S)[i] = m
  <2> SUFFICES ASSUME NEW m \in S
               PROVE  \E i \in 1 .. c : InOrder(S)[i] = m
    OBVIOUS
  <2>1. PICK i : i = Cardinality(Before(m, S)) + 1
    OBVIOUS
  <2>2. i \in 1 .. c /\ i - 1 = Cardinality(Before(m, S))
    BY <1>1, <2>1
  <2>3. QED
    BY <1>3, <1>5, <2>2
<1>8. \A i, j \in 1 .. c : i < j => InOrder(S)[i] < InOrder(S)[j]
  <2> SUFFICES ASSUME NEW i \in 1 .. c, NEW j \in 1 .. c, i < j
               PROVE  InOrder(S)[i] < InOrder(S)[j]
    OBVIOUS
  <2>1. PICK l \in S, m \in S : l = InOrder(S)[i] /\ m = InOrder(S)[j]
    BY <1>5
  <2>2. Cardinality(Before(l, S)) = i - 1 /\ Cardinality(Before(m, S)) = j - 1
    BY <1>5, <2>1
  <2>3. l # m /\ ~(m < l)
    BY <1>1, <2>2
  <2>4. QED
    BY <1>2, <2>1, <2>3
<1>9. QED
  BY <1>1, <1>5, <1>6, <1>7, <1>8

-----------------------------------------------------------------------------
(* The invariants. *)

\* A consumer is busy with a message, and so is a poll loop that waits for the
\* thread it posts in; a reader marks what its batch still has; an on_message
\* call knows the thread it is for, and its session once that is inserted; the
\* terminal and Discord are not there both.
Stages ==
    /\ \A c \in Consumers : polling[c] = "busy" <=> current[c] # 0
    /\ \A p \in Pollers : polling[p] = "busy" <=> posting[p].message # 0
    /\ \A p \in Pollers : posting[p].message # 0 => posting[p].place \in Places
    /\ \A a \in Readers : IF polling[a] = "marking" THEN marked[a] < Len(pending[a])
                                                    ELSE marked[a] = 0
    /\ \A d \in Tasks : task[d].at # "free" => task[d].place \in Places /\ frontend = "discord"
    /\ \A d \in Tasks : task[d].at \in {"creating", "created"} => task[d].session # 0
    /\ active # 0 => frontend = "repl"
    /\ counted[Human] # 0 => frontend = "repl"
    /\ \A k \in Creators : counted[k] # 0 => counted[k] \in Sessions

\* The exception of TakenOnce: two readers of the human's messages.
BothPoll(a, b) == a # b /\ a \in Pollers /\ b \in Pollers

\* A batch holds messages to the reader's name, each once, that nobody took but
\* another poll loop; what of it is marked, and what was taken, is read.
Batches ==
    /\ \A a \in Readers : \A i, j \in DOMAIN pending[a] :
          pending[a][i] = pending[a][j] => i = j
    /\ \A a \in Readers : \A i \in DOMAIN pending[a] :
          /\ messages[pending[a][i]].to = NameOf(a)
          /\ \A b \in Readers : <<b, pending[a][i]>> \in taken => BothPoll(a, b)
          /\ polling[a] # "marking" \/ i <= marked[a] => pending[a][i] \in read
    /\ \A a \in Readers, m \in Ids : <<a, m>> \in taken => m \in read

\* A session is mapped to the thread its questions were asked in and its
\* answers are posted in; one whose thread is being created is mapped to none.
\* Nobody has written in the session of an on_message call, or is about to.
Threads ==
    /\ \A s \in Sessions : threadOf[s] # NoPlace => s \in sessions
    /\ \A q \in Ids : messages[q].place # NoPlace =>
                         threadOf[messages[q].session] = messages[q].place
    /\ \A x \in posted : threadOf[messages[x[1]].session] = x[2]
    /\ \A d \in Tasks : task[d].at \in {"creating", "created"} =>
          /\ threadOf[task[d].session] = NoPlace
          /\ \A q \in Ids : messages[q].session # task[d].session
          /\ \A w \in Watchers : opened[w] # task[d].session
          /\ \A e \in Tasks \ {d} : task[e].at \in {"creating", "created"} =>
                                       task[e].session # task[d].session
    /\ \A p \in Pollers : posting[p].message # 0 =>
                             threadOf[messages[posting[p].message].session] = NoPlace

-----------------------------------------------------------------------------
(* The tables grow. *)

\* A message is added to session s, written in thread p.
Appended(s, p) ==
    /\ s \in sessions'
    /\ \E v \in Messages : v.session = s /\ v.place = p /\ messages' = Append(messages, v)

\* What Send adds to the table.
LEMMA SendAppends ==
    ASSUME NEW k, NEW s \in Sessions, NEW from \in Consumers \union {Human}, NEW to \in Names,
           NEW p \in Places \union {NoPlace}, s \in sessions', Send(k, s, from, to, p)
    PROVE  Appended(s, p)
<1>1. PICK v : v = [session |-> s, from |-> from, to |-> to, place |-> p]
  OBVIOUS
<1>2. v \in Messages /\ v.session = s /\ v.place = p
  BY <1>1 DEF Messages
<1>3. messages' = Append(messages, v)
  BY <1>1 DEF Send
<1>4. QED
  BY <1>2, <1>3 DEF Appended

\* What a message is made of.
LEMMA MessageFields ==
    ASSUME TypeOK, NEW m \in Ids
    PROVE  /\ messages[m].session \in sessions /\ messages[m].session \in Sessions
           /\ messages[m].from \in Consumers \union {Human} /\ messages[m].to \in Names
           /\ messages[m].place \in Places \union {NoPlace}
<1>1. messages \in Seq(Messages) /\ m \in DOMAIN messages
      /\ messages[m].session \in sessions /\ sessions \subseteq Sessions
  BY DEF TypeOK, BusTypeOK, Ids
<1>2. messages[m] \in Messages
  BY <1>1
<1>3. PICK v \in Messages : v = messages[m]
  BY <1>2
<1>4. v.from \in Consumers \union {Human} /\ v.to \in Names /\ v.place \in Places \union {NoPlace}
  BY DEF Messages
<1>5. QED
  BY <1>1, <1>3, <1>4

\* The ids of the sessions.
LEMMA Inserted ==
    ASSUME TypeOK, Stages, NEW k \in Creators, InsertSession(k)
    PROVE  /\ sessions' = sessions \union {counted[k]} /\ counted[k] \notin sessions
           /\ counted[k] \in Sessions /\ counted[k] # 0
           /\ counted' \in [Creators -> Nat]
           /\ counted' = [counted EXCEPT ![k] = 0]
BY DEF TypeOK, BusTypeOK, Stages, InsertSession

\* The COUNT(*)+1 of create_session is kept by the one that counted, alone.
LEMMA Counted ==
    ASSUME TypeOK, NEW k \in Creators, CountSessions(k)
    PROVE  /\ counted' \in [Creators -> Nat] /\ counted'[k] \in Sessions
           /\ \A l \in Creators \ {k} : counted'[l] = counted[l]
<1>1. PICK n \in Sessions : counted' = [counted EXCEPT ![k] = n]
  BY DEF CountSessions
<1>2. n \in Nat /\ counted \in [Creators -> Nat]
  BY BusAssumption DEF TypeOK, BusTypeOK
<1>3. QED
  BY <1>1, <1>2

\* A create_session that raises changes no table; what was counted is forgotten.
LEMMA Raised ==
    ASSUME TypeOK, NEW k \in Creators, InsertRaises(k)
    PROVE  counted' \in [Creators -> Nat] /\ counted' = [counted EXCEPT ![k] = 0] /\ sessions' = sessions
BY DEF TypeOK, BusTypeOK, InsertRaises

\* Who opens sessions, who reads messages, and that none of them is another.
LEMMA WhoCreates ==
    /\ Human \in Creators /\ Tasks \subseteq Creators /\ Watchers \subseteq Creators
    /\ Experts \subseteq Consumers /\ Consumers \subseteq Readers /\ Pollers \subseteq Readers
    /\ Readers \subseteq Consumers \union Pollers
    /\ Pollers \cap Consumers = {} /\ Human \notin Consumers
    /\ Assistant \in Consumers /\ Consumers \subseteq Names /\ Human \in Names
    /\ Human \notin Tasks /\ Human \notin Watchers /\ Tasks \cap Watchers = {}
    /\ Creators \cap Consumers = {}
    /\ \A w \in Watchers : ExpertOf[w] \in Experts
    /\ 0 \notin Sessions /\ NoPlace \notin Places
BY BusAssumption, ConversationsAssumption DEF Creators, Readers, Consumers, Names

\* Readers that read for the same name both read for the human.
LEMMA SameName ==
    ASSUME NEW a \in Readers, NEW b \in Readers, a # b, NameOf(a) = NameOf(b)
    PROVE  BothPoll(a, b)
BY BusAssumption DEF NameOf, BothPoll, Readers, Consumers

\* Steps that add no session and no message.
LEMMA TablesIdle ==
    ASSUME \/ UNCHANGED vars
           \/ \E a \in Readers : Polls(a) \/ Marks(a) \/ (PollRaises(a) /\ Quiet)
           \/ \E k \in Creators \union Consumers : SendEnds(k)
           \/ \E c \in Consumers : Handle(c) \/ Finish(c)
           \/ \E s \in Sessions : ReplSwitches(s)
           \/ \E d \in Tasks : ThreadAppears(d)
           \/ \E p \in Pollers : OnReady(p) \/ Shows(p)
    PROVE  UNCHANGED <<sessions, counted, messages>>
<1>1. ASSUME NEW a \in Readers, Polls(a) \/ Marks(a) \/ (PollRaises(a) /\ Quiet)
      PROVE  UNCHANGED <<sessions, counted, messages>>
  BY <1>1 DEF Polls, Marks, Poll, Mark, PollRaises, sendVars
<1>2. ASSUME NEW k \in Creators \union Consumers, SendEnds(k)
      PROVE  UNCHANGED <<sessions, counted, messages>>
  BY <1>2 DEF SendEnds, Commit, SendRaises
<1>3. ASSUME NEW c \in Consumers, Handle(c) \/ Finish(c)
      PROVE  UNCHANGED <<sessions, counted, messages>>
  BY <1>3 DEF Handle, Finish, sendVars
<1>4. ASSUME NEW p \in Pollers, OnReady(p) \/ Shows(p)
      PROVE  UNCHANGED <<sessions, counted, messages>>
  BY <1>4 DEF OnReady, Shows, ReplShows, ReplShowRaises, BotPosts, BotMakesThread, BotPostsInNew,
     BotPassesOver, BotPostRaises, busVars, sendVars
<1>5. ASSUME NEW s \in Sessions, ReplSwitches(s)
      PROVE  UNCHANGED <<sessions, counted, messages>>
  BY <1>5 DEF ReplSwitches, busVars, sendVars
<1>6. ASSUME NEW d \in Tasks, ThreadAppears(d)
      PROVE  UNCHANGED <<sessions, counted, messages>>
  BY <1>6 DEF ThreadAppears, busVars, sendVars
<1>7. QED
  BY <1>1, <1>2, <1>3, <1>4, <1>5, <1>6 DEF vars, busVars, sendVars

\* What the agents send is of the session of the message they handle.
LEMMA AgentsSend ==
    ASSUME TypeOK, Stages, AssistantSends \/ \E e \in Experts : ExpertReplies(e)
    PROVE  /\ UNCHANGED <<sessions, counted>>
           /\ \E m \in Ids : Appended(messages[m].session, NoPlace)
<1>1. /\ current \in [Consumers -> stored \union {0}] /\ stored \subseteq Ids
      /\ \A c \in Consumers : polling[c] = "busy" => current[c] # 0
  BY DEF TypeOK, BusTypeOK, Stages
<1>2. ASSUME NEW c \in Consumers, polling[c] = "busy", NEW to \in Names,
             Send(c, messages[current[c]].session, c, to, NoPlace), sessions' = sessions
      PROVE  \E m \in Ids : Appended(messages[m].session, NoPlace)
  <2>1. PICK m \in Ids : m = current[c]
    BY <1>1, <1>2
  <2>2. PICK s \in Sessions : s = messages[m].session /\ s \in sessions
    BY MessageFields
  <2>3. Send(c, s, c, to, NoPlace)
    BY <1>2, <2>1, <2>2
  <2>4. Appended(s, NoPlace)
    BY <1>2, <2>2, <2>3, SendAppends
  <2>5. QED
    BY <2>2, <2>4
<1>3. CASE AssistantSends
  BY <1>2, <1>3, WhoCreates DEF AssistantSends
<1>4. ASSUME NEW e \in Experts, ExpertReplies(e)
      PROVE  /\ UNCHANGED <<sessions, counted>>
             /\ \E m \in Ids : Appended(messages[m].session, NoPlace)
  <2>1. /\ polling[e] = "busy" /\ UNCHANGED <<sessions, counted>> /\ e \in Consumers
        /\ Send(e, messages[current[e]].session, e, messages[current[e]].from, NoPlace)
    BY <1>4, WhoCreates DEF ExpertReplies
  <2>2. current[e] \in Ids
    BY <1>1, <2>1
  <2>3. messages[current[e]].from \in Names
    BY <2>2, MessageFields, WhoCreates
  <2>4. QED
    BY <1>2, <2>1, <2>3
<1>5. QED
  BY <1>3, <1>4

\* What a watcher sends is of the session it opened, the terminal's of its own.
LEMMA OthersSend ==
    ASSUME TypeOK, Stages
    PROVE  /\ \A w \in Watchers : ExpertNotifies(w) =>
                 /\ UNCHANGED <<sessions, counted>>
                 /\ opened[w] \in sessions /\ Appended(opened[w], NoPlace)
           /\ ReplWrites =>
                 /\ UNCHANGED <<sessions, counted>> /\ frontend = "repl"
                 /\ active \in sessions /\ Appended(active, NoPlace)
<1>1. /\ sessions \subseteq Sessions /\ 0 \notin Sessions
      /\ opened \in [Watchers -> sessions \union {0}] /\ active \in sessions \union {0}
      /\ Assistant \in Names /\ Human \in Consumers \union {Human}
      /\ \A w \in Watchers : ExpertOf[w] \in Consumers \union {Human}
  BY WhoCreates DEF TypeOK, BusTypeOK
<1>2. ASSUME NEW w \in Watchers, ExpertNotifies(w)
      PROVE  /\ UNCHANGED <<sessions, counted>>
             /\ opened[w] \in sessions /\ Appended(opened[w], NoPlace)
  <2>1. /\ opened[w] # 0 /\ Send(w, opened[w], ExpertOf[w], Assistant, NoPlace)
        /\ UNCHANGED <<sessions, counted>>
    BY <1>2 DEF ExpertNotifies
  <2>2. QED
    BY <1>1, <2>1, SendAppends
<1>3. ASSUME ReplWrites
      PROVE  /\ UNCHANGED <<sessions, counted>> /\ frontend = "repl"
             /\ active \in sessions /\ Appended(active, NoPlace)
  <2>1. /\ active # 0 /\ Send(Human, active, Human, Assistant, NoPlace)
        /\ UNCHANGED <<sessions, counted>> /\ frontend = "repl"
    BY <1>3 DEF ReplWrites, AtPrompt
  <2>2. QED
    BY <1>1, <2>1, SendAppends
<1>4. QED
  BY <1>2, <1>3

\* What an on_message call sends is of its session, written in its thread.
LEMMA TasksSend ==
    ASSUME TypeOK, Stages, NEW d \in Tasks
    PROVE  /\ BotSends(d) =>
                 /\ UNCHANGED <<sessions, counted>> /\ task[d].session \in sessions
                 /\ task[d].place \in Places /\ Appended(task[d].session, task[d].place)
           /\ BotContinues(d) =>
                 /\ UNCHANGED <<sessions, counted>>
                 /\ \E s \in sessions : /\ threadOf[s] \in Places
                                        /\ Appended(s, threadOf[s])
           /\ BotAdopts(d) =>
                 /\ task[d].place \in Places /\ Appended(counted[d], task[d].place)
<1>1. /\ sessions \subseteq Sessions /\ 0 \notin Sessions /\ live \subseteq Places
      /\ \A e \in Tasks : task[e].session \in sessions \union {0}
      /\ Assistant \in Names /\ Human \in Consumers \union {Human} /\ d \in Creators
  <2>1. \A e \in Tasks : task[e].session \in sessions \union {0}
    BY DEF TypeOK
  <2>2. QED
    BY <2>1, WhoCreates DEF TypeOK, BusTypeOK
<1>2. ASSUME BotSends(d)
      PROVE  /\ UNCHANGED <<sessions, counted>> /\ task[d].session \in sessions
             /\ task[d].place \in Places /\ Appended(task[d].session, task[d].place)
  <2>1. /\ task[d].session \in sessions /\ task[d].place \in Places
        /\ Send(d, task[d].session, Human, Assistant, task[d].place)
        /\ UNCHANGED <<sessions, counted>>
    BY <1>1, <1>2 DEF BotSends, Stages
  <2>2. QED
    BY <1>1, <2>1, SendAppends
<1>3. ASSUME BotContinues(d)
      PROVE  /\ UNCHANGED <<sessions, counted>>
             /\ \E s \in sessions : threadOf[s] \in Places /\ Appended(s, threadOf[s])
  <2>1. PICK t \in live : \E s \in SessionsOf(t) : Send(d, s, Human, Assistant, t)
    BY <1>3 DEF BotContinues
  <2> PICK s \in SessionsOf(t) : Send(d, s, Human, Assistant, t)
    BY <2>1
  <2>2. s \in sessions /\ threadOf[s] = t /\ t \in Places /\ UNCHANGED <<sessions, counted>>
    BY <1>1, <1>3 DEF SessionsOf, BotContinues
  <2>3. Appended(s, t)
    BY <1>1, <2>1, <2>2, SendAppends
  <2>4. QED
    BY <2>2, <2>3
<1>4. ASSUME BotAdopts(d)
      PROVE  task[d].place \in Places /\ Appended(counted[d], task[d].place)
  <2>1. /\ InsertSession(d) /\ Send(d, counted[d], Human, Assistant, task[d].place)
        /\ task[d].place \in Places
    BY <1>4 DEF BotAdopts, Stages
  <2>2. counted[d] \in sessions' /\ counted[d] \in Sessions
    BY <1>1, <2>1, Inserted
  <2>3. QED
    BY <1>1, <2>1, <2>2, SendAppends
<1>5. QED
  BY <1>2, <1>3, <1>4

\* Nobody deletes a session or a message, and a message is of a session.
LEMMA TablesGrow ==
    ASSUME TypeOK, Stages, [Next]_vars
    PROVE  /\ sessions \subseteq sessions' /\ sessions' \subseteq Sessions
           /\ counted' \in [Creators -> Nat]
           /\ messages' = messages \/ \E s, p : Appended(s, p)
<1>1. sessions \subseteq Sessions /\ counted \in [Creators -> Nat]
  BY DEF TypeOK, BusTypeOK
<1> DEFINE Grown == /\ sessions \subseteq sessions' /\ sessions' \subseteq Sessions
                    /\ counted' \in [Creators -> Nat]
                    /\ messages' = messages \/ \E s, p : Appended(s, p)
<1>2. CASE \/ UNCHANGED vars
           \/ \E a \in Readers : Polls(a) \/ Marks(a) \/ (PollRaises(a) /\ Quiet)
           \/ \E k \in Creators \union Consumers : SendEnds(k)
           \/ \E c \in Consumers : Handle(c) \/ Finish(c)
           \/ \E s \in Sessions : ReplSwitches(s)
           \/ \E d \in Tasks : ThreadAppears(d)
           \/ \E p \in Pollers : OnReady(p) \/ Shows(p)
  <2>1. UNCHANGED <<sessions, counted, messages>>
    BY <1>2, TablesIdle
  <2>2. QED
    BY <1>1, <2>1
<1>3. CASE \/ \E w \in Watchers : ExpertCounts(w)
           \/ ReplCounts
           \/ \E d \in Tasks : BotAsked(d) \/ BotAskedInThread(d)
  <2>1. PICK k \in Creators : CountSessions(k) /\ UNCHANGED <<sessions, messages>>
    BY <1>3, WhoCreates DEF ExpertCounts, ReplCounts, BotAsked, BotAskedInThread, sendVars
  <2>2. QED
    BY <1>1, <2>1, Counted
<1>4. CASE AssistantSends \/ \E e \in Experts : ExpertReplies(e)
  <2>1. UNCHANGED <<sessions, counted>> /\ \E s, p : Appended(s, p)
    BY <1>4, AgentsSend
  <2>2. QED
    BY <1>1, <2>1
<1>5. ASSUME NEW w \in Watchers, ExpertOpens(w)
      PROVE  Grown
  <2>1. messages' = messages /\ w \in Creators /\ (InsertSession(w) \/ InsertRaises(w))
    BY <1>5, WhoCreates DEF ExpertOpens, sendVars
  <2>2. QED
    BY <1>1, <2>1, Inserted, Raised
<1>6. CASE ReplWrites \/ \E w \in Watchers : ExpertNotifies(w)
  <2>1. UNCHANGED <<sessions, counted>> /\ \E s, p : Appended(s, p)
    BY <1>6, OthersSend
  <2>2. QED
    BY <1>1, <2>1
<1>7. CASE ReplOpens
  <2>1. messages' = messages /\ Human \in Creators /\ InsertSession(Human)
    BY <1>7, WhoCreates DEF ReplOpens, sendVars
  <2>2. QED
    BY <1>1, <2>1, Inserted
<1>8. ASSUME NEW d \in Tasks, BotOpens(d) \/ BotAdopts(d)
      PROVE  Grown
  <2>1. d \in Creators /\ InsertSession(d)
    BY <1>8, WhoCreates DEF BotOpens, BotAdopts
  <2>2. messages' = messages \/ \E s, p : Appended(s, p)
    <3>1. BotOpens(d) => messages' = messages
      BY DEF BotOpens, sendVars
    <3>2. QED
      BY <1>8, <3>1, TasksSend
  <2>3. QED
    BY <1>1, <2>1, <2>2, Inserted
<1>9. ASSUME NEW d \in Tasks, BotSends(d) \/ BotContinues(d)
      PROVE  Grown
  <2>1. UNCHANGED <<sessions, counted>> /\ \E s, p : Appended(s, p)
    BY <1>9, TasksSend
  <2>2. QED
    BY <1>1, <2>1
<1>10. ASSUME NEW d \in Tasks, BotGivesUp(d)
       PROVE  Grown
  <2>1. messages' = messages /\ d \in Creators
        /\ (InsertRaises(d) \/ UNCHANGED <<sessions, counted>>)
    BY <1>10, WhoCreates DEF BotGivesUp, sendVars
  <2>2. QED
    BY <1>1, <2>1, Raised
<1>11. CASE Restart
  BY <1>1, <1>11 DEF Restart, BatchesVanish
<1>12. QED
  BY <1>2, <1>3, <1>4, <1>5, <1>6, <1>7, <1>8, <1>9, <1>10, <1>11 DEF Next

\* A message stays what it is.
LEMMA MessagesStay ==
    ASSUME TypeOK, Stages, [Next]_vars
    PROVE  /\ messages' \in Seq(Messages) /\ Ids \subseteq Ids' /\ Ids \subseteq Nat \ {0}
           /\ \A m \in Ids : messages'[m] = messages[m]
           /\ \A m \in Ids' : messages'[m].session \in sessions'
<1>1. /\ messages \in Seq(Messages) /\ \A m \in Ids : messages[m].session \in sessions
  BY DEF TypeOK, BusTypeOK
<1>2. Ids = 1 .. Len(messages) /\ Len(messages) \in Nat /\ Ids \subseteq Nat \ {0}
  <2>1. Ids = 1 .. Len(messages) /\ Len(messages) \in Nat
    BY <1>1 DEF Ids
  <2>2. QED
    BY <2>1
<1>3. sessions \subseteq sessions'
  BY TablesGrow
<1>4. CASE messages' = messages
  <2>1. Ids' = Ids
    BY <1>4 DEF Ids
  <2>2. QED
    BY <1>1, <1>2, <1>3, <1>4, <2>1
<1>5. ASSUME NEW s, NEW p, Appended(s, p)
      PROVE  /\ messages' \in Seq(Messages) /\ Ids \subseteq Ids'
             /\ \A m \in Ids : messages'[m] = messages[m]
             /\ \A m \in Ids' : messages'[m].session \in sessions'
  <2>1. PICK v \in Messages : v.session = s /\ messages' = Append(messages, v)
    BY <1>5 DEF Appended
  <2>2. s \in sessions'
    BY <1>5 DEF Appended
  <2>3. /\ messages' \in Seq(Messages) /\ DOMAIN messages' = 1 .. Len(messages) + 1
        /\ \A m \in 1 .. Len(messages) : messages'[m] = messages[m]
        /\ messages'[Len(messages) + 1] = v
    BY <1>1, <2>1
  <2>4. Ids' = Ids \union {Len(messages) + 1}
    BY <1>2, <2>3 DEF Ids
  <2>5. \A m \in Ids : messages'[m] = messages[m]
    BY <1>2, <2>3
  <2>6. \A m \in Ids' : messages'[m].session \in sessions'
    BY <1>1, <1>3, <2>1, <2>2, <2>3, <2>4, <2>5
  <2>7. QED
    BY <2>3, <2>4, <2>5, <2>6
<1>6. QED
  BY <1>2, <1>4, <1>5, TablesGrow

\* What a step does to the messages in flight and in the table.
LEMMA StoreStep ==
    ASSUME [Next]_vars
    PROVE  /\ UNCHANGED <<stored, overtaken>> \/ \E k \in Creators \union Consumers : Commit(k)
           /\ \/ UNCHANGED sending
              \/ \E k \in Creators \union Consumers :
                    \/ sending' = [sending EXCEPT ![k] = 0]
                    \/ \E s, from, to, p : Send(k, s, from, to, p)
              \/ sending' = [k \in DOMAIN sending |-> 0]
<1> DEFINE Goal == /\ \/ UNCHANGED <<stored, overtaken>>
                      \/ \E k \in Creators \union Consumers : Commit(k)
                   /\ \/ UNCHANGED sending
                      \/ \E k \in Creators \union Consumers :
                            \/ sending' = [sending EXCEPT ![k] = 0]
                            \/ \E s, from, to, p : Send(k, s, from, to, p)
                      \/ sending' = [k \in DOMAIN sending |-> 0]
<1>1. ASSUME UNCHANGED <<sending, stored, overtaken>>
      PROVE  Goal
  BY <1>1
<1>2. ASSUME NEW k \in Creators \union Consumers, \E s, from, to, p : Send(k, s, from, to, p)
      PROVE  Goal
  <2>1. UNCHANGED <<stored, overtaken>>
    BY <1>2 DEF Send
  <2>2. QED
    BY <1>2, <2>1
<1>3. ASSUME NEW k \in Creators \union Consumers, SendEnds(k)
      PROVE  Goal
  BY <1>3 DEF SendEnds, Commit, SendRaises
<1>4. CASE \/ UNCHANGED vars
           \/ \E a \in Readers : Polls(a) \/ Marks(a) \/ (PollRaises(a) /\ Quiet)
           \/ \E c \in Consumers : Handle(c) \/ Finish(c)
           \/ \E w \in Watchers : ExpertCounts(w) \/ ExpertOpens(w)
           \/ ReplCounts \/ ReplOpens \/ \E s \in Sessions : ReplSwitches(s)
           \/ \E d \in Tasks : \/ BotAsked(d) \/ BotOpens(d) \/ ThreadAppears(d)
                               \/ BotAskedInThread(d) \/ BotGivesUp(d)
  BY <1>1, <1>4 DEF vars, busVars, sendVars, Polls, Marks, Poll, Mark, PollRaises, Handle, Finish,
     ExpertCounts, ExpertOpens, ReplCounts, ReplOpens, ReplSwitches, BotAsked, BotOpens,
     ThreadAppears, BotAskedInThread, BotGivesUp
<1>5. ASSUME NEW p \in Pollers, OnReady(p) \/ Shows(p)
      PROVE  Goal
  BY <1>1, <1>5 DEF OnReady, Shows, ReplShows, ReplShowRaises, BotPosts, BotMakesThread,
     BotPostsInNew, BotPassesOver, BotPostRaises, busVars, sendVars
<1>6. CASE AssistantSends
  BY <1>2, <1>6, WhoCreates DEF AssistantSends
<1>7. ASSUME NEW e \in Experts, ExpertReplies(e)
      PROVE  Goal
  BY <1>2, <1>7, WhoCreates DEF ExpertReplies
<1>8. ASSUME NEW w \in Watchers, ExpertNotifies(w)
      PROVE  Goal
  BY <1>2, <1>8, WhoCreates DEF ExpertNotifies
<1>9. CASE ReplWrites
  BY <1>2, <1>9, WhoCreates DEF ReplWrites
<1>10. ASSUME NEW d \in Tasks, BotSends(d) \/ BotAdopts(d) \/ BotContinues(d)
       PROVE  Goal
  BY <1>2, <1>10, WhoCreates DEF BotSends, BotAdopts, BotContinues
<1>11. CASE Restart
  BY <1>11 DEF Restart, BatchesVanish
<1>12. QED
  BY <1>3, <1>4, <1>5, <1>6, <1>7, <1>8, <1>9, <1>10, <1>11 DEF Next

\* The messages in flight and in the table keep their types.
LEMMA StoreTypes ==
    ASSUME TypeOK, Stages, [Next]_vars
    PROVE  /\ stored \subseteq stored' /\ stored' \subseteq Ids' /\ overtaken' \subseteq stored'
           /\ overtaken \subseteq overtaken'
           /\ sending' \in [Creators \union Consumers -> Ids' \union {0}]
<1>1. /\ stored \subseteq Ids /\ overtaken \subseteq stored
      /\ sending \in [Creators \union Consumers -> Ids \union {0}]
      /\ messages \in Seq(Messages)
  BY DEF TypeOK, BusTypeOK
<1>2. Ids \subseteq Ids'
  BY MessagesStay
<1>3. ASSUME NEW k \in Creators \union Consumers, Commit(k)
      PROVE  /\ stored \subseteq stored' /\ stored' \subseteq Ids
             /\ overtaken' \subseteq stored' /\ overtaken \subseteq overtaken'
  <2>1. PICK m \in Ids : m = sending[k] /\ stored' = stored \union {m}
                         /\ (overtaken' = overtaken \/ overtaken' = overtaken \union {m})
    BY <1>1, <1>3 DEF Commit
  <2>2. QED
    BY <1>1, <2>1
<1>4. ASSUME NEW k \in Creators \union Consumers,
             \E s, from, to, p : Send(k, s, from, to, p)
      PROVE  sending' \in [Creators \union Consumers -> Ids' \union {0}]
  <2>1. PICK v : /\ messages' = Append(messages, v)
                 /\ sending' = [sending EXCEPT ![k] = Len(messages) + 1]
    BY <1>4 DEF Send
  <2>2. Len(messages) + 1 \in DOMAIN messages'
    BY <1>1, <2>1
  <2>3. QED
    BY <1>1, <1>2, <2>1, <2>2 DEF Ids
<1>5. sending' \in [Creators \union Consumers -> Ids' \union {0}]
  BY <1>1, <1>2, <1>4, StoreStep
<1>6. QED
  BY <1>1, <1>2, <1>3, <1>5, StoreStep

-----------------------------------------------------------------------------
(* The batches. *)

\* What a SELECT of messages returns.
LEMMA Selected ==
    ASSUME TypeOK, NEW S \in SUBSET stored
    PROVE  /\ InOrder(S) \in Seq(S) /\ InOrder(S) \in Seq(stored)
           /\ Cardinality(S) \in Nat /\ Len(InOrder(S)) = Cardinality(S)
           /\ DOMAIN InOrder(S) = 1 .. Cardinality(S)
           /\ \A i \in DOMAIN InOrder(S) : InOrder(S)[i] \in S
           /\ \A m \in S : \E i \in DOMAIN InOrder(S) : InOrder(S)[i] = m
           /\ \A i, j \in DOMAIN InOrder(S) : i < j => InOrder(S)[i] < InOrder(S)[j]
           /\ \A i, j \in DOMAIN InOrder(S) : InOrder(S)[i] = InOrder(S)[j] => i = j
<1>1. Len(messages) \in Nat /\ Ids = 1 .. Len(messages) /\ stored \subseteq Ids
  <2>1. messages \in Seq(Messages) /\ stored \subseteq Ids
    BY DEF TypeOK, BusTypeOK
  <2>2. QED
    BY <2>1 DEF Ids
<1>2. S \in SUBSET (1 .. Len(messages))
  BY <1>1
<1>3. /\ Cardinality(S) \in Nat /\ InOrder(S) \in Seq(S) /\ Len(InOrder(S)) = Cardinality(S)
      /\ \A i \in 1 .. Cardinality(S) : InOrder(S)[i] \in S
      /\ \A m \in S : \E i \in 1 .. Cardinality(S) : InOrder(S)[i] = m
      /\ \A i, j \in 1 .. Cardinality(S) : i < j => InOrder(S)[i] < InOrder(S)[j]
  BY <1>1, <1>2, OrderedBy
<1>4. PICK q \in Seq(S) : q = InOrder(S)
  BY <1>3
<1>5. q \in Seq(stored) /\ DOMAIN q = 1 .. Cardinality(S)
  BY <1>3, <1>4
<1>6. ASSUME NEW i \in DOMAIN q, NEW j \in DOMAIN q, q[i] = q[j]
      PROVE  i = j
  <2>1. i \in Nat /\ j \in Nat /\ q[i] \in Nat
    <3>1. i \in Nat /\ j \in Nat /\ q[i] \in S
      BY <1>3, <1>4, <1>5
    <3>2. \A x \in S : x \in Nat
      BY <1>2
    <3>3. QED
      BY <3>1, <3>2
  <2>2. i < j => q[i] < q[j]
    BY <1>3, <1>4, <1>5
  <2>3. j < i => q[j] < q[i]
    BY <1>3, <1>4, <1>5
  <2>4. QED
    BY <1>6, <2>1, <2>2, <2>3
<1>7. QED
  BY <1>3, <1>4, <1>5, <1>6

\* A batch without its first.
LEMMA Dropped ==
    ASSUME NEW T, NEW q \in Seq(T), q # << >>
    PROVE  /\ Tail(q) \in Seq(T) /\ Head(q) \in T /\ Head(q) = q[1] /\ 1 \in DOMAIN q
           /\ \A i \in DOMAIN Tail(q) : i + 1 \in DOMAIN q /\ Tail(q)[i] = q[i + 1] /\ i + 1 # 1
           /\ ToSet(q) = ToSet(Tail(q)) \union {Head(q)}
<1>1. /\ Len(q) \in Nat \ {0} /\ DOMAIN q = 1 .. Len(q)
      /\ Tail(q) \in Seq(T) /\ Head(q) \in T /\ Head(q) = q[1]
      /\ DOMAIN Tail(q) = 1 .. Len(q) - 1
      /\ \A i \in DOMAIN Tail(q) : Tail(q)[i] = q[i + 1]
  OBVIOUS
<1>2. \A i \in DOMAIN Tail(q) : i + 1 \in DOMAIN q /\ i + 1 # 1
  BY <1>1
<1>3. \A i \in DOMAIN q : i = 1 \/ (i - 1 \in DOMAIN Tail(q) /\ (i - 1) + 1 = i)
  BY <1>1
<1>4. ASSUME NEW i \in DOMAIN q
      PROVE  q[i] \in ToSet(Tail(q)) \union {Head(q)}
  BY <1>1, <1>3 DEF ToSet
<1>5. ASSUME NEW i \in DOMAIN Tail(q)
      PROVE  Tail(q)[i] \in ToSet(q)
  BY <1>1, <1>2 DEF ToSet
<1>6. Head(q) \in ToSet(q)
  BY <1>1 DEF ToSet
<1>7. ToSet(q) = ToSet(Tail(q)) \union {Head(q)}
  BY <1>4, <1>5, <1>6 DEF ToSet
<1>8. QED
  BY <1>1, <1>2, <1>7

\* What becomes of the batches in a step.
Begun(a, m) ==
    /\ Take(a, m)
    /\ polling' = [polling EXCEPT ![a] = "busy"] \/ UNCHANGED polling

Given(a) ==
    /\ lost' = lost \union Held(a)
    /\ pending' = [pending EXCEPT ![a] = << >>]
    /\ \/ marked' = [marked EXCEPT ![a] = 0]
       \/ polling[a] # "marking" /\ UNCHANGED marked
    /\ \/ polling' = [polling EXCEPT ![a] = "ready"]
       \/ polling[a] # "marking" /\ UNCHANGED polling
    /\ UNCHANGED <<read, taken>>

Rested(a) ==
    /\ polling[a] = "busy" /\ polling' = [polling EXCEPT ![a] = "ready"]
    /\ UNCHANGED <<read, taken, lost, pending, marked>>

\* What a step does to the batches: somebody polls, marks, drops its batch,
\* begins to handle a message or ends; or the batches are lost.
LEMMA BatchStep ==
    ASSUME [Next]_vars
    PROVE  \/ UNCHANGED pollVars
           \/ \E a \in Readers : Polls(a) \/ Marks(a) \/ Given(a) \/ Rested(a)
           \/ \E a \in Readers, m \in Ids : Begun(a, m)
           \/ BatchesVanish
<1>1. CASE UNCHANGED vars
  BY <1>1 DEF vars, busVars
<1>2. ASSUME NEW a \in Readers, Polls(a) \/ Marks(a) \/ (PollRaises(a) /\ Quiet)
      PROVE  \E b \in Readers : Polls(b) \/ Marks(b) \/ Given(b)
  BY <1>2 DEF PollRaises, Given
<1>3. ASSUME NEW c \in Consumers, Handle(c)
      PROVE  \E a \in Readers, m \in Ids : Begun(a, m)
  <2>1. PICK m \in Ids : Take(c, m)
    BY <1>3 DEF Handle
  <2>2. Begun(c, m) /\ c \in Readers
    BY <1>3, <2>1, WhoCreates DEF Handle, Begun
  <2>3. QED
    BY <2>2
<1>4. ASSUME NEW c \in Consumers, Finish(c)
      PROVE  Rested(c) /\ c \in Readers
  BY <1>4, WhoCreates DEF Finish, Rested
<1>5. ASSUME NEW p \in Pollers, Shows(p)
      PROVE  p \in Readers /\ (Given(p) \/ Rested(p) \/ \E m \in Ids : Begun(p, m))
  <2>1. CASE ReplShows(p) \/ BotPosts(p) \/ BotPassesOver(p)
    <3>1. (\E m \in Ids : Take(p, m)) /\ UNCHANGED polling
      BY <2>1 DEF ReplShows, BotPosts, BotPassesOver
    <3>2. QED
      BY <3>1, WhoCreates DEF Begun
  <2>2. CASE BotMakesThread(p)
    <3>1. (\E m \in Ids : Take(p, m)) /\ polling' = [polling EXCEPT ![p] = "busy"]
      BY <2>2 DEF BotMakesThread
    <3>2. QED
      BY <3>1, WhoCreates DEF Begun
  <2>3. CASE BotPostsInNew(p)
    BY <2>3, WhoCreates DEF BotPostsInNew, Rested
  <2>4. CASE ReplShowRaises(p) \/ BotPostRaises(p)
    BY <2>4, WhoCreates DEF ReplShowRaises, BotPostRaises, DropBatch, Given
  <2>5. QED
    BY <1>5, <2>1, <2>2, <2>3, <2>4 DEF Shows
<1>6. CASE Restart
  BY <1>6 DEF Restart
<1>7. CASE \/ \E k \in Creators \union Consumers : SendEnds(k)
           \/ \E w \in Watchers : ExpertCounts(w) \/ ExpertOpens(w) \/ ExpertNotifies(w)
           \/ AssistantSends \/ \E e \in Experts : ExpertReplies(e)
           \/ ReplCounts \/ ReplOpens \/ ReplWrites \/ \E s \in Sessions : ReplSwitches(s)
           \/ \E d \in Tasks :
                 \/ BotAsked(d) \/ BotOpens(d) \/ ThreadAppears(d) \/ BotSends(d)
                 \/ BotContinues(d) \/ BotAskedInThread(d) \/ BotAdopts(d) \/ BotGivesUp(d)
           \/ \E p \in Pollers : OnReady(p)
  BY <1>7 DEF SendEnds, Commit, SendRaises, ExpertCounts, ExpertOpens, ExpertNotifies,
     AssistantSends, ExpertReplies, ReplCounts, ReplOpens, ReplWrites, ReplSwitches, BotAsked,
     BotOpens, ThreadAppears, BotSends, BotContinues, BotAskedInThread, BotAdopts, BotGivesUp,
     OnReady, busVars
<1>8. QED
  BY <1>1, <1>2, <1>3, <1>4, <1>5, <1>6, <1>7 DEF Next

\* The unread messages of a reader.
LEMMA UnreadAre ==
    ASSUME TypeOK, NEW a \in Readers, NEW q, q = Unread(a)
    PROVE  /\ q \in Seq(stored)
           /\ \A i \in DOMAIN q : /\ q[i] \in stored /\ messages[q[i]].to = NameOf(a)
                                  /\ q[i] \notin read
           /\ \A i, j \in DOMAIN q : q[i] = q[j] => i = j
<1> DEFINE S == {m \in stored : messages[m].to = NameOf(a) /\ m \notin read}
<1>1. S \in SUBSET stored /\ q = InOrder(S)
  BY DEF Unread
<1> HIDE DEF S
<1>2. /\ q \in Seq(stored) /\ \A i \in DOMAIN q : q[i] \in S
      /\ \A i, j \in DOMAIN q : q[i] = q[j] => i = j
  BY <1>1, Selected
<1>3. QED
  BY <1>2 DEF S

\* What the readers mark and hold, in the words of the functions.
LEMMA BatchFacts ==
    ASSUME TypeOK, Stages
    PROVE  /\ read \subseteq stored /\ taken \subseteq Readers \X stored /\ lost \subseteq stored
           /\ polling \in [Readers -> {"ready", "marking", "busy"}]
           /\ pending \in [Readers -> Seq(stored)] /\ marked \in [Readers -> Nat]
           /\ \A a \in Readers : /\ DOMAIN pending[a] = 1 .. Len(pending[a])
                                 /\ Len(pending[a]) \in Nat
                                 /\ \A i \in DOMAIN pending[a] : pending[a][i] \in stored
           /\ \A a \in Readers : polling[a] = "marking" => marked[a] + 1 \in DOMAIN pending[a]
           /\ \A a \in Readers : polling[a] # "marking" => marked[a] = 0
           /\ \A a \in Readers : Held(a) \subseteq stored
<1>1. /\ read \subseteq stored /\ taken \subseteq Readers \X stored /\ lost \subseteq stored
      /\ polling \in [Readers -> {"ready", "marking", "busy"}]
      /\ pending \in [Readers -> Seq(stored)] /\ marked \in [Readers -> Nat]
  BY DEF TypeOK, BusTypeOK
<1>2. \A a \in Readers : /\ DOMAIN pending[a] = 1 .. Len(pending[a])
                         /\ Len(pending[a]) \in Nat
                         /\ \A i \in DOMAIN pending[a] : pending[a][i] \in stored
  BY <1>1
<1>3. /\ \A a \in Readers : polling[a] = "marking" => marked[a] < Len(pending[a])
      /\ \A a \in Readers : polling[a] # "marking" => marked[a] = 0
  BY DEF Stages
<1>4. \A a \in Readers : polling[a] = "marking" =>
         marked[a] + 1 \in DOMAIN pending[a] /\ 1 .. marked[a] \subseteq DOMAIN pending[a]
  BY <1>1, <1>2, <1>3
<1>5. \A a \in Readers : Held(a) \subseteq stored
  BY <1>2, <1>4 DEF Held
<1>6. QED
  BY <1>1, <1>2, <1>3, <1>4, <1>5

\* mark_read of the next of a batch.
LEMMA Marked ==
    ASSUME TypeOK, Stages, NEW a \in Readers, Marks(a)
    PROVE  \E n \in DOMAIN pending[a] :
              /\ polling[a] = "marking" /\ n = marked[a] + 1
              /\ read' = read \union {pending[a][n]}
              /\ UNCHANGED <<pending, taken, lost>>
              /\ \/ /\ n = Len(pending[a]) /\ polling' = [polling EXCEPT ![a] = "ready"]
                    /\ marked' = [marked EXCEPT ![a] = 0]
                 \/ /\ n # Len(pending[a]) /\ polling' = [polling EXCEPT ![a] = "marking"]
                    /\ marked' = [marked EXCEPT ![a] = n]
<1>1. polling[a] = "marking" /\ marked[a] + 1 \in DOMAIN pending[a]
  BY BatchFacts DEF Marks, Mark
<1>2. QED
  BY <1>1 DEF Marks, Mark, MarkRead

\* The batches, the marks and what the readers do keep their types, in a table
\* that does not shrink.
LEMMA BatchTypes ==
    ASSUME TypeOK, Stages, [Next]_vars
    PROVE  /\ read' \in SUBSET stored' /\ taken' \in SUBSET (Readers \X stored')
           /\ lost' \in SUBSET stored'
           /\ polling' \in [Readers -> {"ready", "marking", "busy"}]
           /\ pending' \in [Readers -> Seq(stored')]
           /\ marked' \in [Readers -> Nat]
           /\ \A a \in Readers : IF polling'[a] = "marking" THEN marked'[a] < Len(pending'[a])
                                                            ELSE marked'[a] = 0
<1> DEFINE Staged == \A a \in Readers : IF polling'[a] = "marking" THEN marked'[a] < Len(pending'[a])
                                                                   ELSE marked'[a] = 0
           Typed == /\ read' \in SUBSET stored /\ taken' \in SUBSET (Readers \X stored)
                    /\ lost' \in SUBSET stored
                    /\ polling' \in [Readers -> {"ready", "marking", "busy"}]
                    /\ pending' \in [Readers -> Seq(stored)]
                    /\ marked' \in [Readers -> Nat]
<1>1. /\ read \subseteq stored /\ taken \subseteq Readers \X stored /\ lost \subseteq stored
      /\ polling \in [Readers -> {"ready", "marking", "busy"}]
      /\ pending \in [Readers -> Seq(stored)] /\ marked \in [Readers -> Nat]
      /\ \A a \in Readers : Held(a) \subseteq stored
      /\ \A a \in Readers : polling[a] = "marking" => marked[a] < Len(pending[a])
      /\ \A a \in Readers : polling[a] # "marking" => marked[a] = 0
  BY BatchFacts DEF Stages
<1>2. stored \subseteq stored' /\ Seq(stored) \subseteq Seq(stored')
  BY StoreTypes
<1>3. SUFFICES Typed /\ Staged
  BY <1>2
<1>4. CASE UNCHANGED pollVars
  BY <1>1, <1>4 DEF pollVars
<1>5. ASSUME NEW a \in Readers, Polls(a)
      PROVE  Typed /\ Staged
  <2>1. PICK q : q = Unread(a)
    OBVIOUS
  <2>2. /\ q \in Seq(stored) /\ q # << >> /\ polling[a] = "ready"
        /\ polling' = [polling EXCEPT ![a] = "marking"]
        /\ pending' = [pending EXCEPT ![a] = q]
        /\ UNCHANGED <<read, marked, taken, lost>>
    BY <1>5, <2>1, UnreadAre DEF Polls, Poll
  <2>3. Len(q) \in Nat /\ Len(q) > 0
    BY <2>2
  <2>4. Typed
    BY <1>1, <2>2
  <2>5. marked'[a] < Len(pending'[a]) /\ polling'[a] = "marking"
        /\ \A b \in Readers \ {a} : polling'[b] = polling[b] /\ pending'[b] = pending[b]
    BY <1>1, <2>2, <2>3
  <2>6. QED
    BY <1>1, <2>2, <2>4, <2>5
<1>6. ASSUME NEW a \in Readers, Marks(a)
      PROVE  Typed /\ Staged
  <2>1. PICK n \in DOMAIN pending[a] :
              /\ read' = read \union {pending[a][n]}
              /\ UNCHANGED <<pending, taken, lost>>
              /\ \/ /\ n = Len(pending[a]) /\ polling' = [polling EXCEPT ![a] = "ready"]
                    /\ marked' = [marked EXCEPT ![a] = 0]
                 \/ /\ n # Len(pending[a]) /\ polling' = [polling EXCEPT ![a] = "marking"]
                    /\ marked' = [marked EXCEPT ![a] = n]
    BY <1>6, Marked
  <2>2. /\ pending[a][n] \in stored /\ n \in Nat
        /\ n # Len(pending[a]) => n < Len(pending[a])
    BY <1>1
  <2>3. Typed
    <3>1. read' \in SUBSET stored /\ UNCHANGED <<pending, taken, lost>>
      BY <1>1, <2>1, <2>2
    <3>2. polling' \in [Readers -> {"ready", "marking", "busy"}]
      BY <1>1, <2>1
    <3>3. marked' \in [Readers -> Nat]
      <4>1. PICK k \in {0, n} : marked' = [marked EXCEPT ![a] = k]
        BY <2>1
      <4>2. k \in Nat
        BY <2>2
      <4>3. QED
        BY <1>1, <4>1, <4>2
    <3>4. QED
      BY <1>1, <3>1, <3>2, <3>3
  <2>4. Staged
    BY <1>1, <2>1, <2>2
  <2>5. QED
    BY <2>3, <2>4
<1>7. ASSUME NEW a \in Readers, Given(a)
      PROVE  Typed /\ Staged
  <2>1. Typed
    BY <1>1, <1>7 DEF Given
  <2>2. /\ polling'[a] # "marking" /\ marked'[a] = 0
        /\ \A b \in Readers \ {a} : /\ polling'[b] = polling[b] /\ pending'[b] = pending[b]
                                    /\ marked'[b] = marked[b]
    BY <1>1, <1>7 DEF Given
  <2>3. QED
    BY <1>1, <2>1, <2>2
<1>8. ASSUME NEW a \in Readers, NEW m \in Ids, Begun(a, m)
      PROVE  Typed /\ Staged
  <2>1. PICK q \in Seq(stored) : q = pending[a]
    BY <1>1
  <2>2. /\ q # << >> /\ m = Head(q) /\ pending' = [pending EXCEPT ![a] = Tail(q)]
        /\ taken' = taken \union {<<a, m>>} /\ UNCHANGED <<read, marked, lost>>
        /\ polling' = [polling EXCEPT ![a] = "busy"] \/ UNCHANGED polling
        /\ polling[a] = "ready"
    BY <1>8, <2>1 DEF Begun, Take
  <2>3. Tail(q) \in Seq(stored) /\ m \in stored
    BY <2>1, <2>2, Dropped
  <2>4. PICK r \in Seq(stored) : r = Tail(q)
    BY <2>3
  <2>5. Typed
    <3>1. taken' \in SUBSET (Readers \X stored)
      BY <1>1, <2>2, <2>3
    <3>2. pending' \in [Readers -> Seq(stored)]
      BY <1>1, <2>2, <2>4
    <3>3. polling' \in [Readers -> {"ready", "marking", "busy"}]
      BY <1>1, <2>2
    <3>4. QED
      BY <1>1, <2>2, <3>1, <3>2, <3>3
  <2>6. /\ polling'[a] # "marking"
        /\ \A b \in Readers \ {a} : polling'[b] = polling[b] /\ pending'[b] = pending[b]
    BY <1>1, <2>2
  <2>7. QED
    BY <1>1, <2>2, <2>5, <2>6
<1>9. ASSUME NEW a \in Readers, Rested(a)
      PROVE  Typed /\ Staged
  BY <1>1, <1>9 DEF Rested
<1>10. CASE BatchesVanish
  <2>1. lost' \in SUBSET stored
    BY <1>1, <1>10 DEF BatchesVanish
  <2>2. << >> \in Seq(stored)
    OBVIOUS
  <2>3. QED
    BY <1>1, <1>10, <2>1, <2>2 DEF BatchesVanish
<1>11. QED
  BY <1>4, <1>5, <1>6, <1>7, <1>8, <1>9, <1>10, BatchStep

\* What one reader's batch is to be, for Batches.
BatchOf(a) ==
    /\ \A i, j \in DOMAIN pending[a] : pending[a][i] = pending[a][j] => i = j
    /\ \A i \in DOMAIN pending[a] :
          /\ messages[pending[a][i]].to = NameOf(a)
          /\ \A b \in Readers : <<b, pending[a][i]>> \in taken => BothPoll(a, b)
          /\ polling[a] # "marking" \/ i <= marked[a] => pending[a][i] \in read

\* A batch nobody touches stays one.
LEMMA BatchStays ==
    ASSUME TypeOK, Stages, [Next]_vars, NEW a \in Readers, BatchOf(a),
           pending'[a] = pending[a], taken' = taken, read \subseteq read',
           polling'[a] = polling[a], marked'[a] = marked[a]
    PROVE  BatchOf(a)'
<1>1. \A i \in DOMAIN pending[a] : pending[a][i] \in Ids
  BY BatchFacts DEF TypeOK, BusTypeOK
<1>2. \A m \in Ids : messages'[m] = messages[m]
  BY MessagesStay
<1>3. QED
  BY <1>1, <1>2 DEF BatchOf, BothPoll, NameOf

\* No message is given to two readers but the human's: the batches stay apart
\* from what was taken, and are marked before they are worked on.
LEMMA BatchesKept ==
    ASSUME TypeOK, Stages, Batches, [Next]_vars
    PROVE  Batches'
<1>1. /\ read \subseteq stored /\ stored \subseteq Ids /\ taken \subseteq Readers \X stored
      /\ polling \in [Readers -> {"ready", "marking", "busy"}]
      /\ pending \in [Readers -> Seq(stored)] /\ marked \in [Readers -> Nat]
      /\ \A a \in Readers : DOMAIN pending[a] = 1 .. Len(pending[a]) /\ Len(pending[a]) \in Nat
      /\ \A a \in Readers : \A i \in DOMAIN pending[a] : pending[a][i] \in stored
      /\ \A a \in Readers : polling[a] # "marking" => marked[a] = 0
  BY BatchFacts DEF TypeOK, BusTypeOK
<1>2. \A m \in Ids : messages'[m] = messages[m]
  BY MessagesStay
<1>3. \A a \in Readers : BatchOf(a)
  BY DEF Batches, BatchOf
<1>4. \A a \in Readers, m \in stored : <<a, m>> \in taken => m \in read
  BY <1>1 DEF Batches
<1>5. ASSUME \A a \in Readers : BatchOf(a)', taken' \subseteq Readers \X stored,
             \A a \in Readers, m \in stored : <<a, m>> \in taken' => m \in read'
      PROVE  Batches'
  <2>1. \A a \in Readers, m \in Ids' : <<a, m>> \in taken' => m \in read'
    BY <1>5
  <2>2. QED
    BY <1>5, <2>1 DEF Batches, BatchOf
<1>6. CASE UNCHANGED pollVars
  <2>1. \A a \in Readers : BatchOf(a)'
    BY <1>3, <1>6, BatchStays DEF pollVars
  <2>2. QED
    BY <1>1, <1>4, <1>5, <1>6, <2>1 DEF pollVars
<1>7. ASSUME NEW a \in Readers, UNCHANGED <<read, taken>>,
             \A b \in Readers \ {a} : /\ pending'[b] = pending[b] /\ polling'[b] = polling[b]
                                      /\ marked'[b] = marked[b],
             BatchOf(a)'
      PROVE  Batches'
  <2>1. \A b \in Readers \ {a} : BatchOf(b)'
    BY <1>3, <1>7, BatchStays
  <2>2. \A b \in Readers : BatchOf(b)'
    BY <1>7, <2>1
  <2>3. QED
    BY <1>1, <1>4, <1>5, <1>7, <2>2
<1>8. ASSUME NEW a \in Readers, Polls(a)
      PROVE  Batches'
  <2>1. PICK q : q = Unread(a)
    OBVIOUS
  <2>2. /\ UNCHANGED <<read, taken, marked>> /\ polling[a] = "ready"
        /\ polling' = [polling EXCEPT ![a] = "marking"]
        /\ pending' = [pending EXCEPT ![a] = q]
    BY <1>8, <2>1 DEF Polls, Poll
  <2>3. /\ \A i \in DOMAIN q : q[i] \in stored /\ messages[q[i]].to = NameOf(a) /\ q[i] \notin read
        /\ \A i, j \in DOMAIN q : q[i] = q[j] => i = j
        /\ q \in Seq(stored)
    BY <2>1, UnreadAre
  <2>4. pending'[a] = q /\ polling'[a] = "marking" /\ marked'[a] = 0
        /\ \A b \in Readers \ {a} : /\ pending'[b] = pending[b] /\ polling'[b] = polling[b]
                                    /\ marked'[b] = marked[b]
    BY <1>1, <2>2
  <2>5. \A i \in DOMAIN q : ~(i <= 0)
    BY <2>3
  <2>6. \A i \in DOMAIN q : /\ messages'[q[i]].to = NameOf(a)
                            /\ \A b \in Readers : <<b, q[i]>> \notin taken
    BY <1>1, <1>2, <1>4, <2>3
  <2>7. BatchOf(a)'
    BY <2>2, <2>3, <2>4, <2>5, <2>6 DEF BatchOf, NameOf
  <2>8. QED
    BY <1>7, <2>2, <2>4, <2>7
<1>9. ASSUME NEW a \in Readers, Marks(a)
      PROVE  Batches'
  <2>1. PICK n \in DOMAIN pending[a] :
              /\ polling[a] = "marking" /\ n = marked[a] + 1
              /\ read' = read \union {pending[a][n]}
              /\ UNCHANGED <<pending, taken, lost>>
              /\ \/ /\ n = Len(pending[a]) /\ polling' = [polling EXCEPT ![a] = "ready"]
                    /\ marked' = [marked EXCEPT ![a] = 0]
                 \/ /\ n # Len(pending[a]) /\ polling' = [polling EXCEPT ![a] = "marking"]
                    /\ marked' = [marked EXCEPT ![a] = n]
    BY <1>9, Marked
  <2>2. \A i \in 1 .. n : i \in DOMAIN pending[a] /\ pending[a][i] \in read'
    <3>1. \A i \in 1 .. n : i \in DOMAIN pending[a] /\ (i = n \/ i <= marked[a])
      BY <1>1, <2>1
    <3>2. \A i \in DOMAIN pending[a] : i <= marked[a] => pending[a][i] \in read
      BY <1>3 DEF BatchOf
    <3>3. QED
      BY <2>1, <3>1, <3>2
  <2>3. \A i \in DOMAIN pending[a] : i <= Len(pending[a]) /\ i \in Nat \ {0}
    BY <1>1
  <2>4. \A i \in DOMAIN pending[a] :
           polling'[a] # "marking" \/ i <= marked'[a] => pending[a][i] \in read'
    <3>1. CASE n = Len(pending[a])
      BY <1>1, <2>2, <3>1
    <3>2. CASE n # Len(pending[a])
      <4>1. polling'[a] = "marking" /\ marked'[a] = n
        BY <1>1, <2>1, <3>2
      <4>2. QED
        BY <1>1, <2>2, <2>3, <4>1
    <3>3. QED
      BY <3>1, <3>2
  <2>5. BatchOf(a)'
    <3>1. /\ \A i, j \in DOMAIN pending[a] : pending[a][i] = pending[a][j] => i = j
          /\ \A i \in DOMAIN pending[a] :
                /\ messages'[pending[a][i]].to = NameOf(a)
                /\ \A b \in Readers : <<b, pending[a][i]>> \in taken => BothPoll(a, b)
      BY <1>1, <1>2, <1>3 DEF BatchOf
    <3>2. UNCHANGED <<pending, taken>>
      BY <2>1
    <3>3. QED
      BY <2>4, <3>1, <3>2 DEF BatchOf, BothPoll, NameOf
  <2>6. ASSUME NEW b \in Readers \ {a}
        PROVE  BatchOf(b)'
    <3>1. /\ pending'[b] = pending[b] /\ polling'[b] = polling[b] /\ marked'[b] = marked[b]
          /\ read \subseteq read' /\ taken' = taken
      BY <1>1, <2>1
    <3>2. QED
      BY <1>3, <3>1, BatchStays
  <2>7. \A b \in Readers : BatchOf(b)'
    BY <2>5, <2>6
  <2>8. QED
    BY <1>1, <1>4, <1>5, <2>1, <2>7
<1>10. ASSUME NEW a \in Readers, Given(a)
       PROVE  Batches'
  <2>1. /\ UNCHANGED <<read, taken>>
        /\ pending'[a] = << >>
        /\ \A b \in Readers \ {a} : /\ pending'[b] = pending[b] /\ polling'[b] = polling[b]
                                    /\ marked'[b] = marked[b]
    BY <1>1, <1>10 DEF Given
  <2>2. DOMAIN pending'[a] = {}
    BY <2>1
  <2>3. BatchOf(a)'
    BY <2>2 DEF BatchOf
  <2>4. QED
    BY <1>7, <2>1, <2>3
<1>11. ASSUME NEW a \in Readers, NEW m \in Ids, Begun(a, m)
       PROVE  Batches'
  <2>1. PICK q \in Seq(stored) : q = pending[a]
    BY <1>1
  <2>2. /\ polling[a] = "ready" /\ q # << >> /\ m = Head(q) /\ UNCHANGED <<read, marked>>
        /\ pending' = [pending EXCEPT ![a] = Tail(q)] /\ taken' = taken \union {<<a, m>>}
        /\ polling' = polling \/ polling' = [polling EXCEPT ![a] = "busy"]
    BY <1>11, <2>1 DEF Begun, Take
  <2>3. /\ m = q[1] /\ 1 \in DOMAIN q
        /\ \A i \in DOMAIN Tail(q) : i + 1 \in DOMAIN q /\ Tail(q)[i] = q[i + 1] /\ i + 1 # 1
    BY <2>1, <2>2, Dropped
  <2>4. PICK r : r = Tail(q)
    OBVIOUS
  <2>5. pending'[a] = r /\ polling'[a] # "marking"
        /\ \A b \in Readers \ {a} : /\ pending'[b] = pending[b] /\ polling'[b] = polling[b]
                                    /\ marked'[b] = marked[b]
    BY <1>1, <2>2, <2>4
  <2>6. m \in read /\ m \in stored /\ messages[m].to = NameOf(a)
    BY <1>1, <1>3, <2>1, <2>2, <2>3 DEF BatchOf
  <2>7. \A i \in DOMAIN r : /\ r[i] # m /\ r[i] \in stored /\ messages'[r[i]].to = NameOf(a)
                            /\ \A b \in Readers : <<b, r[i]>> \in taken => BothPoll(a, b)
                            /\ r[i] \in read
    <3> SUFFICES ASSUME NEW i \in DOMAIN r
                 PROVE  /\ r[i] # m /\ r[i] \in stored /\ messages'[r[i]].to = NameOf(a)
                        /\ \A b \in Readers : <<b, r[i]>> \in taken => BothPoll(a, b)
                        /\ r[i] \in read
      OBVIOUS
    <3>1. PICK k \in DOMAIN q : k # 1 /\ r[i] = q[k]
      BY <2>3, <2>4
    <3>2. q[k] # m
      BY <1>3, <2>1, <2>3, <3>1 DEF BatchOf
    <3>3. /\ q[k] \in stored /\ messages[q[k]].to = NameOf(a)
          /\ \A b \in Readers : <<b, q[k]>> \in taken => BothPoll(a, b)
          /\ q[k] \in read
      BY <1>1, <1>3, <2>1, <2>2 DEF BatchOf
    <3>4. messages'[q[k]] = messages[q[k]]
      BY <1>1, <1>2, <3>3
    <3>5. QED
      BY <3>1, <3>2, <3>3, <3>4
  <2>8. \A i, j \in DOMAIN r : r[i] = r[j] => i = j
    <3> SUFFICES ASSUME NEW i \in DOMAIN r, NEW j \in DOMAIN r, r[i] = r[j]
                 PROVE  i = j
      OBVIOUS
    <3>1. i + 1 = j + 1
      BY <1>3, <2>1, <2>3, <2>4 DEF BatchOf
    <3>2. i \in Nat /\ j \in Nat
      <4>1. r \in Seq(stored)
        BY <2>1, <2>2, <2>4, Dropped
      <4>2. QED
        BY <4>1
    <3>3. QED
      BY <3>1, <3>2
  <2>9. BatchOf(a)'
    <3>1. \A i \in DOMAIN r, b \in Readers : <<b, r[i]>> \in taken' => BothPoll(a, b)
      BY <2>2, <2>7
    <3>2. \A i \in DOMAIN r : messages'[r[i]].to = NameOf(a) /\ r[i] \in read'
      BY <2>2, <2>7
    <3>3. pending'[a] = r
      BY <2>5
    <3>4. QED
      BY <2>8, <3>1, <3>2, <3>3 DEF BatchOf, BothPoll, NameOf
  <2>10. ASSUME NEW b \in Readers \ {a}
         PROVE  BatchOf(b)'
    <3>1. pending'[b] = pending[b] /\ polling'[b] = polling[b] /\ marked'[b] = marked[b]
      BY <2>5
    <3>2. /\ \A i, j \in DOMAIN pending[b] : pending[b][i] = pending[b][j] => i = j
          /\ \A i \in DOMAIN pending[b] :
                /\ messages[pending[b][i]].to = NameOf(b)
                /\ \A c \in Readers : <<c, pending[b][i]>> \in taken => BothPoll(b, c)
                /\ polling[b] # "marking" \/ i <= marked[b] => pending[b][i] \in read
      BY <1>3 DEF BatchOf
    <3>3. \A i \in DOMAIN pending[b] : pending[b][i] \in stored
      BY <1>1
    <3>4. ASSUME NEW i \in DOMAIN pending[b], NEW c \in Readers, <<c, pending[b][i]>> \in taken'
          PROVE  BothPoll(b, c)
      <4>1. CASE <<c, pending[b][i]>> \in taken
        BY <3>2, <4>1
      <4>2. CASE c = a /\ pending[b][i] = m
        <5>1. NameOf(a) = NameOf(b)
          BY <2>6, <3>2, <4>2
        <5>2. QED
          BY <4>2, <5>1, SameName
      <4>3. QED
        BY <2>2, <3>4, <4>1, <4>2
    <3>5. \A i \in DOMAIN pending[b] : messages'[pending[b][i]].to = NameOf(b)
      BY <1>1, <1>2, <3>2, <3>3
    <3>6. read' = read
      BY <2>2
    <3>7. QED
      BY <3>1, <3>2, <3>4, <3>5, <3>6 DEF BatchOf, BothPoll, NameOf
  <2>11. \A b \in Readers : BatchOf(b)'
    BY <2>9, <2>10
  <2>12. /\ taken' \subseteq Readers \X stored
         /\ \A b \in Readers, k \in stored : <<b, k>> \in taken' => k \in read'
    <3>1. \A b \in Readers, k \in stored : <<b, k>> \in taken' => k = m \/ <<b, k>> \in taken
      BY <2>2
    <3>2. QED
      BY <1>1, <1>4, <2>2, <2>6, <3>1
  <2>13. QED
    BY <1>5, <2>11, <2>12
<1>12. ASSUME NEW a \in Readers, Rested(a)
       PROVE  Batches'
  <2>1. /\ UNCHANGED <<read, taken, pending, marked>> /\ polling[a] = "busy"
        /\ \A b \in Readers \ {a} : polling'[b] = polling[b]
    BY <1>1, <1>12 DEF Rested
  <2>2. BatchOf(a)'
    <3>1. /\ \A i, j \in DOMAIN pending[a] : pending[a][i] = pending[a][j] => i = j
          /\ \A i \in DOMAIN pending[a] :
                /\ messages[pending[a][i]].to = NameOf(a)
                /\ \A b \in Readers : <<b, pending[a][i]>> \in taken => BothPoll(a, b)
                /\ pending[a][i] \in read
      BY <1>3, <2>1 DEF BatchOf
    <3>2. \A i \in DOMAIN pending[a] : messages'[pending[a][i]].to = NameOf(a)
      BY <1>1, <1>2, <3>1
    <3>3. QED
      BY <2>1, <3>1, <3>2 DEF BatchOf, BothPoll, NameOf
  <2>3. QED
    BY <1>7, <2>1, <2>2
<1>13. CASE BatchesVanish
  <2>1. UNCHANGED <<read, taken>> /\ \A a \in Readers : pending'[a] = << >>
    BY <1>13 DEF BatchesVanish
  <2>2. \A a \in Readers : DOMAIN pending'[a] = {}
    BY <2>1
  <2>3. \A a \in Readers : BatchOf(a)'
    BY <2>2 DEF BatchOf
  <2>4. QED
    BY <1>1, <1>4, <1>5, <2>1, <2>3
<1>14. QED
  BY <1>6, <1>8, <1>9, <1>10, <1>11, <1>12, <1>13, BatchStep

\* What becomes of a message that is accounted for.
Accounted(m) == m \in lost \/ \E a \in Readers : <<a, m>> \in taken \/ m \in Held(a)

\* No message goes missing: it leaves a batch for a reader, or is dropped.
LEMMA AccountedKept ==
    ASSUME TypeOK, Stages, ReadIsAccountedFor, [Next]_vars
    PROVE  ReadIsAccountedFor'
<1>1. /\ polling \in [Readers -> {"ready", "marking", "busy"}]
      /\ pending \in [Readers -> Seq(stored)] /\ marked \in [Readers -> Nat]
      /\ \A a \in Readers : DOMAIN pending[a] = 1 .. Len(pending[a]) /\ Len(pending[a]) \in Nat
      /\ \A a \in Readers : polling[a] # "marking" => marked[a] = 0
  BY BatchFacts
<1>2. \A m \in read : Accounted(m)
  BY DEF ReadIsAccountedFor, Accounted
<1>3. SUFFICES \A m \in read' : Accounted(m)'
  BY DEF ReadIsAccountedFor, Accounted
<1>4. CASE UNCHANGED pollVars
  BY <1>2, <1>4 DEF Accounted, Held, pollVars
<1>5. ASSUME NEW a \in Readers, NEW m, Accounted(m),
             \A b \in Readers \ {a} : /\ pending'[b] = pending[b] /\ polling'[b] = polling[b]
                                      /\ marked'[b] = marked[b],
             taken \subseteq taken', lost \subseteq lost',
             m \in Held(a) => \/ m \in Held(a)' \/ m \in lost' \/ <<a, m>> \in taken'
      PROVE  Accounted(m)'
  <2>1. \A b \in Readers \ {a} : Held(b)' = Held(b)
    BY <1>5 DEF Held
  <2>2. QED
    BY <1>5, <2>1 DEF Accounted
<1>6. ASSUME NEW a \in Readers, Polls(a)
      PROVE  \A m \in read' : Accounted(m)'
  <2>1. /\ UNCHANGED <<read, taken, lost>> /\ pending[a] = << >> /\ polling[a] = "ready"
        /\ \A b \in Readers \ {a} : /\ pending'[b] = pending[b] /\ polling'[b] = polling[b]
                                    /\ marked'[b] = marked[b]
    BY <1>1, <1>6 DEF Polls, Poll
  <2>2. Held(a) = {}
    BY <2>1 DEF Held
  <2>3. QED
    BY <1>2, <1>5, <2>1, <2>2
<1>7. ASSUME NEW a \in Readers, Marks(a)
      PROVE  \A m \in read' : Accounted(m)'
  <2>1. PICK n \in DOMAIN pending[a] :
              /\ polling[a] = "marking" /\ n = marked[a] + 1
              /\ read' = read \union {pending[a][n]}
              /\ UNCHANGED <<pending, taken, lost>>
              /\ \/ /\ n = Len(pending[a]) /\ polling' = [polling EXCEPT ![a] = "ready"]
                    /\ marked' = [marked EXCEPT ![a] = 0]
                 \/ /\ n # Len(pending[a]) /\ polling' = [polling EXCEPT ![a] = "marking"]
                    /\ marked' = [marked EXCEPT ![a] = n]
    BY <1>7, Marked
  <2>2. Held(a) = {pending[a][i] : i \in 1 .. marked[a]}
    BY <2>1 DEF Held
  <2>3. Held(a)' = {pending[a][i] : i \in 1 .. n}
    <3>1. CASE n = Len(pending[a])
      <4>1. polling'[a] = "ready" /\ DOMAIN pending[a] = 1 .. n
        BY <1>1, <2>1, <3>1
      <4>2. QED
        BY <2>1, <4>1 DEF Held
    <3>2. CASE n # Len(pending[a])
      <4>1. polling'[a] = "marking" /\ marked'[a] = n
        BY <1>1, <2>1, <3>2
      <4>2. QED
        BY <2>1, <4>1 DEF Held
    <3>3. QED
      BY <3>1, <3>2
  <2>4. 1 .. marked[a] \subseteq 1 .. n /\ n \in 1 .. n
    BY <1>1, <2>1
  <2>5. Held(a) \subseteq Held(a)' /\ pending[a][n] \in Held(a)'
    BY <2>2, <2>3, <2>4
  <2>6. /\ \A b \in Readers \ {a} : /\ pending'[b] = pending[b] /\ polling'[b] = polling[b]
                                    /\ marked'[b] = marked[b]
        /\ UNCHANGED <<taken, lost>> /\ read' = read \union {pending[a][n]}
    BY <1>1, <2>1
  <2>7. ASSUME NEW m \in read
        PROVE  Accounted(m)'
    BY <1>2, <1>5, <2>5, <2>6
  <2>8. ASSUME NEW m, m = pending[a][n]
        PROVE  Accounted(m)'
    <3>1. m \in Held(a)'
      BY <2>5, <2>8
    <3>2. QED
      BY <3>1 DEF Accounted
  <2>9. ASSUME NEW m \in read'
        PROVE  Accounted(m)'
    <3>1. m \in read \/ m = pending[a][n]
      BY <2>6
    <3>2. QED
      BY <2>7, <2>8, <3>1
  <2>10. QED
    BY <2>9
<1>8. ASSUME NEW a \in Readers, Given(a)
      PROVE  \A m \in read' : Accounted(m)'
  <2>1. /\ UNCHANGED <<read, taken>> /\ lost' = lost \union Held(a)
        /\ \A b \in Readers \ {a} : /\ pending'[b] = pending[b] /\ polling'[b] = polling[b]
                                    /\ marked'[b] = marked[b]
    BY <1>1, <1>8 DEF Given
  <2>2. QED
    BY <1>2, <1>5, <2>1
<1>9. ASSUME NEW a \in Readers, NEW m \in Ids, Begun(a, m)
      PROVE  \A k \in read' : Accounted(k)'
  <2>1. PICK q \in Seq(stored) : q = pending[a]
    BY <1>1
  <2>2. PICK r : r = Tail(q)
    OBVIOUS
  <2>3. /\ q # << >> /\ m = Head(q) /\ UNCHANGED <<read, lost, marked>> /\ polling[a] = "ready"
        /\ pending' = [pending EXCEPT ![a] = r] /\ taken' = taken \union {<<a, m>>}
        /\ polling' = [polling EXCEPT ![a] = "busy"] \/ UNCHANGED polling
    BY <1>9, <2>1, <2>2 DEF Begun, Take
  <2>4. ToSet(q) = ToSet(r) \union {m}
    BY <2>1, <2>2, <2>3, Dropped
  <2>5. /\ pending'[a] = r /\ polling'[a] # "marking"
        /\ \A b \in Readers \ {a} : /\ pending'[b] = pending[b] /\ polling'[b] = polling[b]
                                    /\ marked'[b] = marked[b]
    BY <1>1, <2>3
  <2>6. Held(a) = ToSet(q) /\ Held(a)' = ToSet(r)
    BY <2>1, <2>3, <2>5 DEF Held, ToSet
  <2>7. QED
    BY <1>2, <1>5, <2>3, <2>4, <2>5, <2>6
<1>10. ASSUME NEW a \in Readers, Rested(a)
       PROVE  \A m \in read' : Accounted(m)'
  <2>1. /\ UNCHANGED <<read, taken, lost, pending, marked>> /\ polling[a] = "busy"
        /\ polling'[a] = "ready" /\ \A b \in Readers \ {a} : polling'[b] = polling[b]
    BY <1>1, <1>10 DEF Rested
  <2>2. Held(a)' = Held(a)
    BY <2>1 DEF Held
  <2>3. QED
    BY <1>2, <1>5, <2>1, <2>2
<1>11. CASE BatchesVanish
  <2>1. /\ UNCHANGED <<read, taken>> /\ lost' = lost \union UNION {Held(a) : a \in Readers}
    BY <1>11 DEF BatchesVanish
  <2>2. QED
    BY <1>2, <2>1 DEF Accounted
<1>12. QED
  BY <1>4, <1>6, <1>7, <1>8, <1>9, <1>10, <1>11, BatchStep

-----------------------------------------------------------------------------
(* The consumers. *)

\* What the agent is run on when it is given a message.
LEMMA Rebuilt ==
    ASSUME TypeOK, NEW c \in Consumers, NEW m \in stored, NEW p, p = Rebuild(c, m)
    PROVE  p \in Seq(stored) /\ KeepsHistory(c, p, m)
<1>1. PICK S : S = OfSession(m)
  OBVIOUS
<1>2. S \in SUBSET stored /\ m \in S
  BY <1>1 DEF OfSession
<1>3. PICK h : h = InOrder(S)
  OBVIOUS
<1>4. h = History(messages[m].session)
  BY <1>1, <1>3 DEF History, OfSession
<1>5. PICK n : n = Cardinality(S)
  OBVIOUS
<1>6. /\ n \in Nat /\ h \in Seq(stored) /\ Len(h) = n /\ DOMAIN h = 1 .. n
      /\ \A i \in 1 .. n : h[i] \in S
      /\ \A x \in S : \E i \in 1 .. n : h[i] = x
      /\ \A i, j \in 1 .. n : i < j => h[i] < h[j]
  BY <1>2, <1>3, <1>5, Selected
<1>7. \A x \in S : x \in Nat
  <2>1. stored \subseteq Ids /\ messages \in Seq(Messages)
    BY DEF TypeOK, BusTypeOK
  <2>2. QED
    BY <1>2, <2>1 DEF Ids
<1>8. PICK l \in 1 .. n : h[l] = m
  BY <1>2, <1>6
<1>9. PICK w : w = WithoutLastUser(c, h)
  OBVIOUS
<1>10. \/ w = h /\ messages[h[n]].from = c
       \/ w = SubSeq(h, 1, n - 1)
  BY <1>6, <1>8, <1>9 DEF WithoutLastUser, Front, Last
<1>11. PICK k \in {n, n - 1} :
          /\ w \in Seq(stored) /\ Len(w) = k /\ \A i \in 1 .. k : w[i] = h[i]
          /\ k = n => messages[h[n]].from = c
  BY <1>6, <1>8, <1>10
<1>12. p = Append(w, m)
  BY <1>4, <1>9 DEF Rebuild
<1>13. k \in Nat /\ k <= n /\ n <= k + 1 /\ l \in Nat
  BY <1>6, <1>8, <1>11
<1>14. /\ p \in Seq(stored) /\ p # << >> /\ Len(p) = k + 1 /\ DOMAIN p = 1 .. k + 1
       /\ p[k + 1] = m /\ \A i \in 1 .. k : p[i] = h[i]
  BY <1>2, <1>11, <1>12, <1>13
<1>15. Last(p) = m
  BY <1>14 DEF Last
<1>16. \A i \in DOMAIN p : i = k + 1 \/ (i \in 1 .. k /\ i \in 1 .. n /\ p[i] = h[i])
  BY <1>13, <1>14
<1>17. ToSet(p) \subseteq S
  BY <1>2, <1>6, <1>14, <1>16 DEF ToSet
<1>18. ASSUME NEW x \in S, x < m
       PROVE  x \in ToSet(p)
  <2>1. PICK i \in 1 .. n : h[i] = x
    BY <1>6
  <2>2. i < l
    <3>1. ~(l < i) /\ l # i
      BY <1>2, <1>6, <1>7, <1>8, <1>18, <2>1
    <3>2. QED
      BY <1>8, <2>1, <3>1
  <2>3. i \in 1 .. k /\ i \in DOMAIN p
    BY <1>8, <1>13, <1>14, <2>1, <2>2
  <2>4. p[i] = x
    BY <1>14, <2>1, <2>3
  <2>5. QED
    BY <2>3, <2>4 DEF ToSet
<1>19. ASSUME NEW i \in DOMAIN p, NEW j \in DOMAIN p, i < j, p[i] < m
       PROVE  p[i] < p[j]
  <2>1. i \in 1 .. k /\ i \in 1 .. n /\ p[i] = h[i]
    BY <1>13, <1>14, <1>16, <1>19
  <2>2. CASE j = k + 1
    BY <1>14, <1>19, <2>2
  <2>3. CASE j \in 1 .. n /\ p[j] = h[j]
    BY <1>6, <1>19, <2>1, <2>3
  <2>4. QED
    BY <1>16, <2>2, <2>3
<1>20. ASSUME messages[m].from # c, \A x \in S : ~(x > m), NEW i \in DOMAIN p, p[i] = m
       PROVE  i = Len(p)
  <2>1. l = n
    <3>1. h[n] \in S /\ n \in 1 .. n
      BY <1>6, <1>8
    <3>2. ~(l < n)
      <4>1. l < n => m < h[n]
        BY <1>6, <1>8, <3>1
      <4>2. QED
        BY <1>7, <1>20, <1>2, <3>1, <4>1
    <3>3. l \in Nat /\ l <= n
      BY <1>6, <1>8
    <3>4. QED
      BY <1>6, <3>2, <3>3
  <2>2. k = n - 1
    BY <1>8, <1>11, <1>20, <2>1
  <2>3. CASE i \in 1 .. k
    <3>1. i < n /\ i \in 1 .. n /\ h[i] = m
      BY <1>6, <1>14, <1>20, <2>2, <2>3
    <3>2. m < m
      BY <1>6, <1>8, <2>1, <3>1
    <3>3. QED
      BY <1>2, <1>7, <3>2
  <2>4. QED
    BY <1>14, <1>16, <2>3
<1>21. QED
  BY <1>1, <1>14, <1>15, <1>17, <1>18, <1>19, <1>20 DEF KeepsHistory

\* A poll loop waits for the thread of an answer, or does no more.
Posts(p) == BotMakesThread(p) \/ BotPostsInNew(p) \/ BotPostRaises(p)

\* What the readers work on in a step.
LEMMA WorkStep ==
    ASSUME [Next]_vars
    PROVE  \/ \E c \in Consumers : Handle(c) \/ Finish(c)
           \/ \E p \in Pollers : Posts(p)
           \/ Restart
           \/ /\ UNCHANGED <<current, memory, posting>>
              /\ \/ UNCHANGED polling
                 \/ \E a \in Readers, x \in {"ready", "marking"} :
                       polling[a] # "busy" /\ polling' = [polling EXCEPT ![a] = x]
<1>1. CASE UNCHANGED vars
  BY <1>1 DEF vars, busVars, pollVars, agentVars, botVars
<1>2. ASSUME NEW a \in Readers, Polls(a) \/ Marks(a) \/ (PollRaises(a) /\ Quiet)
      PROVE  /\ UNCHANGED <<current, memory, posting>>
             /\ \E b \in Readers, x \in {"ready", "marking"} :
                   polling[b] # "busy" /\ polling' = [polling EXCEPT ![b] = x]
  <2>1. UNCHANGED <<current, memory, posting>>
    BY <1>2 DEF Polls, Marks, Quiet, agentVars, botVars
  <2>2. polling[a] # "busy"
    BY <1>2 DEF Polls, Poll, Marks, Mark, PollRaises
  <2>3. \E x \in {"ready", "marking"} : polling' = [polling EXCEPT ![a] = x]
    <3>1. CASE Polls(a)
      BY <3>1 DEF Polls, Poll
    <3>2. CASE Marks(a)
      BY <3>2 DEF Marks, Mark
    <3>3. CASE PollRaises(a)
      BY <3>3 DEF PollRaises
    <3>4. QED
      BY <1>2, <3>1, <3>2, <3>3
  <2>4. QED
    BY <2>1, <2>2, <2>3
<1>3. CASE \/ \E k \in Creators \union Consumers : SendEnds(k)
           \/ AssistantSends
           \/ \E e \in Experts : ExpertReplies(e)
           \/ \E w \in Watchers : ExpertCounts(w) \/ ExpertOpens(w) \/ ExpertNotifies(w)
           \/ ReplCounts \/ ReplOpens \/ ReplWrites \/ \E s \in Sessions : ReplSwitches(s)
           \/ \E d \in Tasks :
                 \/ BotAsked(d) \/ BotOpens(d) \/ ThreadAppears(d) \/ BotSends(d)
                 \/ BotContinues(d) \/ BotAskedInThread(d) \/ BotAdopts(d) \/ BotGivesUp(d)
           \/ \E p \in Pollers : OnReady(p)
  BY <1>3 DEF SendEnds, Commit, SendRaises, Quiet, AssistantSends, ExpertReplies, ExpertCounts,
     ExpertOpens, ExpertNotifies, ReplCounts, ReplOpens, ReplWrites, ReplSwitches, BotAsked,
     BotOpens, ThreadAppears, BotSends, BotContinues, BotAskedInThread, BotAdopts, BotGivesUp,
     OnReady, busVars, pollVars, agentVars, botVars
<1>4. ASSUME NEW p \in Pollers, Shows(p)
      PROVE  Posts(p) \/ UNCHANGED <<current, memory, posting, polling>>
  BY <1>4 DEF Shows, Posts, ReplShows, ReplShowRaises, BotPosts, BotPassesOver, agentVars, botVars
<1>5. QED
  BY <1>1, <1>2, <1>3, <1>4 DEF Next

\* What each consumer has in mind: its message, and its memory of a session.
Working ==
    /\ current \in [Consumers -> stored \union {0}]
    /\ memory \in [Consumers -> [Sessions -> Seq(stored)]]
    /\ \A c \in Consumers : polling[c] = "busy" <=> current[c] # 0

\* A poll loop that posts leaves the consumers alone.
LEMMA PostsAlone ==
    ASSUME TypeOK, NEW p \in Pollers, Posts(p)
    PROVE  UNCHANGED <<current, memory>> /\ \A a \in Readers \ {p} : polling'[a] = polling[a]
<1>1. polling \in [Readers -> {"ready", "marking", "busy"}]
  BY DEF TypeOK, BusTypeOK
<1>2. QED
  BY <1>1 DEF Posts, BotMakesThread, BotPostsInNew, BotPostRaises, agentVars

\* The messages of the table are numbers from 1.
LEMMA StoredAre ==
    ASSUME TypeOK
    PROVE  stored \subseteq Ids /\ stored \subseteq Nat \ {0}
<1>1. messages \in Seq(Messages) /\ stored \subseteq Ids
  BY DEF TypeOK, BusTypeOK
<1>2. QED
  BY <1>1 DEF Ids

\* _handle gives the agent its message and the memory it is run on.
LEMMA Handled ==
    ASSUME TypeOK, NEW c \in Consumers, Handle(c)
    PROVE  \E m \in stored :
             /\ current' = [current EXCEPT ![c] = m] /\ UNCHANGED sendVars
             /\ polling' = [polling EXCEPT ![c] = "busy"]
             /\ memory' \in [Consumers -> [Sessions -> Seq(stored)]]
             /\ memory'[c][messages[m].session] = Rebuild(c, m)
             /\ \A b \in Consumers \ {c} : memory'[b] = memory[b]
<1>1. PICK m \in Ids : /\ Take(c, m)
                       /\ current' = [current EXCEPT ![c] = m]
                       /\ memory' = [memory EXCEPT ![c][messages[m].session] = Rebuild(c, m)]
  BY DEF Handle
<1>2. m \in stored
  <2>1. pending[c] \in Seq(stored)
    BY WhoCreates DEF TypeOK, BusTypeOK
  <2>2. QED
    BY <1>1, <2>1, Dropped DEF Take
<1>3. PICK p, s : p = Rebuild(c, m) /\ s = messages[m].session
  OBVIOUS
<1>4. s \in Sessions /\ p \in Seq(stored)
  BY <1>2, <1>3, MessageFields, Rebuilt
<1>5. memory' = [memory EXCEPT ![c][s] = p]
  BY <1>1, <1>3
<1>6. memory \in [Consumers -> [Sessions -> Seq(stored)]]
  BY DEF TypeOK
<1>7. PICK f \in [Sessions -> Seq(stored)] : f = memory[c]
  BY <1>6
<1>8. memory' = [memory EXCEPT ![c] = [f EXCEPT ![s] = p]]
  BY <1>5, <1>6, <1>7
<1>9. PICK g : g = [f EXCEPT ![s] = p]
  OBVIOUS
<1>10. g \in [Sessions -> Seq(stored)] /\ g[s] = p
  BY <1>4, <1>9
<1>11. /\ memory' \in [Consumers -> [Sessions -> Seq(stored)]] /\ memory'[c] = g
       /\ \A b \in Consumers \ {c} : memory'[b] = memory[b]
  BY <1>6, <1>8, <1>9, <1>10
<1>12. UNCHANGED sendVars /\ polling' = [polling EXCEPT ![c] = "busy"]
  BY DEF Handle
<1>13. QED
  BY <1>1, <1>2, <1>3, <1>10, <1>11, <1>12

\* A step keeps what the consumers have in mind in its type.
LEMMA WorkingKept ==
    ASSUME TypeOK, Stages, [Next]_vars
    PROVE  Working'
<1> DEFINE Goal == /\ current' \in [Consumers -> stored \union {0}]
                   /\ memory' \in [Consumers -> [Sessions -> Seq(stored)]]
                   /\ \A c \in Consumers : polling'[c] = "busy" <=> current'[c] # 0
<1>1. /\ current \in [Consumers -> stored \union {0}]
      /\ memory \in [Consumers -> [Sessions -> Seq(stored)]]
      /\ polling \in [Readers -> {"ready", "marking", "busy"}]
      /\ \A c \in Consumers : polling[c] = "busy" <=> current[c] # 0
      /\ Consumers \subseteq Readers /\ Pollers \cap Consumers = {} /\ 0 \notin stored
  BY WhoCreates, StoredAre DEF TypeOK, BusTypeOK, Stages
<1>2. stored \subseteq stored' /\ Seq(stored) \subseteq Seq(stored')
  BY StoreTypes
<1>3. SUFFICES Goal
  BY <1>2 DEF Working
<1>4. ASSUME NEW c \in Consumers, Handle(c)
      PROVE  Goal
  <2>1. PICK m \in stored :
             /\ current' = [current EXCEPT ![c] = m]
             /\ polling' = [polling EXCEPT ![c] = "busy"]
             /\ memory' \in [Consumers -> [Sessions -> Seq(stored)]]
    BY <1>4, Handled
  <2>2. QED
    BY <1>1, <2>1
<1>5. ASSUME NEW c \in Consumers, Finish(c)
      PROVE  Goal
  BY <1>1, <1>5 DEF Finish
<1>6. CASE Restart
  <2>1. /\ \A a \in Readers : polling'[a] = "ready"
        /\ current' = [c \in Consumers |-> 0]
        /\ memory' = [c \in Consumers |-> [s \in Sessions |-> << >>]]
    BY <1>6 DEF Restart, BatchesVanish
  <2>2. << >> \in Seq(stored)
    OBVIOUS
  <2>3. QED
    BY <1>1, <2>1, <2>2
<1>7. CASE UNCHANGED <<current, memory>> /\ UNCHANGED polling
  BY <1>1, <1>7
<1>8. ASSUME UNCHANGED <<current, memory>>, NEW a \in Readers, NEW x \in {"ready", "marking"},
             polling[a] # "busy", polling' = [polling EXCEPT ![a] = x]
      PROVE  Goal
  BY <1>1, <1>8
<1>9. ASSUME NEW p \in Pollers, Posts(p)
      PROVE  Goal
  <2>1. UNCHANGED <<current, memory>> /\ \A c \in Consumers : polling'[c] = polling[c]
    BY <1>1, <1>9, PostsAlone
  <2>2. QED
    BY <1>1, <2>1
<1>10. QED
  BY <1>4, <1>5, <1>6, <1>7, <1>8, <1>9, WorkStep

\* A prompt is not outdated by what is sent later.
LEMMA KeepsOn ==
    ASSUME TypeOK, Stages, [Next]_vars, NEW c, NEW m \in stored, NEW p \in Seq(stored),
           KeepsHistory(c, p, m)
    PROVE  KeepsHistory(c, p, m)'
<1>1. /\ \A k \in Ids : messages'[k] = messages[k]
      /\ stored \subseteq Ids /\ stored \subseteq stored' /\ overtaken \subseteq overtaken'
  BY MessagesStay, StoreTypes, StoredAre
<1>2. OfSession(m) \subseteq OfSession(m)' /\ messages'[m] = messages[m]
  BY <1>1 DEF OfSession
<1>3. ASSUME NEW x \in stored' \ stored, x \in OfSession(m)', x < m
      PROVE  x \in overtaken'
  <2>1. PICK k \in Creators \union Consumers : Commit(k)
    BY <1>3, StoreStep
  <2>2. x = sending[k] /\ UNCHANGED messages
    BY <1>3, <2>1 DEF Commit
  <2>3. m \in stored /\ m > x /\ messages[m].session = messages[x].session
    <3>1. x \in Nat /\ m \in Nat
      <4>1. x \in Ids
        <5>1. sending \in [Creators \union Consumers -> Ids \union {0}] /\ sending[k] # 0
          BY <2>1 DEF TypeOK, BusTypeOK, Commit
        <5>2. QED
          BY <2>2, <5>1
      <4>2. QED
        BY <4>1, MessagesStay, StoredAre
    <3>2. QED
      BY <1>3, <2>2, <3>1 DEF OfSession
  <2>4. QED
    BY <2>1, <2>2, <2>3 DEF Commit
<1>4. ASSUME NEW x \in OfSession(m)' \ overtaken', x < m
      PROVE  x \in ToSet(p)
  <2>1. x \in stored
    BY <1>3, <1>4 DEF OfSession
  <2>2. x \in OfSession(m) \ overtaken
    BY <1>1, <1>4, <2>1 DEF OfSession
  <2>3. QED
    BY <1>4, <2>2 DEF KeepsHistory
<1>5. ToSet(p) \subseteq OfSession(m)'
  BY <1>2 DEF KeepsHistory
<1>6. \/ messages'[m].from = c
      \/ \E x \in OfSession(m)' : x > m
      \/ \A i \in DOMAIN p : p[i] = m => i = Len(p)
  BY <1>2 DEF KeepsHistory
<1>7. /\ p # << >> /\ Last(p) = m
      /\ \A i, j \in DOMAIN p : i < j /\ p[i] < m => p[i] < p[j]
  BY DEF KeepsHistory
<1>8. QED
  BY <1>4, <1>5, <1>6, <1>7 DEF KeepsHistory, Last, ToSet

\* The prompt of an agent at work stays what _handle made of the history.
LEMMA PromptsKept ==
    ASSUME TypeOK, Stages, PromptKeepsHistory, [Next]_vars
    PROVE  PromptKeepsHistory'
<1> SUFFICES ASSUME NEW c \in Consumers, polling'[c] = "busy",
                    NEW m, m = current'[c], NEW p, p = memory'[c][messages'[m].session]
             PROVE  KeepsHistory(c, p, m)'
  BY DEF PromptKeepsHistory, Prompt
<1>1. /\ current \in [Consumers -> stored \union {0}]
      /\ memory \in [Consumers -> [Sessions -> Seq(stored)]]
      /\ polling \in [Readers -> {"ready", "marking", "busy"}]
      /\ Consumers \subseteq Readers /\ Pollers \cap Consumers = {}
  BY WhoCreates DEF TypeOK, BusTypeOK
<1>2. \A k \in stored : messages'[k] = messages[k]
  BY MessagesStay, StoredAre
<1>3. CASE \E l \in stored : m = l /\ memory'[c][messages[l].session] = Rebuild(c, l)
  <2>1. m \in stored /\ p = Rebuild(c, m)
    BY <1>2, <1>3
  <2>2. p \in Seq(stored) /\ KeepsHistory(c, p, m)
    BY <2>1, Rebuilt
  <2>3. QED
    BY <2>1, <2>2, KeepsOn
<1>4. CASE polling[c] = "busy" /\ current'[c] = current[c] /\ memory'[c] = memory[c]
  <2>1. m \in stored
    <3>1. current[c] # 0
      BY <1>4 DEF Stages
    <3>2. QED
      BY <1>1, <1>4, <3>1
  <2>2. p = memory[c][messages[m].session] /\ messages[m].session \in Sessions
    BY <1>2, <1>4, <2>1, MessageFields, StoredAre
  <2>3. KeepsHistory(c, p, m)
    BY <1>4, <2>2 DEF PromptKeepsHistory, Prompt
  <2>4. p \in Seq(stored)
    BY <1>1, <2>2
  <2>5. QED
    BY <2>1, <2>3, <2>4, KeepsOn
<1>5. ASSUME NEW b \in Consumers, Handle(b)
      PROVE  \/ polling[c] = "busy" /\ current'[c] = current[c] /\ memory'[c] = memory[c]
             \/ \E l \in stored : m = l /\ memory'[c][messages[l].session] = Rebuild(c, l)
  <2>1. PICK l \in stored :
             /\ current' = [current EXCEPT ![b] = l]
             /\ polling' = [polling EXCEPT ![b] = "busy"]
             /\ memory'[b][messages[l].session] = Rebuild(b, l)
             /\ \A k \in Consumers \ {b} : memory'[k] = memory[k]
    BY <1>5, Handled
  <2>2. CASE b = c
    BY <1>1, <2>1, <2>2
  <2>3. CASE b # c
    BY <1>1, <2>1, <2>3
  <2>4. QED
    BY <2>2, <2>3
<1>6. ASSUME NEW b \in Consumers, Finish(b)
      PROVE  polling[c] = "busy" /\ current'[c] = current[c] /\ memory'[c] = memory[c]
  <2>1. b # c
    BY <1>1, <1>6 DEF Finish
  <2>2. QED
    BY <1>1, <1>6, <2>1 DEF Finish
<1>7. ~Restart
  BY <1>1 DEF Restart, BatchesVanish
<1>8. CASE UNCHANGED <<current, memory>> /\ UNCHANGED polling
  BY <1>4, <1>8
<1>9. ASSUME UNCHANGED <<current, memory>>, NEW a \in Readers, NEW x \in {"ready", "marking"},
             polling[a] # "busy", polling' = [polling EXCEPT ![a] = x]
      PROVE  polling[c] = "busy" /\ current'[c] = current[c] /\ memory'[c] = memory[c]
  BY <1>1, <1>9
<1>10. ASSUME NEW q \in Pollers, Posts(q)
       PROVE  polling[c] = "busy" /\ current'[c] = current[c] /\ memory'[c] = memory[c]
  BY <1>1, <1>10, PostsAlone
<1>11. QED
  BY <1>3, <1>4, <1>5, <1>6, <1>7, <1>8, <1>9, <1>10, WorkStep

-----------------------------------------------------------------------------
(* The front ends. *)

\* The front end stays what was started; its poll loops and the errors stay in
\* their bounds.
LEMMA Lasting ==
    ASSUME TypeOK, [Next]_vars
    PROVE  /\ frontend' = frontend /\ frontend \in {"repl", "discord"}
           /\ running' \in SUBSET Pollers /\ errors' \in 0 .. MaxErrors
<1> DEFINE Goal == /\ frontend' = frontend
                   /\ running' \in SUBSET Pollers /\ errors' \in 0 .. MaxErrors
<1>1. frontend \in {"repl", "discord"} /\ running \in SUBSET Pollers /\ errors \in 0 .. MaxErrors
  BY DEF TypeOK, BusTypeOK
<1>2. Error => errors' \in 0 .. MaxErrors
  BY <1>1, BusAssumption DEF Error
<1>3. ASSUME UNCHANGED <<frontend, running>>, errors' = errors \/ Error
      PROVE  Goal
  BY <1>1, <1>2, <1>3
<1>4. CASE \/ UNCHANGED vars
           \/ \E c \in Consumers : Handle(c) \/ Finish(c)
           \/ AssistantSends
           \/ \E e \in Experts : ExpertReplies(e)
           \/ \E w \in Watchers : ExpertCounts(w) \/ ExpertOpens(w) \/ ExpertNotifies(w)
           \/ ReplCounts \/ ReplOpens \/ ReplWrites \/ \E s \in Sessions : ReplSwitches(s)
  BY <1>1, <1>3, <1>4 DEF vars, busVars, Handle, Finish, AssistantSends, ExpertReplies, ExpertCounts,
     ExpertOpens, ExpertNotifies, ReplCounts, ReplOpens, ReplWrites, ReplSwitches
<1>5. ASSUME NEW a \in Readers, Polls(a) \/ Marks(a) \/ (PollRaises(a) /\ Quiet)
       PROVE  Goal
  BY <1>3, <1>5 DEF Polls, Marks, Quiet, Poll, Mark, PollRaises
<1>6. ASSUME NEW k \in Creators \union Consumers, SendEnds(k)
       PROVE  Goal
  BY <1>3, <1>6 DEF SendEnds, Commit, SendRaises, Quiet
<1>7. ASSUME NEW d \in Tasks,
             \/ BotAsked(d) \/ BotOpens(d) \/ ThreadAppears(d) \/ BotSends(d)
             \/ BotContinues(d) \/ BotAskedInThread(d) \/ BotAdopts(d) \/ BotGivesUp(d)
      PROVE  Goal
  BY <1>3, <1>7 DEF BotAsked, BotOpens, ThreadAppears, BotSends, BotContinues, BotAskedInThread,
     BotAdopts, BotGivesUp, busVars
<1>8. ASSUME NEW p \in Pollers, Shows(p)
      PROVE  Goal
  BY <1>3, <1>8 DEF Shows, ReplShows, ReplShowRaises, BotPosts, BotMakesThread, BotPostsInNew,
     BotPassesOver, BotPostRaises
<1>9. ASSUME NEW p \in Pollers, OnReady(p)
      PROVE  Goal
  BY <1>1, <1>9 DEF OnReady, busVars
<1>10. CASE Restart
  BY <1>1, <1>2, <1>10 DEF Restart, AtStart
<1>11. QED
  BY <1>1, <1>4, <1>5, <1>6, <1>7, <1>8, <1>9, <1>10 DEF Next

\* What was counted and opened, and where the terminal is.
Counters ==
    /\ active \in sessions \union {0} /\ (active # 0 => frontend = "repl")
    /\ opened \in [Watchers -> sessions \union {0}]
    /\ \A k \in Creators : counted[k] # 0 => counted[k] \in Sessions
    /\ counted[Human] # 0 => frontend = "repl"

\* A step keeps what was counted and opened in its type.
LEMMA CountersKept ==
    ASSUME TypeOK, Stages, [Next]_vars
    PROVE  Counters'
<1>1. /\ active \in sessions \union {0} /\ (active # 0 => frontend = "repl")
      /\ opened \in [Watchers -> sessions \union {0}]
      /\ counted \in [Creators -> Nat]
      /\ \A k \in Creators : counted[k] # 0 => counted[k] \in Sessions
      /\ counted[Human] # 0 => frontend = "repl"
  BY DEF TypeOK, BusTypeOK, Stages
<1>2. /\ Human \in Creators /\ Human \notin Tasks /\ Human \notin Watchers
      /\ Tasks \subseteq Creators /\ Watchers \subseteq Creators
  BY WhoCreates
<1>3. /\ sessions \subseteq sessions' /\ frontend' = frontend
      /\ opened \in [Watchers -> sessions' \union {0}] /\ active \in sessions' \union {0}
  BY <1>1, TablesGrow, Lasting
<1>4. CASE UNCHANGED <<active, opened, counted>>
  BY <1>1, <1>3, <1>4 DEF Counters
<1>5. ASSUME NEW k \in Creators, CountSessions(k), UNCHANGED <<active, opened>>,
             k = Human => frontend = "repl"
      PROVE  Counters'
  <2>1. counted'[k] \in Sessions /\ \A l \in Creators \ {k} : counted'[l] = counted[l]
    BY <1>5, Counted
  <2>2. QED
    BY <1>1, <1>2, <1>3, <1>5, <2>1 DEF Counters
<1>6. ASSUME NEW k \in Creators, counted' = [counted EXCEPT ![k] = 0],
             active' \in sessions' \union {0}, active' # 0 => frontend = "repl",
             opened' \in [Watchers -> sessions' \union {0}]
      PROVE  Counters'
  BY <1>1, <1>2, <1>3, <1>6 DEF Counters
<1>7. CASE \/ UNCHANGED vars
           \/ \E a \in Readers : Polls(a) \/ Marks(a) \/ (PollRaises(a) /\ Quiet)
           \/ \E k \in Creators \union Consumers : SendEnds(k)
           \/ \E c \in Consumers : Handle(c) \/ Finish(c)
           \/ AssistantSends
           \/ \E e \in Experts : ExpertReplies(e)
           \/ ReplWrites
           \/ \E d \in Tasks : ThreadAppears(d) \/ BotSends(d) \/ BotContinues(d)
           \/ \E p \in Pollers : OnReady(p) \/ Shows(p)
  <2>1. UNCHANGED counted
    <3>1. CASE \/ AssistantSends \/ \E e \in Experts : ExpertReplies(e)
               \/ ReplWrites \/ \E d \in Tasks : BotSends(d) \/ BotContinues(d)
      BY <3>1 DEF AssistantSends, ExpertReplies, ReplWrites, BotSends, BotContinues
    <3>2. QED
      BY <1>7, <3>1, TablesIdle
  <2>2. UNCHANGED <<active, opened>>
    <3>1. CASE \/ UNCHANGED vars
               \/ \E a \in Readers : Polls(a) \/ Marks(a) \/ (PollRaises(a) /\ Quiet)
               \/ \E k \in Creators \union Consumers : SendEnds(k)
               \/ \E c \in Consumers : Handle(c) \/ Finish(c)
               \/ AssistantSends
               \/ \E e \in Experts : ExpertReplies(e)
               \/ ReplWrites
               \/ \E d \in Tasks : ThreadAppears(d) \/ BotSends(d) \/ BotContinues(d)
      BY <3>1 DEF vars, agentVars, replVars, Polls, Marks, Quiet, SendEnds, Handle, Finish,
         AssistantSends, ExpertReplies, ReplWrites, ThreadAppears, BotSends, BotContinues
    <3>2. CASE \E p \in Pollers : OnReady(p) \/ Shows(p)
      BY <3>2 DEF agentVars, replVars, OnReady, Shows, ReplShows, ReplShowRaises, BotPosts,
         BotMakesThread, BotPostsInNew, BotPassesOver, BotPostRaises
    <3>3. QED
      BY <1>7, <3>1, <3>2
  <2>3. QED
    BY <1>4, <2>1, <2>2
<1>8. ASSUME NEW w \in Watchers, ExpertCounts(w) \/ ExpertOpens(w) \/ ExpertNotifies(w)
      PROVE  Counters'
  <2>1. active' = active /\ w \in Creators /\ w # Human
    BY <1>2, <1>8 DEF ExpertCounts, ExpertOpens, ExpertNotifies, replVars
  <2>2. CASE ExpertCounts(w)
    <3>1. CountSessions(w) /\ opened' = opened
      BY <2>2 DEF ExpertCounts, agentVars
    <3>2. QED
      BY <1>5, <2>1, <3>1
  <2>3. CASE ExpertOpens(w)
    <3>1. counted' = [counted EXCEPT ![w] = 0]
      BY <2>3 DEF ExpertOpens, InsertSession, InsertRaises
    <3>2. opened' = opened \/ (opened' = [opened EXCEPT ![w] = counted[w]] /\ counted[w] \in sessions')
      BY <2>3 DEF ExpertOpens, InsertSession
    <3>3. opened' \in [Watchers -> sessions' \union {0}]
      BY <1>3, <3>2
    <3>4. QED
      BY <1>1, <1>3, <1>6, <2>1, <3>1, <3>3
  <2>4. CASE ExpertNotifies(w)
    <3>1. opened' = [opened EXCEPT ![w] = 0] /\ counted' = counted
      BY <2>4 DEF ExpertNotifies
    <3>2. opened' \in [Watchers -> sessions' \union {0}]
      BY <1>3, <3>1
    <3>3. QED
      BY <1>1, <1>3, <2>1, <3>1, <3>2 DEF Counters
  <2>5. QED
    BY <1>8, <2>2, <2>3, <2>4
<1>9. CASE ReplCounts
  BY <1>2, <1>5, <1>9 DEF ReplCounts, AtPrompt, replVars, agentVars
<1>10. CASE ReplOpens
  <2>1. /\ counted' = [counted EXCEPT ![Human] = 0] /\ active' = counted[Human]
        /\ counted[Human] \in sessions' /\ counted[Human] # 0 /\ opened' = opened
    BY <1>10 DEF ReplOpens, InsertSession, agentVars
  <2>2. QED
    BY <1>1, <1>2, <1>3, <1>6, <2>1
<1>11. ASSUME NEW s \in Sessions, ReplSwitches(s)
       PROVE  Counters'
  <2>1. /\ active' = s /\ s \in sessions /\ frontend = "repl" /\ UNCHANGED <<opened, counted>>
    BY <1>11 DEF ReplSwitches, AtPrompt, agentVars, busVars
  <2>2. QED
    BY <1>1, <1>3, <2>1 DEF Counters
<1>12. ASSUME NEW d \in Tasks, BotAsked(d) \/ BotAskedInThread(d)
       PROVE  Counters'
  <2>1. UNCHANGED <<active, opened>> /\ d \in Creators /\ d # Human /\ CountSessions(d)
    BY <1>2, <1>12 DEF BotAsked, BotAskedInThread, replVars, agentVars
  <2>2. QED
    BY <1>5, <2>1
<1>13. ASSUME NEW d \in Tasks, BotOpens(d) \/ BotAdopts(d)
       PROVE  Counters'
  <2>1. /\ UNCHANGED <<active, opened>> /\ d \in Creators
        /\ counted' = [counted EXCEPT ![d] = 0]
    BY <1>2, <1>13 DEF BotOpens, BotAdopts, InsertSession, replVars, agentVars
  <2>2. QED
    BY <1>1, <1>3, <1>6, <2>1
<1>14. ASSUME NEW d \in Tasks, BotGivesUp(d)
       PROVE  Counters'
  <2>1. /\ UNCHANGED <<active, opened>> /\ d \in Creators
        /\ counted' = [counted EXCEPT ![d] = 0] \/ counted' = counted
    BY <1>2, <1>14 DEF BotGivesUp, InsertRaises, replVars, agentVars
  <2>2. QED
    BY <1>1, <1>3, <1>4, <1>6, <2>1
<1>15. CASE Restart
  <2>1. /\ active' = 0 /\ opened' = [w \in Watchers |-> 0]
        /\ counted' = [k \in DOMAIN counted |-> 0]
    BY <1>15 DEF Restart, BatchesVanish
  <2>2. QED
    BY <1>1, <1>2, <2>1 DEF Counters
<1>16. QED
  BY <1>7, <1>8, <1>9, <1>10, <1>11, <1>12, <1>13, <1>14, <1>15 DEF Next

\* What a poll loop has in hand while it waits for a thread.
Posting ==
    /\ posting \in [Pollers -> [message : stored \union {0}, place : Places \union {NoPlace}]]
    /\ \A p \in Pollers : polling[p] = "busy" <=> posting[p].message # 0
    /\ \A p \in Pollers : posting[p].message # 0 => posting[p].place \in Places

\* What the three steps of a poll loop that posts do to what it has in hand.
LEMMA Waits ==
    ASSUME TypeOK, NEW p \in Pollers, Posts(p)
    PROVE  \/ \E m \in stored, t \in Places :
                 /\ posting' = [posting EXCEPT ![p] = [message |-> m, place |-> t]]
                 /\ polling'[p] = "busy"
           \/ posting' = [posting EXCEPT ![p] = NoPost] /\ polling'[p] = "ready"
<1>1. /\ polling \in [Readers -> {"ready", "marking", "busy"}] /\ p \in Readers
      /\ pending[p] \in Seq(stored) /\ live \subseteq Places
  BY WhoCreates DEF TypeOK, BusTypeOK
<1>2. CASE BotMakesThread(p)
  <2>1. PICK m \in Ids, t \in NewPlaces :
             Take(p, m) /\ posting' = [posting EXCEPT ![p] = [message |-> m, place |-> t]]
    BY <1>2 DEF BotMakesThread
  <2>2. m \in stored /\ t \in Places
    BY <1>1, <2>1, Dropped DEF Take, NewPlaces
  <2>3. polling'[p] = "busy"
    BY <1>1, <1>2 DEF BotMakesThread
  <2>4. QED
    BY <2>1, <2>2, <2>3
<1>3. CASE BotPostsInNew(p) \/ BotPostRaises(p)
  BY <1>1, <1>3 DEF BotPostsInNew, BotPostRaises
<1>4. QED
  BY <1>2, <1>3 DEF Posts

\* A step keeps what the poll loops have in hand in its type.
LEMMA PostingKept ==
    ASSUME TypeOK, Stages, [Next]_vars
    PROVE  Posting'
<1> DEFINE Hands == [message : stored \union {0}, place : Places \union {NoPlace}]
           Goal == /\ posting' \in [Pollers -> Hands]
                   /\ \A p \in Pollers : polling'[p] = "busy" <=> posting'[p].message # 0
                   /\ \A p \in Pollers : posting'[p].message # 0 => posting'[p].place \in Places
<1>1. /\ posting \in [Pollers -> Hands]
      /\ polling \in [Readers -> {"ready", "marking", "busy"}]
      /\ \A p \in Pollers : polling[p] = "busy" <=> posting[p].message # 0
      /\ \A p \in Pollers : posting[p].message # 0 => posting[p].place \in Places
      /\ Pollers \subseteq Readers /\ Pollers \cap Consumers = {} /\ 0 \notin stored
  BY WhoCreates, StoredAre DEF TypeOK, BusTypeOK, Stages
<1>2. NoPost \in Hands /\ NoPost.message = 0
  BY DEF NoPost
<1>3. SUFFICES Goal
  BY StoreTypes DEF Posting
<1>4. CASE UNCHANGED <<posting, polling>>
  BY <1>1, <1>4
<1>5. ASSUME NEW c \in Consumers, Handle(c) \/ Finish(c)
      PROVE  Goal
  <2>1. posting' = posting /\ \A p \in Pollers : polling'[p] = polling[p]
    BY <1>1, <1>5 DEF Handle, Finish, botVars
  <2>2. QED
    BY <1>1, <2>1
<1>6. ASSUME NEW p \in Pollers, Posts(p)
      PROVE  Goal
  <2>1. \A q \in Pollers \ {p} : polling'[q] = polling[q]
    BY <1>1, <1>6, PostsAlone
  <2>2. PICK v \in Hands : /\ posting' = [posting EXCEPT ![p] = v]
                           /\ polling'[p] = "busy" <=> v.message # 0
                           /\ v.message # 0 => v.place \in Places
    <3>1. ASSUME NEW m \in stored, NEW t \in Places,
                 posting' = [posting EXCEPT ![p] = [message |-> m, place |-> t]],
                 polling'[p] = "busy"
          PROVE  \E v \in Hands : /\ posting' = [posting EXCEPT ![p] = v]
                                  /\ polling'[p] = "busy" <=> v.message # 0
                                  /\ v.message # 0 => v.place \in Places
      <4>1. PICK v : v = [message |-> m, place |-> t]
        OBVIOUS
      <4>2. v \in Hands /\ v.message # 0 /\ v.place \in Places
        BY <1>1, <4>1
      <4>3. posting' = [posting EXCEPT ![p] = v]
        BY <3>1, <4>1
      <4>4. QED
        BY <3>1, <4>2, <4>3
    <3>2. QED
      BY <1>2, <1>6, <3>1, Waits
  <2>3. /\ posting' \in [Pollers -> Hands] /\ posting'[p] = v
        /\ \A q \in Pollers \ {p} : posting'[q] = posting[q]
    BY <1>1, <2>2
  <2>4. QED
    BY <1>1, <2>1, <2>2, <2>3
<1>7. CASE Restart
  <2>1. /\ posting' = [p \in Pollers |-> NoPost]
        /\ \A p \in Pollers : polling'[p] = "ready"
    BY <1>1, <1>7 DEF Restart, BatchesVanish
  <2>2. QED
    BY <1>2, <2>1
<1>8. ASSUME posting' = posting, NEW a \in Readers, NEW x \in {"ready", "marking"},
             polling[a] # "busy", polling' = [polling EXCEPT ![a] = x]
      PROVE  Goal
  <2>1. \A p \in Pollers : polling'[p] = "busy" <=> polling[p] = "busy"
    BY <1>1, <1>8
  <2>2. QED
    BY <1>1, <1>8, <2>1
<1>9. QED
  BY <1>4, <1>5, <1>6, <1>7, <1>8, WorkStep

\* The states of an on_message call.
Calls(S) == [at : {"free", "asking", "asking in thread", "creating", "created"},
             place : Places \union {NoPlace},
             session : S \union {0}]

\* An on_message call gets on: it has counted the sessions, for a thread, or
\* inserted its own, or its thread has appeared.
Advances(d, v) ==
    /\ task' = [task EXCEPT ![d] = v]
    /\ v \in Calls(sessions') /\ v.place \in Places /\ frontend = "discord"
    /\ UNCHANGED <<messages, opened, posting, threadOf, posted>>
    /\ \/ v.at \in {"asking", "asking in thread"} /\ sessions' = sessions
       \/ v.at = "creating" /\ v.session = counted[d] /\ InsertSession(d)
       \/ /\ v.at = "created" /\ task[d].at = "creating" /\ v.session = task[d].session
          /\ sessions' = sessions

\* The four steps of on_message that go on with the call.
LEMMA TaskAdvances ==
    ASSUME TypeOK, Stages, NEW d \in Tasks,
           BotAsked(d) \/ BotOpens(d) \/ ThreadAppears(d) \/ BotAskedInThread(d)
    PROVE  \E v : Advances(d, v)
<1>1. /\ task \in [Tasks -> Calls(sessions)] /\ live \subseteq Places
      /\ task[d].at # "free" => task[d].place \in Places /\ frontend = "discord"
  BY DEF TypeOK, Stages, Calls
<1>2. PICK u \in Calls(sessions) : u = task[d]
  BY <1>1
<1>3. ASSUME BotAsked(d) \/ BotAskedInThread(d)
      PROVE  \E v : Advances(d, v)
  <2>1. PICK t \in Places, x \in {"asking", "asking in thread"} :
           task' = [task EXCEPT ![d] = [u EXCEPT !.at = x, !.place = t]]
    <3>1. CASE BotAsked(d)
      BY <1>1, <1>2, <3>1 DEF BotAsked, NewPlaces
    <3>2. CASE BotAskedInThread(d)
      BY <1>1, <1>2, <3>2 DEF BotAskedInThread
    <3>3. QED
      BY <1>3, <3>1, <3>2
  <2>2. PICK v : v = [u EXCEPT !.at = x, !.place = t]
    OBVIOUS
  <2>3. v \in Calls(sessions) /\ v.at = x /\ v.place = t
    BY <1>2, <2>2 DEF Calls
  <2>4. UNCHANGED <<messages, opened, posting, threadOf, posted, sessions>> /\ frontend = "discord"
    BY <1>3 DEF BotAsked, BotAskedInThread, Free, sendVars, agentVars
  <2>5. Advances(d, v)
    BY <2>1, <2>2, <2>3, <2>4 DEF Advances, Calls
  <2>6. QED
    BY <2>5
<1>4. ASSUME BotOpens(d)
      PROVE  \E v : Advances(d, v)
  <2>1. PICK n : n = counted[d]
    OBVIOUS
  <2>2. PICK v : v = [u EXCEPT !.at = "creating", !.session = n]
    OBVIOUS
  <2>3. task' = [task EXCEPT ![d] = v] /\ u.at = "asking" /\ InsertSession(d)
        /\ UNCHANGED <<messages, opened, posting, threadOf, posted>>
    BY <1>1, <1>2, <1>4, <2>1, <2>2 DEF BotOpens, sendVars, agentVars
  <2>4. sessions' = sessions \union {n}
    BY <2>1, <2>3, WhoCreates, Inserted
  <2>5. v \in Calls(sessions') /\ v.at = "creating" /\ v.place = u.place /\ v.session = n
    BY <1>2, <2>2, <2>4 DEF Calls
  <2>6. u.place \in Places /\ frontend = "discord"
    BY <1>1, <1>2, <2>3
  <2>7. Advances(d, v)
    BY <2>1, <2>3, <2>5, <2>6 DEF Advances
  <2>8. QED
    BY <2>7
<1>5. ASSUME ThreadAppears(d)
      PROVE  \E v : Advances(d, v)
  <2>1. PICK v : v = [u EXCEPT !.at = "created"]
    OBVIOUS
  <2>2. task' = [task EXCEPT ![d] = v] /\ u.at = "creating"
        /\ UNCHANGED <<messages, opened, posting, threadOf, posted, sessions>>
    BY <1>1, <1>2, <1>5, <2>1 DEF ThreadAppears, busVars, sendVars, agentVars
  <2>3. v \in Calls(sessions) /\ v.at = "created" /\ v.place = u.place /\ v.session = u.session
    BY <1>2, <2>1 DEF Calls
  <2>4. u.place \in Places /\ frontend = "discord"
    BY <1>1, <1>2, <2>2
  <2>5. Advances(d, v)
    BY <1>2, <2>2, <2>3, <2>4 DEF Advances, Calls
  <2>6. QED
    BY <2>5
<1>6. QED
  BY <1>3, <1>4, <1>5

\* Somebody who has no thread to keep writes, or an expert opens a session.
Writes ==
    \/ AssistantSends
    \/ \E e \in Experts : ExpertReplies(e)
    \/ \E w \in Watchers : ExpertOpens(w) \/ ExpertNotifies(w)
    \/ ReplWrites
    \/ \E d \in Tasks : BotContinues(d)

\* What a step does to the calls, the mapping and the threads.
LEMMA BotStep ==
    ASSUME [Next]_vars
    PROVE  \/ UNCHANGED botVars /\ (UNCHANGED <<messages, opened>> \/ Writes)
           \/ \E d \in Tasks : \/ BotAsked(d) \/ BotOpens(d) \/ ThreadAppears(d)
                               \/ BotAskedInThread(d) \/ BotSends(d) \/ BotAdopts(d)
                               \/ BotGivesUp(d)
           \/ \E p \in Pollers : BotPosts(p) \/ Posts(p)
           \/ Restart
<1>1. CASE \/ UNCHANGED vars
           \/ \E a \in Readers : Polls(a) \/ Marks(a) \/ (PollRaises(a) /\ Quiet)
           \/ \E k \in Creators \union Consumers : SendEnds(k)
           \/ \E c \in Consumers : Handle(c) \/ Finish(c)
           \/ \E w \in Watchers : ExpertCounts(w)
           \/ ReplCounts \/ ReplOpens \/ \E s \in Sessions : ReplSwitches(s)
           \/ \E p \in Pollers : OnReady(p)
  BY <1>1 DEF vars, busVars, sendVars, agentVars, Polls, Poll, Marks, Mark, PollRaises, Quiet,
     SendEnds, Commit, SendRaises, Handle, Finish, ExpertCounts, ReplCounts, ReplOpens,
     ReplSwitches, OnReady
<1>2. ASSUME NEW p \in Pollers, Shows(p)
      PROVE  UNCHANGED <<messages, opened, botVars>> \/ BotPosts(p) \/ Posts(p)
  BY <1>2 DEF Shows, Posts, ReplShows, ReplShowRaises, BotPassesOver, sendVars, agentVars
<1>3. CASE Writes
  <2>1. UNCHANGED botVars
    BY <1>3 DEF Writes, AssistantSends, ExpertReplies, ExpertOpens, ExpertNotifies, ReplWrites,
       BotContinues
  <2>2. QED
    BY <1>3, <2>1
<1>4. QED
  BY <1>1, <1>2, <1>3 DEF Next, Writes

\* The calls and the threads keep their types, and a call what it needs.
BotOK ==
    /\ task \in [Tasks -> Calls(sessions)]
    /\ \A d \in Tasks : task[d].at # "free" => task[d].place \in Places /\ frontend = "discord"
    /\ \A d \in Tasks : task[d].at \in {"creating", "created"} => task[d].session # 0
    /\ threadOf \in [Sessions -> Places \union {NoPlace}]
    /\ live \in SUBSET Places
    /\ posted \in SUBSET (stored \X Places)

\* A step keeps the calls and the threads in their types.
LEMMA BotKept ==
    ASSUME TypeOK, Stages, [Next]_vars
    PROVE  BotOK'
<1>1. /\ task \in [Tasks -> Calls(sessions)]
      /\ \A d \in Tasks : task[d].at # "free" => task[d].place \in Places /\ frontend = "discord"
      /\ \A d \in Tasks : task[d].at \in {"creating", "created"} => task[d].session # 0
      /\ threadOf \in [Sessions -> Places \union {NoPlace}]
      /\ live \in SUBSET Places
      /\ posted \in SUBSET (stored \X Places)
  BY DEF TypeOK, Stages, Calls
<1>2. /\ sessions \subseteq sessions' /\ sessions' \subseteq Sessions
      /\ stored \subseteq stored' /\ frontend' = frontend
  BY TablesGrow, StoreTypes, Lasting
<1>3. /\ Calls(sessions) \subseteq Calls(sessions') /\ NoTask \in Calls(sessions')
      /\ task \in [Tasks -> Calls(sessions')]
  <2>1. Calls(sessions) \subseteq Calls(sessions') /\ NoTask \in Calls(sessions')
    BY <1>2 DEF Calls, NoTask
  <2>2. QED
    BY <1>1, <2>1
<1>4. posted \in SUBSET (stored' \X Places)
  BY <1>1, <1>2
<1>5. ASSUME task' \in [Tasks -> Calls(sessions')],
             \A e \in Tasks : task'[e] = task[e] \/ task'[e] = NoTask,
             threadOf' \in [Sessions -> Places \union {NoPlace}], live' \in SUBSET Places,
             posted' \in SUBSET (stored' \X Places)
      PROVE  BotOK'
  BY <1>1, <1>2, <1>5 DEF BotOK, NoTask
<1>6. ASSUME NEW d \in Tasks, task' = [task EXCEPT ![d] = NoTask]
      PROVE  /\ task' \in [Tasks -> Calls(sessions')]
             /\ \A e \in Tasks : task'[e] = task[e] \/ task'[e] = NoTask
  BY <1>1, <1>3, <1>6
<1>7. CASE UNCHANGED botVars
  BY <1>1, <1>3, <1>4, <1>5, <1>7 DEF botVars
<1>8. ASSUME NEW d \in Tasks,
             BotAsked(d) \/ BotOpens(d) \/ ThreadAppears(d) \/ BotAskedInThread(d)
      PROVE  BotOK'
  <2>1. PICK v : Advances(d, v)
    BY <1>8, TaskAdvances
  <2>2. /\ task' = [task EXCEPT ![d] = v]
        /\ v \in Calls(sessions') /\ v.place \in Places /\ frontend = "discord"
        /\ UNCHANGED <<threadOf, posted>>
    BY <2>1 DEF Advances
  <2>3. v.at \in {"creating", "created"} => v.session # 0
    <3>1. CASE v.at = "creating"
      <4>1. v.session = counted[d] /\ InsertSession(d)
        BY <2>1, <3>1 DEF Advances
      <4>2. QED
        BY <4>1 DEF InsertSession
    <3>2. CASE v.at = "created"
      BY <1>1, <2>1, <3>2 DEF Advances
    <3>3. QED
      BY <3>1, <3>2
  <2>4. /\ task' \in [Tasks -> Calls(sessions')] /\ task'[d] = v
        /\ \A e \in Tasks \ {d} : task'[e] = task[e]
    BY <1>1, <1>3, <2>2
  <2>5. live' \in SUBSET Places
    BY <1>1, <1>8 DEF BotAsked, BotOpens, ThreadAppears, BotAskedInThread
  <2>6. /\ \A e \in Tasks : task'[e].at # "free" => task'[e].place \in Places /\ frontend' = "discord"
        /\ \A e \in Tasks : task'[e].at \in {"creating", "created"} => task'[e].session # 0
    BY <1>1, <1>2, <2>2, <2>3, <2>4
  <2>7. QED
    BY <1>1, <1>4, <2>2, <2>4, <2>5, <2>6 DEF BotOK
<1>9. ASSUME NEW d \in Tasks, BotSends(d) \/ BotAdopts(d)
      PROVE  BotOK'
  <2>1. /\ task' = [task EXCEPT ![d] = NoTask] /\ UNCHANGED <<live, posted>>
        /\ task[d].place \in Places
        /\ \E s : threadOf' = [threadOf EXCEPT ![s] = task[d].place]
    BY <1>1, <1>9 DEF BotSends, BotAdopts, SaveThreadMapping
  <2>2. threadOf' \in [Sessions -> Places \union {NoPlace}]
    BY <1>1, <2>1
  <2>3. QED
    BY <1>1, <1>4, <1>5, <1>6, <2>1, <2>2
<1>10. ASSUME NEW d \in Tasks, BotGivesUp(d)
       PROVE  BotOK'
  BY <1>1, <1>4, <1>5, <1>6, <1>10 DEF BotGivesUp
<1>11. ASSUME NEW p \in Pollers, BotPosts(p)
       PROVE  BotOK'
  <2>1. PICK m \in Ids : /\ Take(p, m) /\ threadOf[messages[m].session] # NoPlace
                         /\ posted' = posted \union {<<m, threadOf[messages[m].session]>>}
    BY <1>11 DEF BotPosts
  <2>2. m \in stored
    <3>1. pending[p] \in Seq(stored)
      BY WhoCreates DEF TypeOK, BusTypeOK
    <3>2. QED
      BY <2>1, <3>1, Dropped DEF Take
  <2>3. threadOf[messages[m].session] \in Places
    BY <1>1, <2>1, MessageFields
  <2>4. posted' \in SUBSET (stored' \X Places)
    BY <1>2, <1>4, <2>1, <2>2, <2>3
  <2>5. UNCHANGED <<task, threadOf, live>>
    BY <1>11 DEF BotPosts
  <2>6. QED
    BY <1>1, <1>3, <1>5, <2>4, <2>5
<1>12. ASSUME NEW p \in Pollers, BotMakesThread(p) \/ BotPostRaises(p)
       PROVE  BotOK'
  <2>1. UNCHANGED <<task, threadOf, posted>> /\ live' \in SUBSET Places
    BY <1>1, <1>12 DEF BotMakesThread, BotPostRaises, NewPlaces
  <2>2. QED
    BY <1>1, <1>3, <1>4, <1>5, <2>1
<1>13. ASSUME NEW p \in Pollers, BotPostsInNew(p)
       PROVE  BotOK'
  <2>1. PICK m, t, s : m = posting[p].message /\ t = posting[p].place /\ s = messages[m].session
    OBVIOUS
  <2>2. /\ m \in stored /\ t \in Places
    <3>1. polling[p] = "busy" /\ posting[p].message \in stored \union {0}
      BY <1>13 DEF BotPostsInNew, TypeOK
    <3>2. QED
      BY <2>1, <3>1 DEF Stages
  <2>3. /\ posted' = posted \union {<<m, t>>} /\ threadOf' = [threadOf EXCEPT ![s] = t]
        /\ UNCHANGED <<task, live>>
    BY <1>13, <2>1 DEF BotPostsInNew, SaveThreadMapping
  <2>4. posted' \in SUBSET (stored' \X Places) /\ threadOf' \in [Sessions -> Places \union {NoPlace}]
    <3>1. <<m, t>> \in stored' \X Places
      BY <1>2, <2>2
    <3>2. threadOf' \in [Sessions -> Places \union {NoPlace}]
      BY <1>1, <2>2, <2>3
    <3>3. QED
      BY <1>4, <2>3, <3>1, <3>2
  <2>5. QED
    BY <1>1, <1>3, <1>5, <2>3, <2>4
<1>14. CASE Restart
  <2>1. task' = [d \in Tasks |-> NoTask] /\ UNCHANGED <<threadOf, live, posted>>
    BY <1>14 DEF Restart
  <2>2. task' \in [Tasks -> Calls(sessions')] /\ \A d \in Tasks : task'[d] = NoTask
    BY <1>3, <2>1
  <2>3. QED
    BY <1>1, <1>4, <1>5, <2>1, <2>2
<1>15. QED
  BY <1>7, <1>8, <1>9, <1>10, <1>11, <1>12, <1>13, <1>14, BotStep DEF Posts

-----------------------------------------------------------------------------
(* The types. *)

\* Type correctness holds along every behaviour, with the stages.
LEMMA TypesHold == Spec => [](TypeOK /\ Stages)
<1>1. Init => TypeOK /\ Stages
  <2> SUFFICES ASSUME Init
               PROVE  TypeOK /\ Stages
    OBVIOUS
  <2> USE DEF Init, BusInit
  <2>1. messages = << >> /\ Ids = {}
    BY DEF Ids
  <2>2. \A S : << >> \in Seq(S)
    OBVIOUS
  <2>3. BusTypeOK(Creators)
    BY <2>1, <2>2, BusAssumption DEF BusTypeOK
  <2>4. frontend \in {"repl", "discord"} /\ running \in SUBSET Pollers
    BY ConversationsAssumption DEF AtStart
  <2>5. /\ current \in [Consumers -> stored \union {0}]
        /\ memory \in [Consumers -> [Sessions -> Seq(stored)]]
    BY <2>2
  <2>6. task \in [Tasks -> Calls(sessions)]
    BY DEF NoTask, Calls
  <2>7. posting \in [Pollers -> [message : stored \union {0}, place : Places \union {NoPlace}]]
    BY DEF NoPost
  <2>8. TypeOK
    BY <2>3, <2>4, <2>5, <2>6, <2>7 DEF TypeOK, Calls
  <2>9. Stages
    BY WhoCreates DEF Stages, NoTask, NoPost
  <2>10. QED
    BY <2>8, <2>9
<1>2. TypeOK /\ Stages /\ [Next]_vars => TypeOK' /\ Stages'
  <2> SUFFICES ASSUME TypeOK, Stages, [Next]_vars
               PROVE  TypeOK' /\ Stages'
    OBVIOUS
  <2>1. Counters' /\ Working' /\ BotOK' /\ Posting'
    BY CountersKept, WorkingKept, BotKept, PostingKept
  <2>2. BusTypeOK(Creators)'
    BY TablesGrow, MessagesStay, StoreTypes, BatchTypes, Lasting DEF BusTypeOK, Creators, Ids
  <2>3. TypeOK'
    BY <2>1, <2>2, Lasting DEF TypeOK, Counters, Working, BotOK, Posting, Calls
  <2>4. Stages'
    BY <2>1, BatchTypes DEF Stages, Counters, Working, BotOK, Posting
  <2>5. QED
    BY <2>3, <2>4
<1>3. QED
  BY <1>1, <1>2, PTL DEF Spec

\* Every row and every variable of the process keeps its type: in particular
\* each message is of a session in the table, the terminal is never in a
\* session that is not inserted, and a call of Discord never names one.
THEOREM TypeCorrect == Spec => []TypeOK
<1>1. TypeOK /\ Stages => TypeOK
  OBVIOUS
<1>2. QED
  BY <1>1, TypesHold, PTL

-----------------------------------------------------------------------------
(* Where answers are posted. *)

\* A message added is the only new one.
LEMMA SentIsNew ==
    ASSUME TypeOK, NEW s, NEW p, Appended(s, p)
    PROVE  \A q \in Ids' \ Ids : messages'[q].session = s /\ messages'[q].place = p
<1>1. messages \in Seq(Messages)
  BY DEF TypeOK, BusTypeOK
<1>2. PICK v \in Messages : v.session = s /\ v.place = p /\ messages' = Append(messages, v)
  BY DEF Appended
<1>3. /\ DOMAIN messages' = 1 .. Len(messages) + 1 /\ DOMAIN messages = 1 .. Len(messages)
      /\ messages'[Len(messages) + 1] = v /\ Len(messages) \in Nat
  BY <1>1, <1>2
<1>4. \A q \in Ids' \ Ids : q = Len(messages) + 1
  BY <1>3 DEF Ids
<1>5. QED
  BY <1>2, <1>3, <1>4

\* What Threads says of an on_message call, of the poll loops and of the rows.
LEMMA ThreadFacts ==
    ASSUME TypeOK, Stages, Threads
    PROVE  /\ \A d \in Tasks : task[d].at \in {"creating", "created"} =>
                 /\ task[d].session \in sessions /\ task[d].session \in Sessions
                 /\ task[d].session # 0
                 /\ threadOf[task[d].session] = NoPlace
                 /\ \A q \in Ids : messages[q].session # task[d].session
                 /\ \A w \in Watchers : opened[w] # task[d].session
                 /\ \A e \in Tasks \ {d} : task[e].at \in {"creating", "created"} =>
                                              task[e].session # task[d].session
           /\ \A p \in Pollers : posting[p].message # 0 =>
                 /\ posting[p].message \in stored /\ posting[p].message \in Ids
                 /\ threadOf[messages[posting[p].message].session] = NoPlace
           /\ threadOf \in [Sessions -> Places \union {NoPlace}] /\ NoPlace \notin Places
           /\ \A r \in Sessions : threadOf[r] # NoPlace => r \in sessions
           /\ \A q \in Ids : messages[q].place # NoPlace =>
                                threadOf[messages[q].session] = messages[q].place
           /\ \A x \in posted : /\ x[1] \in Ids /\ x[2] \in Places
                                /\ threadOf[messages[x[1]].session] = x[2]
<1>1. /\ \A d \in Tasks : task[d].session \in sessions \union {0}
      /\ \A p \in Pollers : posting[p].message \in stored \union {0}
      /\ sessions \subseteq Sessions /\ posted \subseteq stored \X Places
      /\ threadOf \in [Sessions -> Places \union {NoPlace}]
  <2>1. \A d \in Tasks : task[d].session \in sessions \union {0}
    BY DEF TypeOK
  <2>2. \A p \in Pollers : posting[p].message \in stored \union {0}
    BY DEF TypeOK
  <2>3. QED
    BY <2>1, <2>2 DEF TypeOK, BusTypeOK
<1>2. stored \subseteq Ids /\ NoPlace \notin Places
  BY StoredAre, WhoCreates
<1>3. \A d \in Tasks : task[d].at \in {"creating", "created"} => task[d].session # 0
  BY DEF Stages
<1>4. QED
  BY <1>1, <1>2, <1>3 DEF Threads

\* Something is written in one session, or posted in its thread, and nobody
\* is about to give that session a thread.
LEMMA Written ==
    ASSUME TypeOK, Stages, Threads, [Next]_vars,
           NEW s \in Sessions, NEW p, s \in sessions',
           \A q \in Ids' \ Ids : messages'[q].session = s /\ messages'[q].place = p,
           \A r \in Sessions \ {s} : threadOf'[r] = threadOf[r],
           threadOf'[s] = threadOf[s] \/ threadOf[s] = NoPlace,
           p # NoPlace => threadOf'[s] = p,
           \A x \in posted' \ posted : x[1] \in Ids /\ threadOf'[messages[x[1]].session] = x[2],
           \A d \in Tasks : task'[d].at \in {"creating", "created"} =>
                               task'[d] = task[d] /\ task[d].session # s,
           \A w \in Watchers : opened'[w] = opened[w] \/ opened'[w] = 0,
           \A k \in Pollers : posting'[k].message # 0 =>
                 /\ posting'[k] = posting[k]
                 /\ threadOf'[s] = threadOf[s] \/ messages[posting[k].message].session # s
    PROVE  Threads'
<1>1. /\ \A q \in Ids : messages'[q] = messages[q] /\ messages[q].session \in Sessions
      /\ Ids \subseteq Ids' /\ sessions \subseteq sessions'
  BY MessagesStay, TablesGrow, MessageFields
<1>2. \A r \in Sessions : threadOf'[r] # NoPlace => r \in sessions'
  BY <1>1, ThreadFacts
<1>3. ASSUME NEW q \in Ids', messages'[q].place # NoPlace
      PROVE  threadOf'[messages'[q].session] = messages'[q].place
  <2>1. CASE q \in Ids
    <3>1. messages'[q] = messages[q] /\ messages[q].session \in Sessions
          /\ threadOf[messages[q].session] = messages[q].place
      BY <1>1, <1>3, <2>1, ThreadFacts
    <3>2. threadOf[messages[q].session] # NoPlace
      BY <1>3, <3>1
    <3>3. threadOf'[messages[q].session] = threadOf[messages[q].session]
      BY <3>1, <3>2
    <3>4. QED
      BY <3>1, <3>3
  <2>2. CASE q \notin Ids
    BY <1>3, <2>2
  <2>3. QED
    BY <2>1, <2>2
<1>4. ASSUME NEW x \in posted'
      PROVE  threadOf'[messages'[x[1]].session] = x[2]
  <2>1. CASE x \in posted
    <3>1. /\ x[1] \in Ids /\ x[2] # NoPlace
          /\ threadOf[messages[x[1]].session] = x[2]
      BY <2>1, ThreadFacts
    <3>2. messages'[x[1]] = messages[x[1]] /\ messages[x[1]].session \in Sessions
          /\ threadOf[messages[x[1]].session] # NoPlace
      BY <1>1, <3>1
    <3>3. QED
      BY <3>1, <3>2
  <2>2. CASE x \notin posted
    <3>1. x[1] \in Ids /\ threadOf'[messages[x[1]].session] = x[2]
      BY <2>2
    <3>2. messages'[x[1]] = messages[x[1]]
      BY <1>1, <3>1
    <3>3. QED
      BY <3>1, <3>2
  <2>3. QED
    BY <2>1, <2>2
<1>5. ASSUME NEW d \in Tasks, task'[d].at \in {"creating", "created"}
      PROVE  /\ threadOf'[task'[d].session] = NoPlace
             /\ \A q \in Ids' : messages'[q].session # task'[d].session
             /\ \A w \in Watchers : opened'[w] # task'[d].session
             /\ \A e \in Tasks \ {d} : task'[e].at \in {"creating", "created"} =>
                                          task'[e].session # task'[d].session
  <2>1. task'[d] = task[d] /\ task[d].session # s
    BY <1>5
  <2>2. /\ task[d].session \in Sessions /\ task[d].session # 0
        /\ threadOf[task[d].session] = NoPlace
        /\ \A q \in Ids : messages[q].session # task[d].session
        /\ \A w \in Watchers : opened[w] # task[d].session
        /\ \A e \in Tasks \ {d} : task[e].at \in {"creating", "created"} =>
                                     task[e].session # task[d].session
    BY <1>5, <2>1, ThreadFacts
  <2>3. QED
    BY <1>1, <2>1, <2>2
<1>6. ASSUME NEW k \in Pollers, posting'[k].message # 0
      PROVE  threadOf'[messages'[posting'[k].message].session] = NoPlace
  <2>1. PICK m : m = posting[k].message
    OBVIOUS
  <2>2. posting'[k].message = m /\ m \in Ids /\ threadOf[messages[m].session] = NoPlace
    BY <1>6, <2>1, ThreadFacts
  <2>3. messages'[m] = messages[m] /\ messages[m].session \in Sessions
    BY <1>1, <2>2
  <2>4. threadOf'[messages[m].session] = threadOf[messages[m].session]
    BY <1>6, <2>1, <2>3
  <2>5. QED
    BY <2>2, <2>3, <2>4
<1>7. QED
  BY <1>2, <1>3, <1>4, <1>5, <1>6 DEF Threads

\* Calls of Discord end, a thread is awaited, or an expert opens a session;
\* nothing is written.
LEMMA NothingWritten ==
    ASSUME TypeOK, Stages, Threads, [Next]_vars, UNCHANGED <<messages, threadOf, posted>>,
           \A d \in Tasks : task'[d] = task[d] \/ task'[d] = NoTask,
           \A w \in Watchers : opened'[w] = opened[w] \/ opened'[w] = 0 \/ opened'[w] \notin sessions,
           \A k \in Pollers : \/ posting'[k] = posting[k]
                              \/ posting'[k].message # 0 =>
                                    threadOf[messages[posting'[k].message].session] = NoPlace
    PROVE  Threads'
<1>1. sessions \subseteq sessions' /\ Ids' = Ids
  BY TablesGrow DEF Ids
<1>2. \A d \in Tasks : task'[d].at \in {"creating", "created"} => task'[d] = task[d]
  BY DEF NoTask
<1>3. ASSUME NEW d \in Tasks, task'[d].at \in {"creating", "created"}
      PROVE  /\ threadOf[task'[d].session] = NoPlace
             /\ \A q \in Ids : messages[q].session # task'[d].session
             /\ \A w \in Watchers : opened'[w] # task'[d].session
             /\ \A e \in Tasks \ {d} : task'[e].at \in {"creating", "created"} =>
                                          task'[e].session # task'[d].session
  BY <1>2, <1>3, ThreadFacts
<1>4. \A k \in Pollers : posting'[k].message # 0 =>
                            threadOf[messages[posting'[k].message].session] = NoPlace
  BY ThreadFacts
<1>5. /\ \A r \in Sessions : threadOf[r] # NoPlace => r \in sessions'
      /\ \A q \in Ids : messages[q].place # NoPlace =>
                           threadOf[messages[q].session] = messages[q].place
      /\ \A x \in posted : threadOf[messages[x[1]].session] = x[2]
  BY <1>1, ThreadFacts
<1>6. QED
  BY <1>1, <1>3, <1>4, <1>5 DEF Threads

\* What the agents, the experts, the terminal and people in a thread write is of
\* no session that is waiting for its thread.
LEMMA WritesKeep ==
    ASSUME TypeOK, Stages, Threads, [Next]_vars, UNCHANGED botVars, Writes
    PROVE  Threads'
<1>1. /\ UNCHANGED <<task, posting, threadOf, posted>>
      /\ sessions \subseteq sessions' /\ sessions \subseteq Sessions
      /\ opened \in [Watchers -> sessions \union {0}] /\ 0 \notin Sessions
  BY TablesGrow, WhoCreates DEF botVars, TypeOK, BusTypeOK
<1>2. ASSUME NEW s \in sessions, NEW p, Appended(s, p), p # NoPlace => threadOf[s] = p,
             \A d \in Tasks : task[d].at \in {"creating", "created"} => task[d].session # s,
             \A w \in Watchers : opened'[w] = opened[w] \/ opened'[w] = 0
      PROVE  Threads'
  <2>1. \A q \in Ids' \ Ids : messages'[q].session = s /\ messages'[q].place = p
    BY <1>2, SentIsNew
  <2>2. s \in Sessions /\ s \in sessions'
    BY <1>1
  <2>3. QED
    BY <1>1, <1>2, <2>1, <2>2, Written
<1>3. CASE AssistantSends \/ \E e \in Experts : ExpertReplies(e)
  <2>1. PICK m \in Ids : Appended(messages[m].session, NoPlace)
    BY <1>3, AgentsSend
  <2>2. opened' = opened
    BY <1>3 DEF AssistantSends, ExpertReplies, agentVars
  <2>3. PICK s : s = messages[m].session
    OBVIOUS
  <2>4. s \in sessions /\ Appended(s, NoPlace)
        /\ \A d \in Tasks : task[d].at \in {"creating", "created"} => task[d].session # s
    BY <2>1, <2>3, MessageFields, ThreadFacts
  <2>5. QED
    BY <1>2, <2>2, <2>4
<1>4. ASSUME NEW w \in Watchers, ExpertOpens(w)
      PROVE  Threads'
  <2>1. UNCHANGED messages /\ w \in Creators
    BY <1>4, WhoCreates DEF ExpertOpens, sendVars
  <2>2. opened' = opened \/ (opened' = [opened EXCEPT ![w] = counted[w]] /\ counted[w] \notin sessions)
    BY <1>4, <2>1, Inserted DEF ExpertOpens
  <2>3. \A v \in Watchers : opened'[v] = opened[v] \/ opened'[v] \notin sessions
    BY <1>1, <2>2
  <2>4. QED
    BY <1>1, <2>1, <2>3, NothingWritten
<1>5. ASSUME NEW w \in Watchers, ExpertNotifies(w)
      PROVE  Threads'
  <2>1. PICK s : s = opened[w]
    OBVIOUS
  <2>2. /\ s \in sessions /\ Appended(s, NoPlace)
        /\ \A d \in Tasks : task[d].at \in {"creating", "created"} => task[d].session # s
    BY <1>5, <2>1, OthersSend, ThreadFacts
  <2>3. opened' = [opened EXCEPT ![w] = 0]
    BY <1>5 DEF ExpertNotifies
  <2>4. \A v \in Watchers : opened'[v] = opened[v] \/ opened'[v] = 0
    BY <1>1, <2>3
  <2>5. QED
    BY <1>2, <2>2, <2>4
<1>6. CASE ReplWrites
  <2>1. PICK s : s = active
    OBVIOUS
  <2>2. s \in sessions /\ Appended(s, NoPlace) /\ frontend = "repl" /\ opened' = opened
    BY <1>6, <2>1, OthersSend DEF ReplWrites, agentVars
  <2>3. \A d \in Tasks : task[d].at = "free"
    BY <2>2 DEF Stages
  <2>4. QED
    BY <1>2, <2>2, <2>3
<1>7. ASSUME NEW d \in Tasks, BotContinues(d)
      PROVE  Threads'
  <2>1. PICK s \in sessions : threadOf[s] \in Places /\ Appended(s, threadOf[s])
    BY <1>7, TasksSend
  <2>2. \A e \in Tasks : task[e].at \in {"creating", "created"} => task[e].session # s
    BY <2>1, ThreadFacts
  <2>3. opened' = opened
    BY <1>7 DEF BotContinues, agentVars
  <2>4. QED
    BY <1>2, <2>1, <2>2, <2>3
<1>8. QED
  BY <1>3, <1>4, <1>5, <1>6, <1>7 DEF Writes

\* A step keeps each session mapped to the thread its messages belong to, if
\* one poll loop posts the answers.
LEMMA ThreadsKept ==
    ASSUME TypeOK, Stages, Threads, [Next]_vars, \A p, q \in Pollers : p = q
    PROVE  Threads'
<1>1. /\ sessions \subseteq sessions' /\ sessions \subseteq Sessions /\ Ids \subseteq Ids'
      /\ threadOf \in [Sessions -> Places \union {NoPlace}] /\ live \subseteq Places
      /\ NoPlace \notin Places /\ NoTask.at = "free" /\ NoPost.message = 0
      /\ task \in [Tasks -> Calls(sessions)]
      /\ posting \in [Pollers -> [message : stored \union {0}, place : Places \union {NoPlace}]]
      /\ Tasks \subseteq Creators
  BY TablesGrow, MessagesStay, WhoCreates DEF TypeOK, BusTypeOK, NoTask, NoPost, Calls
<1>2. CASE UNCHANGED botVars /\ (UNCHANGED <<messages, opened>> \/ Writes)
  <2>1. CASE UNCHANGED <<messages, opened>>
    BY <1>2, <2>1, NothingWritten DEF botVars
  <2>2. QED
    BY <1>2, <2>1, WritesKeep
<1>3. ASSUME NEW d \in Tasks,
             BotAsked(d) \/ BotOpens(d) \/ ThreadAppears(d) \/ BotAskedInThread(d)
      PROVE  Threads'
  <2>1. PICK v : Advances(d, v)
    BY <1>3, TaskAdvances
  <2>2. /\ task'[d] = v /\ \A e \in Tasks \ {d} : task'[e] = task[e]
        /\ UNCHANGED <<messages, opened, posting, threadOf, posted>> /\ Ids' = Ids
    BY <1>1, <2>1 DEF Advances, Ids
  <2>3. ASSUME v.at \in {"creating", "created"}
        PROVE  /\ threadOf[v.session] = NoPlace
               /\ \A q \in Ids : messages[q].session # v.session
               /\ \A w \in Watchers : opened[w] # v.session
               /\ \A e \in Tasks \ {d} : task[e].at \in {"creating", "created"} =>
                                            task[e].session # v.session
    <3>1. CASE v.at = "creating"
      <4>1. v.session = counted[d] /\ InsertSession(d)
        BY <2>1, <3>1 DEF Advances
      <4>2. v.session \notin sessions /\ v.session \in Sessions /\ v.session # 0
        BY <1>1, <4>1, Inserted
      <4>3. threadOf[v.session] = NoPlace
        BY <4>2, ThreadFacts
      <4>4. \A q \in Ids : messages[q].session # v.session
        BY <4>2, MessageFields
      <4>5. \A w \in Watchers : opened[w] # v.session
        BY <4>2 DEF TypeOK
      <4>6. QED
        BY <4>2, <4>3, <4>4, <4>5, ThreadFacts
    <3>2. CASE v.at = "created"
      <4>1. task[d].at = "creating" /\ v.session = task[d].session
        BY <2>1, <3>2 DEF Advances
      <4>2. QED
        BY <4>1, ThreadFacts
    <3>3. QED
      BY <2>3, <3>1, <3>2
  <2>4. ASSUME NEW e \in Tasks, task'[e].at \in {"creating", "created"}
        PROVE  /\ threadOf[task'[e].session] = NoPlace
               /\ \A q \in Ids : messages[q].session # task'[e].session
               /\ \A w \in Watchers : opened[w] # task'[e].session
               /\ \A f \in Tasks \ {e} : task'[f].at \in {"creating", "created"} =>
                                            task'[f].session # task'[e].session
    <3>1. CASE e = d
      BY <2>2, <2>3, <2>4, <3>1
    <3>2. CASE e # d
      <4>1. task'[e] = task[e]
        BY <2>2, <3>2
      <4>2. \A f \in Tasks \ {e} : task[f].at \in {"creating", "created"} =>
                                      task[f].session # task[e].session
        BY <2>4, <4>1, ThreadFacts
      <4>3. v.at \in {"creating", "created"} => v.session # task[e].session
        BY <2>3, <2>4, <3>2, <4>1
      <4>4. QED
        BY <2>2, <2>4, <4>1, <4>2, <4>3, ThreadFacts
    <3>3. QED
      BY <3>1, <3>2
  <2>5. /\ \A s \in Sessions : threadOf[s] # NoPlace => s \in sessions'
        /\ \A q \in Ids : messages[q].place # NoPlace =>
                             threadOf[messages[q].session] = messages[q].place
        /\ \A x \in posted : threadOf[messages[x[1]].session] = x[2]
        /\ \A p \in Pollers : posting[p].message # 0 =>
                                 threadOf[messages[posting[p].message].session] = NoPlace
    BY <1>1, ThreadFacts
  <2>6. QED
    BY <2>2, <2>4, <2>5 DEF Threads
<1>4. ASSUME NEW d \in Tasks, BotSends(d) \/ BotAdopts(d)
      PROVE  Threads'
  <2>1. PICK p : p = task[d].place
    OBVIOUS
  <2>2. PICK s : /\ SaveThreadMapping(s, p) /\ Appended(s, p)
                 /\ \/ BotSends(d) /\ s = task[d].session
                    \/ BotAdopts(d) /\ s = counted[d]
    BY <1>4, <2>1, TasksSend DEF BotSends, BotAdopts
  <2>3. /\ task' = [task EXCEPT ![d] = NoTask] /\ UNCHANGED <<posted, posting, opened>>
        /\ threadOf' = [threadOf EXCEPT ![s] = p]
    BY <1>4, <2>2 DEF BotSends, BotAdopts, SaveThreadMapping, agentVars
  <2>4. /\ s \in sessions' /\ s \in Sessions /\ threadOf[s] = NoPlace
        /\ \A q \in Ids : messages[q].session # s
        /\ \A e \in Tasks \ {d} : task[e].at \in {"creating", "created"} => task[e].session # s
    <3>1. CASE BotSends(d) /\ s = task[d].session
      <4>1. task[d].at = "created"
        BY <3>1 DEF BotSends
      <4>2. QED
        BY <1>1, <3>1, <4>1, ThreadFacts
    <3>2. CASE BotAdopts(d) /\ s = counted[d]
      <4>1. s \notin sessions /\ s \in sessions' /\ s \in Sessions
        BY <1>1, <3>2, Inserted DEF BotAdopts
      <4>2. QED
        BY <4>1, ThreadFacts, MessageFields
    <3>3. QED
      BY <2>2, <3>1, <3>2
  <2>5. /\ threadOf'[s] = p /\ \A r \in Sessions \ {s} : threadOf'[r] = threadOf[r]
        /\ \A e \in Tasks : task'[e].at \in {"creating", "created"} => e # d /\ task'[e] = task[e]
    BY <1>1, <2>3, <2>4
  <2>6. \A q \in Ids' \ Ids : messages'[q].session = s /\ messages'[q].place = p
    BY <2>2, SentIsNew
  <2>7. \A k \in Pollers : posting'[k].message # 0 =>
           posting'[k] = posting[k] /\ messages[posting[k].message].session # s
    BY <2>3, <2>4, ThreadFacts
  <2>8. QED
    BY <2>3, <2>4, <2>5, <2>6, <2>7, Written
<1>5. ASSUME NEW d \in Tasks, BotGivesUp(d)
      PROVE  Threads'
  <2>1. /\ UNCHANGED <<messages, opened, posting, threadOf, posted>>
        /\ task' = [task EXCEPT ![d] = NoTask]
    BY <1>5 DEF BotGivesUp, sendVars, agentVars
  <2>2. \A e \in Tasks : task'[e] = task[e] \/ task'[e] = NoTask
    BY <1>1, <2>1
  <2>3. QED
    BY <2>1, <2>2, NothingWritten
<1>6. ASSUME NEW p \in Pollers, BotPosts(p)
      PROVE  Threads'
  <2>1. PICK m \in Ids : /\ threadOf[messages[m].session] # NoPlace
                         /\ posted' = posted \union {<<m, threadOf[messages[m].session]>>}
    BY <1>6 DEF BotPosts
  <2>2. PICK s : s = messages[m].session
    OBVIOUS
  <2>3. s \in sessions' /\ s \in Sessions
    BY <1>1, <2>2, MessageFields
  <2>4. UNCHANGED <<messages, task, posting, threadOf, opened>> /\ Ids' = Ids
    BY <1>6 DEF BotPosts, Ids, sendVars, agentVars
  <2>5. \A x \in posted' \ posted : x[1] \in Ids /\ threadOf'[messages[x[1]].session] = x[2]
    BY <2>1, <2>4
  <2>6. \A e \in Tasks : task[e].at \in {"creating", "created"} => task[e].session # s
    BY <2>2, ThreadFacts
  <2>7. \A q \in Ids' \ Ids : messages'[q].session = s /\ messages'[q].place = NoPlace
    BY <2>4
  <2>8. QED
    BY <2>3, <2>4, <2>5, <2>6, <2>7, Written
<1>7. ASSUME NEW p \in Pollers, BotMakesThread(p) \/ BotPostRaises(p)
      PROVE  Threads'
  <2>1. UNCHANGED <<messages, opened, task, threadOf, posted>>
    BY <1>7 DEF BotMakesThread, BotPostRaises, sendVars, agentVars
  <2>2. \A k \in Pollers : \/ posting'[k] = posting[k]
                           \/ posting'[k].message # 0 =>
                                 threadOf[messages[posting'[k].message].session] = NoPlace
    <3>1. CASE BotMakesThread(p)
      <4>1. PICK m \in Ids, t \in NewPlaces :
                 /\ threadOf[messages[m].session] = NoPlace
                 /\ posting' = [posting EXCEPT ![p] = [message |-> m, place |-> t]]
        BY <3>1 DEF BotMakesThread
      <4>2. posting'[p].message = m /\ \A k \in Pollers \ {p} : posting'[k] = posting[k]
        BY <1>1, <4>1
      <4>3. QED
        BY <4>1, <4>2
    <3>2. CASE BotPostRaises(p)
      <4>1. posting'[p] = NoPost /\ \A k \in Pollers \ {p} : posting'[k] = posting[k]
        BY <1>1, <3>2 DEF BotPostRaises
      <4>2. QED
        BY <1>1, <4>1
    <3>3. QED
      BY <1>7, <3>1, <3>2
  <2>3. QED
    BY <2>1, <2>2, NothingWritten
<1>8. ASSUME NEW p \in Pollers, BotPostsInNew(p)
      PROVE  Threads'
  <2>1. PICK m, t, s : m = posting[p].message /\ t = posting[p].place /\ s = messages[m].session
    OBVIOUS
  <2>2. m \in Ids /\ threadOf[s] = NoPlace
    <3>1. m # 0
      BY <1>8, <2>1 DEF BotPostsInNew, Stages
    <3>2. QED
      BY <2>1, <3>1, ThreadFacts
  <2>3. s \in sessions' /\ s \in Sessions
    BY <1>1, <2>1, <2>2, MessageFields
  <2>4. /\ posted' = posted \union {<<m, t>>} /\ threadOf' = [threadOf EXCEPT ![s] = t]
        /\ UNCHANGED <<messages, task, opened>> /\ Ids' = Ids
        /\ posting' = [posting EXCEPT ![p] = NoPost]
    BY <1>8, <2>1 DEF BotPostsInNew, SaveThreadMapping, Ids, sendVars, agentVars
  <2>5. threadOf'[s] = t /\ \A r \in Sessions \ {s} : threadOf'[r] = threadOf[r]
    BY <1>1, <2>3, <2>4
  <2>6. \A x \in posted' \ posted : x[1] \in Ids /\ threadOf'[messages[x[1]].session] = x[2]
    BY <2>1, <2>2, <2>4, <2>5
  <2>7. \A e \in Tasks : task[e].at \in {"creating", "created"} => task[e].session # s
    BY <2>1, <2>2, ThreadFacts
  <2>8. \A k \in Pollers : posting'[k].message = 0
    <3>1. \A k \in Pollers : k = p
      OBVIOUS
    <3>2. QED
      BY <1>1, <2>4, <3>1
  <2>9. \A q \in Ids' \ Ids : messages'[q].session = s /\ messages'[q].place = NoPlace
    BY <2>4
  <2>10. QED
    BY <2>2, <2>3, <2>4, <2>5, <2>6, <2>7, <2>8, <2>9, Written
<1>9. CASE Restart
  <2>1. /\ UNCHANGED <<messages, threadOf, posted>> /\ \A d \in Tasks : task'[d] = NoTask
        /\ \A w \in Watchers : opened'[w] = 0
    BY <1>9 DEF Restart, BatchesVanish
  <2>2. \A k \in Pollers : posting'[k].message = 0
    BY <1>1, <1>9 DEF Restart
  <2>3. QED
    BY <2>1, <2>2, NothingWritten
<1>10. QED
  BY <1>2, <1>3, <1>4, <1>5, <1>6, <1>7, <1>8, <1>9, BotStep DEF Posts

-----------------------------------------------------------------------------
(* The theorems. *)

\* What is said of the batches holds along every behaviour.
LEMMA BatchesHold == Spec => []Batches
<1>1. Init => Batches
  <2>1. Init => \A a \in Readers : DOMAIN pending[a] = {}
    BY DEF Init, BusInit
  <2>2. QED
    BY <2>1 DEF Init, BusInit, Batches
<1>2. (TypeOK /\ Stages) /\ Batches /\ [Next]_vars => Batches'
  BY BatchesKept
<1>3. QED
  BY <1>1, <1>2, TypesHold, PTL DEF Spec

\* Whatever crashes between the marks, and however often an interrupted poll is
\* repeated, no message is given to two readers, or twice to one, unless both
\* are poll loops of the human.
THEOREM GivenOnce == Spec => TakenOnce
<1> DEFINE Apart ==
      \A a \in Readers :
          pending'[a] # pending[a] /\ pending[a] # << >> /\ polling[a] = "ready" =>
              \A b \in Readers : <<b, Head(pending[a])>> \in taken =>
                  a # b /\ {a, b} \subseteq Pollers
<1>1. TypeOK /\ Batches => Apart
  <2> SUFFICES ASSUME TypeOK, Batches, NEW a \in Readers, pending[a] # << >>,
                      NEW b \in Readers, <<b, Head(pending[a])>> \in taken
               PROVE  BothPoll(a, b)
    BY DEF BothPoll
  <2>1. pending[a] \in Seq(stored)
    BY DEF TypeOK, BusTypeOK
  <2>2. Head(pending[a]) = pending[a][1] /\ 1 \in DOMAIN pending[a]
    BY <2>1
  <2>3. QED
    BY <2>2 DEF Batches
<1>2. QED
  BY <1>1, TypesHold, BatchesHold, PTL DEF TakenOnce

\* A message that is marked read is taken up or waits in a batch, unless an
\* error or a crash dropped it, which is recorded: none goes missing in the
\* ordinary course.
THEOREM NoneMissing == Spec => []ReadIsAccountedFor
<1>1. Init => ReadIsAccountedFor
  BY DEF Init, BusInit, ReadIsAccountedFor
<1>2. (TypeOK /\ Stages) /\ ReadIsAccountedFor /\ [Next]_vars => ReadIsAccountedFor'
  BY AccountedKept
<1>3. QED
  BY <1>1, <1>2, TypesHold, PTL DEF Spec

\* The prompt of every run of an agent holds the older messages of the session,
\* in order and before the newer ones, and ends with the message it handles,
\* whoever writes in the session while the prompt is put together or used; only
\* a message committed after a newer one may be missing.
THEOREM HistoryKept == Spec => []PromptKeepsHistory
<1>1. Init => PromptKeepsHistory
  BY WhoCreates DEF Init, BusInit, PromptKeepsHistory
<1>2. (TypeOK /\ Stages) /\ PromptKeepsHistory /\ [Next]_vars => PromptKeepsHistory'
  BY PromptsKept
<1>3. QED
  BY <1>1, <1>2, TypesHold, PTL DEF Spec

\* As long as one poll loop posts them, answers are posted in the thread the
\* question was asked in, with any number of questions at a time: a session gets
\* one thread, before anybody can write in it, and keeps it.
THEOREM AnsweredWhereAsked ==
    ASSUME \A p, q \in Pollers : p = q
    PROVE  Spec => []PostedWhereAsked
<1>1. Init => Threads
  BY DEF Init, BusInit, Threads, Ids, NoTask, NoPost
<1>2. (TypeOK /\ Stages) /\ Threads /\ [Next]_vars => Threads'
  BY ThreadsKept
<1>3. (TypeOK /\ Stages) /\ Threads => PostedWhereAsked
  <2> SUFFICES ASSUME TypeOK, Threads, NEW p \in posted, NEW q \in stored,
                      messages[q].session = messages[p[1]].session, messages[q].place # NoPlace
               PROVE  messages[q].place = p[2]
    BY DEF PostedWhereAsked
  <2>1. threadOf[messages[p[1]].session] = p[2]
    BY DEF Threads
  <2>2. threadOf[messages[q].session] = messages[q].place
    BY StoredAre DEF Threads
  <2>3. QED
    BY <2>1, <2>2
<1>4. QED
  BY <1>1, <1>2, <1>3, TypesHold, PTL DEF Spec
=============================================================================
