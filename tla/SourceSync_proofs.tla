-------------------------- MODULE SourceSync_proofs -------------------------
(***************************************************************************)
(* Theorems about SourceSync, for any items, page size and resolution of   *)
(* the source's clock.                                                     *)
(***************************************************************************)
EXTENDS SourceSync, TLAPS

-----------------------------------------------------------------------------
(* The invariants. *)

\* No two items change at one time.
Clock ==
    /\ synced <= Stamp(now) /\ started <= now
    /\ \A i \in Items : updated[i] <= now
    /\ \A i, j \in Items : updated[i] = updated[j] /\ i # j => updated[i] = 0

\* What a cycle starts from, and how far the handling of an item is.
Stages ==
    /\ at \in {"listing", "issues"} => pending = {}
    /\ at = "issues" => source = "github"
    /\ at = "loading" => source = "github" /\ synced = Never
    /\ at = "history" => source = "linear" /\ item \subseteq saved

\* What Linear's pages have not shown yet is older than what they have, or
\* has changed since the cycle began.
PagesInOrder ==
    source = "linear" /\ at = "listing" =>
        \A i \in DoneSince(synced) \ listed :
            updated[i] > started \/ \A j \in listed : updated[i] < updated[j]

\* Of the pull requests a cycle asks for, those that its page neither lists
\* nor leaves out have changed since the cycle began.
PullsCover ==
    at = "issues" =>
        \A i \in PullRequests \intersect Listable(synced) :
            updated[i] > started \/ i \in listed \union saved \union lost

\* The first load of GitHub covers what is open, but for what changes
\* meanwhile.
LoadCovers ==
    at = "loading" =>
        \A i \in Open : updated[i] > started \/ i \in saved \union pending \union lost

Holds == TypeOK /\ Clock /\ Stages /\ PagesInOrder /\ PullsCover /\ LoadCovers

\* Linear's ingester asks for what is later than its start, and what it has
\* in its hands is.
HandsAreRecent ==
    source = "linear" =>
        /\ from <= synced /\ from <= now
        /\ at = "listing" => from <= started
        /\ \A i \in listed \union pending \union item : updated[i] > from

-----------------------------------------------------------------------------
(* Facts about the operators. *)

\* Pages are made of what they are pages of.
LEMMA PagesWithin ==
    ASSUME NEW S, NEW T \in NewestPages(S)
    PROVE  T \in Pages(S) /\ T \subseteq S /\ \A i \in T, j \in S \ T : updated[i] >= updated[j]
BY DEF NewestPages, Pages

\* The source counts in seconds, and the later of two times is not in an
\* earlier second.
LEMMA SecondsInOrder ==
    ASSUME NEW s \in Nat, NEW t \in Nat, s <= t
    PROVE  SecondOf(s) <= SecondOf(t)
<1>1. Ticks \in Nat \ {0}
  BY SyncAssumption
<1>2. s \div Ticks \in Nat /\ t \div Ticks \in Nat
  BY <1>1
<1>3. /\ s = Ticks * (s \div Ticks) + (s % Ticks) /\ 0 <= s % Ticks /\ s % Ticks < Ticks
      /\ t = Ticks * (t \div Ticks) + (t % Ticks) /\ 0 <= t % Ticks /\ t % Ticks < Ticks
      /\ s % Ticks \in Nat /\ t % Ticks \in Nat
  BY <1>1
<1> DEFINE a == s \div Ticks
           b == t \div Ticks
<1>4. ASSUME b < a
      PROVE  FALSE
  <2> HIDE DEF a, b
  <2>1. a \in Nat /\ b \in Nat /\ b + 1 <= a
    BY <1>2, <1>4 DEF a, b
  <2>2. Ticks * (b + 1) <= Ticks * a
    BY <1>1, <2>1
  <2>3. Ticks * (b + 1) = Ticks * b + Ticks
    BY <1>1, <2>1
  <2>4. Ticks * a \in Nat /\ Ticks * b \in Nat
    BY <1>1, <2>1
  <2>5. t < s
    BY <1>1, <1>3, <2>2, <2>3, <2>4 DEF a, b
  <2>6. QED
    BY <2>5
<1>5. QED
  BY <1>2, <1>4 DEF SecondOf

\* What the ingester asks for exists at the source.
LEMMA ListedAreItems ==
    /\ Exists \subseteq Items /\ Open \subseteq Items
    /\ \A t : DoneSince(t) \subseteq Items /\ UpdatedSince(t) \subseteq Items
              /\ Listable(t) \subseteq Items
<1>1. Exists \subseteq Items /\ Open \subseteq Items
  BY DEF Exists, Open
<1>2. \A t : DoneSince(t) \subseteq Items /\ UpdatedSince(t) \subseteq Items
  BY <1>1 DEF DoneSince, UpdatedSince
<1>3. ASSUME NEW t
      PROVE  Listable(t) \subseteq Items
  <2>1. CASE source = "linear"
    BY <1>2, <2>1 DEF Listable
  <2>2. CASE source # "linear" /\ source = "github" /\ t # Never
    BY <1>2, <2>2 DEF Listable
  <2>3. CASE source # "linear" /\ ~(source = "github" /\ t # Never)
    BY <1>1, <2>3 DEF Listable
  <2>4. QED
    BY <2>1, <2>2, <2>3
<1>4. QED
  BY <1>1, <1>2, <1>3

\* The pages of Linear: what is listed afterwards, and that the last one
\* leaves nothing out that is not newer than the cycle.
LEMMA LinearLists ==
    ASSUME Holds, LinearPage
    PROVE  \E page \in SUBSET DoneSince(synced) :
              \/ /\ Listed(listed \union page)
                 /\ \A i \in DoneSince(synced) : i \in listed \union page \/ updated[i] > started
              \/ /\ listed' = listed \union page /\ UNCHANGED <<pending, synced, started, at>>
                 /\ \A i \in DoneSince(synced) \ (listed \union page) :
                       updated[i] > started \/ \A j \in listed \union page : updated[i] < updated[j]
<1> DEFINE rest == {i \in DoneSince(synced) : \A j \in listed : updated[i] < updated[j]} \ listed
<1>1. PICK page \in NewestPages(rest) :
         IF page = rest
         THEN Listed(listed \union page)
         ELSE listed' = listed \union page /\ UNCHANGED <<pending, synced, started, at>>
  BY DEF LinearPage
<1>2. /\ page \subseteq rest /\ rest \subseteq DoneSince(synced)
      /\ \A i \in page, j \in rest \ page : updated[i] >= updated[j]
  BY <1>1, PagesWithin
<1>3. \A i \in DoneSince(synced) : i \in listed \/ i \in rest \/ updated[i] > started
  BY DEF Holds, PagesInOrder, LinearPage
<1>4. CASE page = rest
  BY <1>1, <1>2, <1>3, <1>4
<1>5. CASE page # rest
  <2>1. ASSUME NEW i \in DoneSince(synced) \ (listed \union page), ~(updated[i] > started),
               NEW j \in listed \union page
        PROVE  updated[i] < updated[j]
    <3>1. i \in rest
      BY <1>3, <2>1
    <3>2. CASE j \in listed
      BY <3>1, <3>2
    <3>3. CASE j \in page
      <4>1. updated[j] >= updated[i] /\ i # j
        BY <1>2, <2>1, <3>1, <3>3
      <4>2. i \in Items /\ j \in Items /\ updated[i] > synced
        BY <1>2, <2>1, <3>3 DEF DoneSince
      <4>3. synced \in Nat /\ updated[i] \in Nat /\ updated[j] \in Nat
        <5>1. synced \in Stamps
          BY DEF Holds, TypeOK, LinearPage
        <5>2. updated[i] \in Times /\ updated[j] \in Times
          BY <4>2 DEF Holds, TypeOK
        <5>3. QED
          BY <5>1, <5>2, SyncAssumption DEF Times, Stamps
      <4>4. updated[i] # updated[j]
        BY <4>1, <4>2, <4>3 DEF Holds, Clock
      <4>5. QED
        BY <4>1, <4>3, <4>4
    <3>4. QED
      BY <2>1, <3>2, <3>3
  <2>2. QED
    BY <1>1, <1>2, <1>5, <2>1
<1>6. QED
  BY <1>4, <1>5

-----------------------------------------------------------------------------
(* The types. *)

\* What happens in the source keeps the types.
LEMMA HappensKeepsTypes ==
    ASSUME TypeOK, NEW i \in Items, NEW s \in {"open", "closed"}, Happens(i, s)
    PROVE  TypeOK'
<1>1. now + 1 \in Times /\ now \in Times
  BY SyncAssumption DEF TypeOK, Happens, Times
<1>2. now' \in Times /\ state' \in [Items -> {"none", "open", "closed"}]
  BY <1>1 DEF TypeOK, Happens
<1>3. updated' \in [Items -> Times] /\ history' \in [Items -> SUBSET Times]
  <2>1. updated' \in [Items -> Times]
    BY <1>1 DEF TypeOK, Happens
  <2>2. PICK h : h = history[i] \union {now + 1}
    OBVIOUS
  <2>3. h \in SUBSET Times
    BY <1>1, <2>2 DEF TypeOK
  <2>4. history' = history \/ history' = [history EXCEPT ![i] = h]
    BY <2>2 DEF TypeOK, Happens
  <2>5. QED
    BY <2>1, <2>3, <2>4 DEF TypeOK
<1>4. lost' \subseteq Items
  BY DEF TypeOK, Happens
<1>5. UNCHANGED <<source, saved, changes, at, synced, started, listed, pending, from, item,
                  faults>>
  BY DEF Happens, tableVars, cycleVars
<1>6. QED
  BY <1>2, <1>3, <1>4, <1>5 DEF TypeOK

\* The changes of an issue that are new.
LEMMA RecentChanges ==
    ASSUME TypeOK
    PROVE  /\ RecentHistory \subseteq item \X Times
           /\ \A c \in RecentHistory : c[2] > synced
<1>1. \A i \in item : history[i] \in SUBSET Times
  BY DEF TypeOK
<1>2. QED
  BY <1>1 DEF RecentHistory

\* A stamp is later than any time is long ago.
LEMMA StampType ==
    ASSUME NEW t \in Times
    PROVE  Stamp(t) \in Stamps /\ Stamp(t) # Never /\ Stamp(t) \in Nat /\ t \in Nat /\ t <= Stamp(t)
BY SyncAssumption DEF Times, Stamps, Stamp, Never

\* A step keeps the types.
LEMMA TypesKept ==
    ASSUME Holds, [Next]_vars
    PROVE  TypeOK'
<1>1. TypeOK /\ Stages
  BY DEF Holds
<1> USE <1>1 DEF TypeOK, remoteVars, tableVars, cycleVars
<1>2. ASSUME NEW i \in Items, NEW s \in {"open", "closed"}, Happens(i, s)
      PROVE  TypeOK'
  BY <1>2, HappensKeepsTypes
<1>3. ASSUME NEW i \in Items, Take(i)
      PROVE  TypeOK'
  BY <1>3 DEF Take
<1>4. ASSUME NEW i \in Items, GithubLoad(i)
      PROVE  TypeOK'
  BY <1>4 DEF GithubLoad
<1>5. CASE StartCycle
  BY <1>5 DEF StartCycle
<1>6. CASE LinearPage
  <2>1. PICK page \in SUBSET DoneSince(synced) :
              \/ Listed(listed \union page)
              \/ listed' = listed \union page /\ UNCHANGED <<pending, synced, started, at>>
    BY <1>6, LinearLists
  <2>2. page \subseteq Items
    BY ListedAreItems
  <2>3. 0 \in Times
    BY SyncAssumption DEF Times
  <2>4. item' = item /\ item = {}
    BY <1>6 DEF LinearPage
  <2>5. CASE Listed(listed \union page)
    BY <1>6, <2>2, <2>3, <2>4, <2>5, StampType DEF LinearPage, Listed
  <2>6. CASE listed' = listed \union page /\ UNCHANGED <<pending, synced, started, at>>
    BY <1>6, <2>2, <2>4, <2>6 DEF LinearPage
  <2>7. QED
    BY <2>1, <2>5, <2>6
<1>7. CASE GithubPulls
  <2>1. listed' \subseteq Items
    <3>1. CASE synced = Never
      BY <1>7, <3>1, SyncAssumption DEF GithubPulls, Pages
    <3>2. CASE synced # Never
      BY <1>7, <3>2, ListedAreItems DEF GithubPulls
    <3>3. QED
      BY <3>1, <3>2
  <2>2. lost' \subseteq Items
    BY <1>7, SyncAssumption DEF GithubPulls, LeftOut
  <2>3. QED
    BY <1>7, <2>1, <2>2 DEF GithubPulls
<1>8. CASE GithubIssues
  <2>1. PICK page, all :
          /\ page \in Pages(Listable(synced))
          /\ all = listed \union (page \ PullRequests)
          /\ lost' = (lost \union (Listable(synced) \ PullRequests)) \ (all \union saved)
          /\ IF synced = Never
             THEN /\ pending' = all /\ listed' = {} /\ at' = "loading"
                  /\ UNCHANGED <<synced, started>>
             ELSE Listed(all)
    BY <1>8 DEF GithubIssues, LeftOut
  <2>2. Listable(synced) \subseteq Items /\ page \subseteq Items /\ all \subseteq Items
    BY <2>1, ListedAreItems DEF Pages
  <2>3. 0 \in Times
    BY SyncAssumption DEF Times
  <2>4. pending' \subseteq Items /\ listed' = {} /\ lost' \subseteq Items
        /\ started' \in Times /\ at' \in {"idle", "loading"}
        /\ synced' \in {synced, Stamp(started)}
        /\ source = "github" /\ item = {}
    BY <1>8, <2>1, <2>2, <2>3 DEF Listed, GithubIssues
  <2>5. QED
    BY <1>8, <2>4, StampType DEF GithubIssues
<1>9. CASE GithubLoaded
  BY <1>9, StampType, SyncAssumption DEF GithubLoaded, Times, Stages
<1>10. CASE GmailFetch
  <2>1. pending' \subseteq Items /\ 0 \in Times
    BY <1>10, ListedAreItems, PagesWithin, SyncAssumption DEF GmailFetch, Times
  <2>2. QED
    BY <1>10, <2>1 DEF GmailFetch
<1>11. CASE NextFails
  BY <1>11, SyncAssumption DEF NextFails, Fault, Times
<1>12. CASE LinearSave
  BY <1>12 DEF LinearSave
<1>13. CASE GithubSave \/ GmailSave
  BY <1>13 DEF GithubSave, GmailSave
<1>14. CASE SaveFails
  <2>1. lost' \subseteq Items
    BY <1>14 DEF SaveFails
  <2>2. QED
    BY <1>14, <2>1, SyncAssumption DEF SaveFails, Fault
<1>15. CASE SaveHistory \/ HistoryFails
  <2>1. PICK S \in SUBSET RecentHistory : changes' = changes \union S
    BY <1>15 DEF SaveHistory, HistoryFails, SaveChanges
  <2>2. changes' \subseteq saved \X Times
    <3>1. item \subseteq saved
      BY <1>15 DEF SaveHistory, HistoryFails, Stages
    <3>2. S \subseteq saved \X Times
      BY <2>1, <3>1, RecentChanges
    <3>3. QED
      BY <2>1, <3>2
  <2>3. CASE SaveHistory
    BY <2>2, <2>3 DEF SaveHistory
  <2>4. CASE HistoryFails
    BY <2>2, <2>4, SyncAssumption DEF HistoryFails, Fault
  <2>5. QED
    BY <1>15, <2>3, <2>4
<1>16. CASE Restart
  <2>1. synced' \in Stamps \union {Never} /\ (synced' = Never => source # "linear")
    BY <1>16, StampType DEF Restart
  <2>2. faults' \in 0 .. MaxFaults /\ 0 \in Times
    BY <1>16, SyncAssumption DEF Restart, Fault, Times
  <2>3. QED
    BY <1>16, <2>1, <2>2 DEF Restart
<1>17. CASE UNCHANGED vars
  BY <1>17 DEF vars
<1>18. QED
  BY <1>2, <1>3, <1>4, <1>5, <1>6, <1>7, <1>8, <1>9, <1>10, <1>11, <1>12, <1>13, <1>14,
     <1>15, <1>16, <1>17 DEF Next, Ingester

-----------------------------------------------------------------------------
(* The clock, the stages and the lists. *)

\* The source changes in one action only, which leaves the ingester alone.
LEMMA SourceStep ==
    ASSUME [Next]_vars
    PROVE  \/ UNCHANGED <<source, remoteVars>>
           \/ /\ \E i \in Items, s \in {"open", "closed"} : Happens(i, s)
              /\ UNCHANGED <<source, tableVars, at, cycleVars, item>>
<1>1. CASE \E i \in Items, s \in {"open", "closed"} : Happens(i, s)
  BY <1>1 DEF Happens
<1>2. CASE \/ UNCHANGED vars \/ Ingester
           \/ NextFails \/ SaveFails \/ HistoryFails \/ Restart
  BY <1>2 DEF vars, Ingester, Take, GithubLoad, StartCycle, LinearPage, GithubPulls,
     GithubIssues, GithubLoaded, LinearSave, SaveHistory, GithubSave, GmailFetch, GmailSave,
     NextFails, SaveFails, HistoryFails, Restart
<1>3. QED
  BY <1>1, <1>2 DEF Next

\* The cursor and the start of the cycle are times the clock has shown.
LEMMA CursorStep ==
    ASSUME Holds, [Next]_vars
    PROVE  /\ synced' \in {synced, Stamp(started), Stamp(now), Never}
           /\ started' \in {started, 0, now}
<1>1. CASE LinearPage
  BY <1>1, LinearLists DEF Listed
<1>2. CASE GithubIssues
  BY <1>2 DEF GithubIssues, Listed
<1>3. CASE \/ UNCHANGED vars
           \/ \E i \in Items : Take(i) \/ GithubLoad(i)
           \/ StartCycle \/ GithubPulls \/ GithubLoaded
           \/ LinearSave \/ SaveHistory \/ GithubSave \/ GmailFetch \/ GmailSave
           \/ \E i \in Items, s \in {"open", "closed"} : Happens(i, s)
           \/ NextFails \/ SaveFails \/ HistoryFails \/ Restart
  BY <1>3 DEF vars, cycleVars, Take, GithubLoad, StartCycle, GithubPulls, GithubLoaded, LinearSave,
     SaveHistory, GithubSave, GmailFetch, GmailSave, Happens, NextFails, SaveFails,
     HistoryFails, Restart
<1>4. QED
  BY <1>1, <1>2, <1>3 DEF Next, Ingester

\* An item that something happens to is the only one of its time.
LEMMA ClockKept ==
    ASSUME Holds, [Next]_vars
    PROVE  Clock'
<1>1. /\ now \in Nat /\ started \in Nat /\ synced \in Nat \union {Never} /\ Skew \in Nat
      /\ \A i \in Items : updated[i] \in Nat
  BY SyncAssumption DEF Holds, TypeOK, Times, Stamps
<1>2. now' = now \/ now' = now + 1
  BY SourceStep DEF remoteVars, Happens
<1>3. synced' <= Stamp(now)' /\ started' <= now'
  BY <1>1, <1>2, CursorStep DEF Holds, Clock, Never, Stamp
<1>4. CASE UNCHANGED <<source, remoteVars>>
  BY <1>3, <1>4 DEF remoteVars, Holds, Clock
<1>5. ASSUME NEW i \in Items, NEW s \in {"open", "closed"}, Happens(i, s)
      PROVE  Clock'
  <2>1. now' = now + 1
    BY <1>5 DEF Happens
  <2>2. /\ updated'[i] = updated[i] \/ updated'[i] = now + 1
        /\ \A j \in Items \ {i} : updated'[j] = updated[j]
    BY <1>5 DEF Happens, Holds, TypeOK
  <2>3. \A j \in Items : updated'[j] <= now'
    BY <1>1, <2>1, <2>2 DEF Holds, Clock
  <2>4. ASSUME NEW j \in Items, NEW k \in Items, updated'[j] = updated'[k], j # k
        PROVE  updated'[j] = 0
    <3>1. updated[j] <= now /\ updated[k] <= now /\ updated[i] <= now
      BY DEF Holds, Clock
    <3>2. updated[j] = updated[k] => updated[j] = 0
      BY <2>4 DEF Holds, Clock
    <3>3. QED
      BY <1>1, <2>2, <2>4, <3>1, <3>2
  <2>5. QED
    BY <1>3, <2>3, <2>4 DEF Clock
<1>6. QED
  BY <1>4, <1>5, SourceStep

\* A step keeps what is said of the stages of a cycle.
LEMMA StagesKept ==
    ASSUME Holds, [Next]_vars
    PROVE  Stages'
<1>1. Stages /\ TypeOK
  BY DEF Holds
<1>2. CASE LinearPage
  BY <1>1, <1>2, LinearLists DEF LinearPage, Listed, Stages
<1>3. CASE GithubIssues
  BY <1>1, <1>3 DEF GithubIssues, Listed, Stages
<1>4. CASE \/ UNCHANGED vars
           \/ \E i \in Items, s \in {"open", "closed"} : Happens(i, s)
  BY <1>1, <1>4 DEF vars, Happens, tableVars, cycleVars, Stages
<1>5. ASSUME NEW i \in Items, Take(i) \/ GithubLoad(i)
      PROVE  Stages'
  BY <1>1, <1>5 DEF Take, GithubLoad, Stages, tableVars
<1>6. CASE StartCycle \/ GithubPulls \/ GithubLoaded \/ GmailFetch
  BY <1>1, <1>6 DEF StartCycle, GithubPulls, GithubLoaded, GmailFetch, Stages, tableVars
<1>7. CASE LinearSave \/ SaveHistory \/ GithubSave \/ GmailSave
  BY <1>1, <1>7 DEF LinearSave, SaveHistory, GithubSave, GmailSave, Stages, cycleVars
<1>8. CASE NextFails \/ SaveFails \/ HistoryFails \/ Restart
  BY <1>1, <1>8 DEF NextFails, SaveFails, HistoryFails, Restart, Stages
<1>9. QED
  BY <1>2, <1>3, <1>4, <1>5, <1>6, <1>7, <1>8 DEF Next, Ingester

\* What happens at the source meanwhile is newer than the cycle.
LEMMA HappensIsNew ==
    ASSUME Holds, NEW i \in Items, NEW s \in {"open", "closed"}, Happens(i, s)
    PROVE  /\ source # "gmail" => updated'[i] > now /\ updated'[i] > updated[i]
           /\ updated'[i] >= updated[i] /\ updated'[i] \in Nat /\ updated[i] \in Nat
           /\ \A j \in Items \ {i} : updated'[j] = updated[j] /\ state'[j] = state[j]
<1>1. now \in Nat /\ updated[i] \in Nat /\ updated[i] <= now
  BY SyncAssumption DEF Holds, TypeOK, Times, Clock
<1>2. /\ updated' = updated \/ updated' = [updated EXCEPT ![i] = now + 1]
      /\ source # "gmail" => updated' = [updated EXCEPT ![i] = now + 1]
      /\ state' = [state EXCEPT ![i] = s]
  BY DEF Happens
<1>3. QED
  BY <1>1, <1>2 DEF Holds, TypeOK

\* A step keeps the order of Linear's pages.
LEMMA PagesInOrderKept ==
    ASSUME Holds, [Next]_vars
    PROVE  PagesInOrder'
<1>1. CASE LinearPage
  <2>1. CASE at' = "idle"
    BY <2>1 DEF PagesInOrder
  <2>2. CASE at' # "idle"
    <3>1. PICK page \in SUBSET DoneSince(synced) :
             /\ listed' = listed \union page /\ UNCHANGED <<pending, synced, started, at>>
             /\ \A i \in DoneSince(synced) \ (listed \union page) :
                   updated[i] > started \/ \A j \in listed \union page : updated[i] < updated[j]
      BY <1>1, <2>2, LinearLists DEF Listed
    <3>2. UNCHANGED <<state, updated>>
      BY <1>1 DEF LinearPage, remoteVars
    <3>3. DoneSince(synced)' = DoneSince(synced)
      BY <3>1, <3>2 DEF DoneSince
    <3>4. QED
      BY <3>1, <3>2, <3>3 DEF PagesInOrder
  <2>3. QED
    BY <2>1, <2>2
<1>2. CASE StartCycle
  BY <1>2 DEF StartCycle, PagesInOrder
<1>3. ASSUME NEW i \in Items, NEW s \in {"open", "closed"}, Happens(i, s)
      PROVE  PagesInOrder'
  <2> SUFFICES ASSUME source = "linear", at = "listing",
                      NEW k \in Items, state'[k] = "closed", updated'[k] > synced, k \notin listed
               PROVE  updated'[k] > started \/ \A j \in listed : updated'[k] < updated'[j]
    BY <1>3 DEF PagesInOrder, DoneSince, Happens, cycleVars
  <2>1. /\ updated'[i] > now /\ updated'[i] > updated[i]
        /\ updated'[i] \in Nat /\ updated[i] \in Nat
        /\ \A j \in Items \ {i} : updated'[j] = updated[j] /\ state'[j] = state[j]
    BY <1>3, HappensIsNew
  <2>2. started <= now /\ started \in Nat /\ now \in Nat /\ listed \subseteq Items
        /\ \A j \in Items : updated[j] \in Nat
    BY SyncAssumption DEF Holds, Clock, TypeOK, Times
  <2>3. CASE k = i
    BY <2>1, <2>2, <2>3
  <2>4. CASE k # i
    <3>1. k \in DoneSince(synced) \ listed
      BY <2>1, <2>4 DEF DoneSince
    <3>2. updated[k] > started \/ \A j \in listed : updated[k] < updated[j]
      BY <3>1 DEF Holds, PagesInOrder
    <3>3. \A j \in listed : updated[j] <= updated'[j] /\ updated'[j] \in Nat
      BY <2>1, <2>2
    <3>4. QED
      BY <2>1, <2>2, <2>4, <3>2, <3>3
  <2>5. QED
    BY <2>3, <2>4
<1>4. CASE UNCHANGED vars
  <2>1. UNCHANGED <<source, at, synced, started, listed, state, updated>>
    BY <1>4 DEF vars, cycleVars, remoteVars
  <2>2. DoneSince(synced)' = DoneSince(synced)
    BY <2>1 DEF DoneSince
  <2>3. QED
    BY <2>1, <2>2 DEF Holds, PagesInOrder
<1>5. CASE \/ \E i \in Items : Take(i) \/ GithubLoad(i)
           \/ GithubPulls \/ GithubIssues \/ GithubLoaded
           \/ LinearSave \/ SaveHistory \/ GithubSave \/ GmailFetch \/ GmailSave
           \/ NextFails \/ SaveFails \/ HistoryFails \/ Restart
  <2>1. at' # "listing" \/ source' # "linear"
    BY <1>5 DEF Take, GithubLoad, GithubPulls, GithubIssues, Listed, GithubLoaded, LinearSave,
       SaveHistory, GithubSave, GmailFetch, GmailSave, NextFails, SaveFails, HistoryFails, Restart
  <2>2. QED
    BY <2>1 DEF PagesInOrder
<1>6. QED
  BY <1>1, <1>2, <1>3, <1>4, <1>5 DEF Next, Ingester

\* A step keeps the first load of GitHub covering what is open.
LEMMA LoadCoversKept ==
    ASSUME Holds, [Next]_vars
    PROVE  LoadCovers'
<1>1. CASE GithubIssues
  <2>1. CASE synced = Never
    <3>1. /\ UNCHANGED <<state, updated, started, saved>> /\ source = "github"
          /\ at = "issues"
          /\ (lost \union (Listable(synced) \ PullRequests)) \union listed
                \subseteq lost' \union pending' \union saved
      BY <1>1, <2>1 DEF GithubIssues, LeftOut, remoteVars, tableVars
    <3>2. Listable(synced) = Open /\ Open' = Open
      BY <2>1, <3>1 DEF Listable, Open
    <3>3. \A i \in Open \intersect PullRequests :
              updated[i] > started \/ i \in listed \union saved \union lost
      BY <3>1, <3>2 DEF Holds, PullsCover
    <3>4. QED
      BY <3>1, <3>2, <3>3 DEF LoadCovers
  <2>2. CASE synced # Never
    BY <1>1, <2>2 DEF GithubIssues, Listed, LoadCovers
  <2>3. QED
    BY <2>1, <2>2
<1>2. ASSUME NEW i \in Items, GithubLoad(i)
      PROVE  LoadCovers'
  <2>1. /\ UNCHANGED <<state, updated, started, lost>>
        /\ saved' = saved \union {i} /\ pending' = pending \ {i}
        /\ at' = at
    BY <1>2 DEF GithubLoad, remoteVars
  <2>2. Open' = Open
    BY <2>1 DEF Open
  <2>3. QED
    BY <2>1, <2>2 DEF Holds, LoadCovers
<1>3. ASSUME NEW i \in Items, NEW s \in {"open", "closed"}, Happens(i, s)
      PROVE  LoadCovers'
  <2> SUFFICES ASSUME at = "loading", NEW k \in Items, state'[k] = "open"
               PROVE  updated'[k] > started \/ k \in saved \union pending \union lost'
    BY <1>3 DEF LoadCovers, Open, Happens, tableVars, cycleVars
  <2>1. source = "github"
    BY DEF Holds, Stages
  <2>2. started \in Nat /\ now \in Nat /\ started <= now /\ lost' = lost \ {i}
    BY <1>3, SyncAssumption DEF Holds, Clock, TypeOK, Times, Happens
  <2>3. CASE k = i
    BY <1>3, <2>1, <2>2, <2>3, HappensIsNew
  <2>4. CASE k # i
    <3>1. k \in Open /\ updated'[k] = updated[k]
      BY <1>3, <2>4, HappensIsNew DEF Open
    <3>2. QED
      BY <2>2, <2>4, <3>1 DEF Holds, LoadCovers
  <2>5. QED
    BY <2>3, <2>4
<1>4. CASE UNCHANGED vars
  <2>1. UNCHANGED <<at, started, pending, saved, lost, state, updated>>
    BY <1>4 DEF vars, cycleVars, remoteVars, tableVars
  <2>2. Open' = Open
    BY <2>1 DEF Open
  <2>3. QED
    BY <2>1, <2>2 DEF Holds, LoadCovers
<1>5. CASE LinearPage
  <2>1. at' # "loading"
    BY <1>5, LinearLists DEF Listed, LinearPage
  <2>2. QED
    BY <2>1 DEF LoadCovers
<1>6. CASE \/ \E i \in Items : Take(i)
           \/ StartCycle \/ GithubPulls \/ GithubLoaded
           \/ LinearSave \/ SaveHistory \/ GithubSave \/ GmailFetch \/ GmailSave
           \/ NextFails \/ SaveFails \/ HistoryFails \/ Restart
  <2>1. at' # "loading"
    BY <1>6 DEF Take, StartCycle, GithubPulls, GithubLoaded, LinearSave,
       SaveHistory, GithubSave, GmailFetch, GmailSave, NextFails, SaveFails, HistoryFails, Restart
  <2>2. QED
    BY <2>1 DEF LoadCovers
<1>7. QED
  BY <1>1, <1>2, <1>3, <1>4, <1>5, <1>6 DEF Next, Ingester

\* What would be listed with the same cursor depends on the source alone.
LEMMA SameListable ==
    ASSUME UNCHANGED <<source, state, updated, synced>>
    PROVE  Listable(synced)' = Listable(synced)
<1>1. Exists' = Exists /\ Open' = Open
  BY DEF Exists, Open
<1>2. DoneSince(synced)' = DoneSince(synced)
  BY DEF DoneSince
<1>3. UpdatedSince(synced)' = UpdatedSince(synced)
  BY <1>1 DEF UpdatedSince, SecondOf
<1>4. QED
  BY <1>1, <1>2, <1>3 DEF Listable

\* A step keeps the pull requests of a cycle covered.
LEMMA PullsCoverKept ==
    ASSUME Holds, [Next]_vars
    PROVE  PullsCover'
<1>1. CASE GithubPulls
  <2>1. UNCHANGED <<source, state, updated, synced, saved>>
    BY <1>1 DEF GithubPulls, remoteVars, tableVars
  <2>2. PullRequests \intersect Listable(synced) \subseteq listed' \union saved \union lost'
    BY <1>1 DEF GithubPulls, LeftOut
  <2>3. QED
    BY <2>1, <2>2, SameListable DEF PullsCover
<1>2. ASSUME NEW i \in Items, NEW s \in {"open", "closed"}, Happens(i, s)
      PROVE  PullsCover'
  <2> SUFFICES ASSUME at = "issues", NEW k \in PullRequests, k \in Listable(synced)'
               PROVE  updated'[k] > started \/ k \in listed \union saved \union lost'
    BY <1>2 DEF PullsCover, Happens, tableVars, cycleVars
  <2>1. source = "github" /\ source' = source /\ synced' = synced /\ k \in Items
    BY <1>2, SyncAssumption DEF Holds, Stages, Happens, cycleVars
  <2>2. started \in Nat /\ now \in Nat /\ started <= now /\ lost' = lost \ {i}
    BY <1>2, SyncAssumption DEF Holds, Clock, TypeOK, Times, Happens
  <2>3. CASE k = i
    BY <1>2, <2>1, <2>2, <2>3, HappensIsNew
  <2>4. CASE k # i
    <3>1. updated'[k] = updated[k] /\ state'[k] = state[k]
      BY <1>2, <2>1, <2>4, HappensIsNew
    <3>2. k \in Listable(synced)
      BY <2>1, <3>1 DEF Listable, UpdatedSince, Exists, Open, SecondOf
    <3>3. QED
      BY <2>2, <2>4, <3>1, <3>2 DEF Holds, PullsCover
  <2>5. QED
    BY <2>3, <2>4
<1>3. CASE UNCHANGED vars
  <2>1. UNCHANGED <<source, state, updated, synced, at, started, listed, saved, lost>>
    BY <1>3 DEF vars, cycleVars, remoteVars, tableVars
  <2>2. QED
    BY <2>1, SameListable DEF Holds, PullsCover
<1>4. CASE LinearPage
  <2>1. at' # "issues"
    BY <1>4, LinearLists DEF Listed, LinearPage
  <2>2. QED
    BY <2>1 DEF PullsCover
<1>5. CASE \/ \E i \in Items : Take(i) \/ GithubLoad(i)
           \/ StartCycle \/ GithubIssues \/ GithubLoaded
           \/ LinearSave \/ SaveHistory \/ GithubSave \/ GmailFetch \/ GmailSave
           \/ NextFails \/ SaveFails \/ HistoryFails \/ Restart
  <2>1. at' # "issues"
    BY <1>5 DEF Take, GithubLoad, StartCycle, GithubIssues, Listed, GithubLoaded, LinearSave,
       SaveHistory, GithubSave, GmailFetch, GmailSave, NextFails, SaveFails, HistoryFails, Restart
  <2>2. QED
    BY <2>1 DEF PullsCover
<1>6. QED
  BY <1>1, <1>2, <1>3, <1>4, <1>5 DEF Next, Ingester

-----------------------------------------------------------------------------
(* The invariants hold. *)

\* The inductive invariant holds along every behaviour.
LEMMA HoldsAlways == Spec => []Holds
<1>1. Init => Holds
  <2> SUFFICES ASSUME Init
               PROVE  Holds
    OBVIOUS
  <2>1. 0 \in Times /\ 0 \in 0 .. MaxFaults
    BY SyncAssumption DEF Times
  <2>2. history \in [Items -> SUBSET Times] /\ updated \in [Items -> Times]
    BY <2>1 DEF Init
  <2>3. TypeOK
    BY <2>1, <2>2, StampType DEF Init, TypeOK
  <2>4. Clock
    BY SyncAssumption DEF Init, Clock, Never, Stamp
  <2>5. Stages /\ PagesInOrder /\ PullsCover /\ LoadCovers
    BY DEF Init, Stages, PagesInOrder, PullsCover, LoadCovers
  <2>6. QED
    BY <2>3, <2>4, <2>5 DEF Holds
<1>2. Holds /\ [Next]_vars => Holds'
  BY TypesKept, ClockKept, StagesKept, PagesInOrderKept, PullsCoverKept,
     LoadCoversKept DEF Holds
<1>3. QED
  BY <1>1, <1>2, PTL DEF Spec

\* Every variable of an ingester and of its source keeps its type: in
\* particular _handle has an item exactly while it saves one.
THEOREM TypeCorrect == Spec => []TypeOK
<1>1. Holds => TypeOK
  BY DEF Holds
<1>2. QED
  BY <1>1, HoldsAlways, PTL

-----------------------------------------------------------------------------
(* Nothing is saved from before the ingester was started. *)

\* The step NoBackfill allows.
Recently ==
    source = "linear" =>
        /\ \A i \in saved' \ saved : updated[i] > from
        /\ \A c \in changes' \ changes : c[1] \in saved /\ c[2] > from

\* A step puts nothing in the hands of Linear's ingester that is older than
\* it, and saves nothing that is.
LEMMA RecentKept ==
    ASSUME Holds, HandsAreRecent, [Next]_vars
    PROVE  HandsAreRecent' /\ Recently
<1>1. source' = source
  BY SourceStep DEF remoteVars
<1>2. CASE source # "linear"
  BY <1>1, <1>2 DEF HandsAreRecent, Recently
<1>3. CASE source = "linear"
  <2>1. /\ synced \in Nat /\ from \in Nat /\ now \in Nat /\ started \in Nat /\ now \in Times
        /\ started \in Times /\ \A i \in Items : updated[i] \in Nat
    BY <1>3, SyncAssumption DEF Holds, TypeOK, Times, Stamps, Never
  <2>2. listed \union pending \union item \subseteq Items
    BY DEF Holds, TypeOK
  <2>3. /\ from <= synced /\ from <= now
        /\ at = "listing" => from <= started
        /\ \A i \in listed \union pending \union item : updated[i] > from
    BY <1>3 DEF HandsAreRecent
  <2>4. CASE LinearPage
    <3>1. PICK page \in SUBSET DoneSince(synced) :
             \/ Listed(listed \union page)
             \/ listed' = listed \union page /\ UNCHANGED <<pending, synced, started, at>>
      BY <2>4, LinearLists
    <3>2. \A i \in page : updated[i] > from
      BY <2>1, <2>3 DEF DoneSince
    <3>3. UNCHANGED <<now, updated, from, saved, changes, item>> /\ at = "listing"
      BY <2>4 DEF LinearPage, remoteVars, tableVars
    <3>4. CASE Listed(listed \union page)
      <4>1. synced' = Stamp(started) /\ from <= started /\ at' = "idle"
        BY <2>3, <3>3, <3>4 DEF Listed
      <4>2. from <= synced'
        BY <2>1, <4>1, StampType
      <4>3. listed' \union pending' \union item' \subseteq listed \union page \union item
        BY <3>3, <3>4 DEF Listed
      <4>4. QED
        BY <2>3, <3>2, <3>3, <4>1, <4>2, <4>3 DEF HandsAreRecent, Recently
    <3>5. CASE listed' = listed \union page /\ UNCHANGED <<pending, synced, started, at>>
      BY <2>3, <3>2, <3>3, <3>5 DEF HandsAreRecent, Recently
    <3>6. QED
      BY <3>1, <3>4, <3>5
  <2>5. CASE SaveHistory \/ HistoryFails
    <3>1. PICK S \in SUBSET RecentHistory : changes' = changes \union S
      BY <2>5 DEF SaveHistory, HistoryFails, SaveChanges
    <3>2. item \subseteq saved
      BY <2>5 DEF SaveHistory, HistoryFails, Holds, Stages
    <3>3. TypeOK
      BY DEF Holds
    <3>4. \A c \in S : c[1] \in saved /\ c[2] > from
      <4>1. \A c \in S : c \in item \X Times /\ c[2] > synced
        BY <3>1, <3>3, RecentChanges
      <4>2. \A t \in Times : t \in Nat
        BY SyncAssumption DEF Times
      <4>3. \A c \in S : c[1] \in item /\ c[2] \in Nat
        BY <4>1, <4>2
      <4>4. \A t \in Nat : t > synced => t > from
        BY <2>1, <2>3
      <4>5. QED
        BY <3>2, <4>1, <4>3, <4>4
    <3>5. /\ UNCHANGED <<now, updated, saved, listed, pending, from, synced, started>>
          /\ item' = {} /\ at' = "idle"
      BY <2>5 DEF SaveHistory, HistoryFails, remoteVars, cycleVars
    <3>6. QED
      BY <2>3, <3>1, <3>4, <3>5 DEF HandsAreRecent, Recently
  <2>6. ASSUME NEW i \in Items, NEW s \in {"open", "closed"}, Happens(i, s)
        PROVE  HandsAreRecent' /\ Recently
    <3>1. \A j \in Items : updated'[j] >= updated[j] /\ updated'[j] \in Nat
      BY <2>1, <2>6, HappensIsNew
    <3>2. UNCHANGED <<saved, changes, listed, pending, item, from, synced, started, at>>
          /\ now' = now + 1
      BY <2>6 DEF Happens, tableVars, cycleVars
    <3>3. \A j \in listed \union pending \union item : updated'[j] > from
      BY <2>1, <2>2, <2>3, <3>1
    <3>4. QED
      BY <2>1, <2>3, <3>2, <3>3 DEF HandsAreRecent, Recently
  <2>7. CASE LinearSave
    BY <2>3, <2>7 DEF LinearSave, HandsAreRecent, Recently, remoteVars, cycleVars
  <2>8. CASE StartCycle
    BY <2>3, <2>8 DEF StartCycle, HandsAreRecent, Recently, remoteVars, tableVars
  <2>9. CASE Restart
    BY <2>1, <2>9, StampType DEF Restart, HandsAreRecent, Recently, remoteVars, tableVars
  <2>10. CASE UNCHANGED vars \/ (\E i \in Items : Take(i)) \/ NextFails \/ SaveFails
    <3>1. /\ UNCHANGED <<now, updated, saved, changes, from, synced>>
          /\ at' = "listing" => at = "listing" /\ started' = started
          /\ listed' \union pending' \union item' \subseteq listed \union pending \union item
      BY <2>10 DEF vars, Take, NextFails, SaveFails, remoteVars, tableVars, cycleVars
    <3>2. QED
      BY <2>3, <3>1 DEF HandsAreRecent, Recently
  <2>11. CASE \/ \E i \in Items : GithubLoad(i)
              \/ GithubPulls \/ GithubIssues \/ GithubLoaded \/ GithubSave
              \/ GmailFetch \/ GmailSave
    BY <1>3, <2>11 DEF GithubLoad, GithubPulls, GithubIssues, GithubLoaded, GithubSave,
       GmailFetch, GmailSave, Holds, Stages
  <2>12. QED
    BY <2>4, <2>5, <2>6, <2>7, <2>8, <2>9, <2>10, <2>11 DEF Next, Ingester
<1>4. QED
  BY <1>2, <1>3

\* Linear's ingester, whatever restarts and failures came before it, saves no
\* issue nobody touched since it was started, no change of status from
\* before, and no change of an issue it has not saved, however its cursor
\* moves between listing an issue and asking for its history.  (It does save
\* issues that were Done before and edited since: run `transitions`.)
THEOREM NothingFromBefore == Spec => NoBackfill
<1>1. Init => HandsAreRecent
  BY SyncAssumption, StampType DEF Init, HandsAreRecent, Times
<1>2. Holds /\ HandsAreRecent /\ [Next]_vars => HandsAreRecent' /\ [Recently]_vars
  BY RecentKept
<1>3. QED
  BY <1>1, <1>2, HoldsAlways, PTL DEF Spec, NoBackfill, Recently

-----------------------------------------------------------------------------
(* No cursor passes an item by. *)

\* A step that leaves the source and the cursor alone and lets nothing go.
Retains ==
    /\ UNCHANGED <<source, state, updated, synced, from>>
    /\ saved \union pending \union item \union lost
         \subseteq saved' \union pending' \union item' \union lost' \union Listable(synced)

\* Such a step passes nothing by.
LEMMA RetainedStaysKept ==
    ASSUME NothingSlips, Retains
    PROVE  NothingSlips'
<1>1. UNCHANGED <<source, state, updated, synced, from>>
  BY DEF Retains
<1>2. Exists' = Exists /\ Open' = Open
  BY <1>1 DEF Exists, Open
<1>3. DoneSince(synced)' = DoneSince(synced) /\ DoneSince(from)' = DoneSince(from)
  BY <1>1 DEF DoneSince
<1>4. UpdatedSince(synced)' = UpdatedSince(synced)
  BY <1>1, <1>2 DEF UpdatedSince, SecondOf
<1>5. Listable(synced)' = Listable(synced)
  BY <1>1, <1>2, <1>3, <1>4 DEF Listable
<1>6. Due' = Due
  BY <1>1, <1>2, <1>3 DEF Due
<1>7. QED
  BY <1>5, <1>6 DEF NothingSlips, Retains

\* Most steps let nothing go.
LEMMA MostStepsRetain ==
    ASSUME Holds, [Next]_vars
    PROVE  \/ Retains
           \/ source = "linear" /\ LinearPage
           \/ source = "github" /\ synced # Never /\ GithubIssues
           \/ source = "github" /\ synced' = Never
           \/ source = "github" /\ GithubLoaded
           \/ source = "gmail"
           \/ source = "linear" /\ Restart
           \/ source # "gmail" /\ \E i \in Items, s \in {"open", "closed"} : Happens(i, s)
<1>1. /\ source \in {"linear", "github", "gmail"}
      /\ at \in {"listing", "issues"} => pending = {}
      /\ at = "loading" => source = "github" /\ synced = Never
      /\ at = "history" => item \subseteq saved
  BY DEF Holds, TypeOK, Stages
<1>2. CASE source = "gmail" \/ LinearPage \/ GithubIssues \/ GithubLoaded \/ Restart
  <2>1. CASE GithubIssues /\ synced = Never
    BY <2>1 DEF GithubIssues
  <2>2. CASE GithubLoaded
    BY <1>1, <2>2 DEF GithubLoaded
  <2>3. CASE Restart
    BY <1>1, <2>3 DEF Restart
  <2>4. QED
    BY <1>2, <2>1, <2>2, <2>3 DEF LinearPage, GithubIssues
<1>3. ASSUME NEW i \in Items, Take(i) \/ GithubLoad(i)
      PROVE  Retains
  <2>1. CASE Take(i)
    <3>1. item = {}
      BY <2>1 DEF Take, Holds, TypeOK
    <3>2. QED
      BY <2>1, <3>1 DEF Take, Retains, remoteVars, tableVars
  <2>2. CASE GithubLoad(i)
    BY <2>2 DEF GithubLoad, Retains, remoteVars, tableVars
  <2>3. QED
    BY <1>3, <2>1, <2>2
<1>4. CASE StartCycle \/ GithubPulls \/ UNCHANGED vars
  <2>1. CASE GithubPulls
    <3>1. /\ UNCHANGED <<source, state, updated, synced, from, saved, pending, item>>
          /\ source = "github"
          /\ lost \ (listed' \union saved) \subseteq lost'
      BY <2>1 DEF GithubPulls, LeftOut, remoteVars, tableVars
    <3>2. listed' \subseteq Listable(synced)
      BY <2>1 DEF GithubPulls, Listable, Pages
    <3>3. QED
      BY <3>1, <3>2 DEF Retains
  <2>2. CASE StartCycle \/ UNCHANGED vars
    BY <2>2 DEF StartCycle, vars, Retains, remoteVars, tableVars, cycleVars
  <2>3. QED
    BY <1>4, <2>1, <2>2
<1>5. CASE LinearSave \/ GithubSave
  BY <1>5 DEF LinearSave, GithubSave, Retains, remoteVars, cycleVars
<1>6. CASE SaveHistory \/ HistoryFails
  BY <1>1, <1>6 DEF SaveHistory, HistoryFails, Retains, remoteVars, cycleVars
<1>7. CASE SaveFails
  BY <1>7 DEF SaveFails, Retains, remoteVars, cycleVars, tableVars
<1>8. CASE GmailFetch \/ GmailSave
  BY <1>8 DEF GmailFetch, GmailSave
<1>9. CASE NextFails
  <2>1. CASE at = "loading"
    BY <1>1, <1>9, <2>1 DEF NextFails
  <2>2. CASE at # "loading"
    BY <1>1, <1>9, <2>2 DEF NextFails, Retains, remoteVars, tableVars
  <2>3. QED
    BY <2>1, <2>2
<1>10. QED
  BY <1>1, <1>2, <1>3, <1>4, <1>5, <1>6, <1>7, <1>8, <1>9 DEF Next, Ingester

\* A clock that is not ahead.
LEMMA StampNow ==
    ASSUME Skew = 0, NEW t \in Times
    PROVE  Stamp(t) = t
BY SyncAssumption DEF Stamp, Times

\* Linear's last page leaves out only what is newer than the cycle.
LEMMA LinearPageSlipsNothing ==
    ASSUME Skew = 0, Holds, NothingSlips, source = "linear", LinearPage
    PROVE  NothingSlips'
<1>1. PICK page \in SUBSET DoneSince(synced) :
         \/ /\ Listed(listed \union page)
            /\ \A i \in DoneSince(synced) : i \in listed \union page \/ updated[i] > started
         \/ UNCHANGED <<pending, synced, started, at>>
  BY LinearLists
<1>2. /\ UNCHANGED <<source, state, updated, saved, from, item, lost>>
      /\ pending = {} /\ item = {}
  BY DEF LinearPage, remoteVars, tableVars, Holds, Stages, TypeOK
<1>3. CASE UNCHANGED <<pending, synced, started, at>>
  BY <1>2, <1>3, RetainedStaysKept DEF Retains
<1>4. CASE /\ Listed(listed \union page)
           /\ \A i \in DoneSince(synced) : i \in listed \union page \/ updated[i] > started
  <2>1. synced' = started /\ pending' = listed \union page
    BY <1>4, StampNow DEF Listed, Holds, TypeOK
  <2>2. /\ Due = DoneSince(from) /\ Due' = DoneSince(from)
        /\ Listable(synced) = DoneSince(synced)
    BY <1>2 DEF Due, Listable, DoneSince
  <2>3. \A i : i \in Items /\ state[i] = "closed" /\ updated[i] > started => i \in Listable(synced)'
    BY <1>2, <2>1 DEF Listable, DoneSince
  <2>4. \A i \in DoneSince(from) : i \in Items /\ state[i] = "closed"
    BY DEF DoneSince
  <2>5. ASSUME NEW i \in DoneSince(from)
        PROVE  i \in saved \union pending' \union item \union lost \/ i \in Listable(synced)'
    <3>1. i \in saved \union lost \/ i \in DoneSince(synced)
      BY <1>2, <2>2 DEF NothingSlips
    <3>2. QED
      BY <1>4, <2>1, <2>3, <2>4, <3>1
  <2>6. QED
    BY <1>2, <2>2, <2>5 DEF NothingSlips
<1>5. QED
  BY <1>1, <1>3, <1>4

\* The page of issues leaves out what it counts as lost, and pull requests
\* that changed since the cycle began.
LEMMA GithubIssuesSlipNothing ==
    ASSUME Skew = 0, Holds, NothingSlips, source = "github", synced # Never,
           GithubIssues
    PROVE  NothingSlips'
<1>1. PICK page, all :
         /\ listed \subseteq all
         /\ lost' = (lost \union (Listable(synced) \ PullRequests)) \ (all \union saved)
         /\ Listed(all)
  BY DEF GithubIssues, LeftOut
<1>2. /\ UNCHANGED <<source, state, updated, saved, from, item>>
      /\ pending = {} /\ item = {} /\ at = "issues"
      /\ synced' = started /\ started # Never /\ pending' = all
  <2>1. started \in Times /\ Never \notin Times
    BY SyncAssumption DEF Holds, TypeOK, Times, Never
  <2>2. QED
    BY <1>1, <2>1, StampNow DEF Listed, GithubIssues, remoteVars, tableVars, Holds, Stages, TypeOK
<1>3. /\ Due' = Due /\ Due \subseteq Exists /\ Exists \subseteq Items
      /\ Listable(synced)' = UpdatedSince(started)
  <2>1. Exists' = Exists /\ Open' = Open
    BY <1>2 DEF Exists, Open
  <2>2. QED
    BY <1>2, <2>1 DEF Due, Listable, UpdatedSince, SecondOf, Exists
<1>4. started \in Nat /\ \A i \in Items : updated[i] \in Nat
  BY SyncAssumption DEF Holds, TypeOK, Times
<1>5. ASSUME NEW i \in Due, i \in Listable(synced)
      PROVE  i \in all \union saved \union lost' \/ i \in UpdatedSince(started)
  <2>1. CASE i \in PullRequests
    <3>1. updated[i] > started \/ i \in listed \union saved \union lost
      BY <1>2, <1>5, <2>1 DEF Holds, PullsCover
    <3>2. CASE updated[i] > started
      <4>1. PICK u \in Nat : u = updated[i]
        BY <1>3, <1>4
      <4>2. SecondOf(started) <= SecondOf(u)
        BY <1>4, <3>2, <4>1, SecondsInOrder
      <4>3. SecondOf(started) \in Nat /\ SecondOf(u) \in Nat
        BY <1>4, SyncAssumption DEF SecondOf
      <4>4. SecondOf(updated[i]) >= SecondOf(started)
        BY <4>1, <4>2, <4>3
      <4>5. QED
        BY <1>3, <4>4 DEF UpdatedSince
    <3>3. CASE i \in listed \union saved \union lost
      BY <1>1, <3>3
    <3>4. QED
      BY <3>1, <3>2, <3>3
  <2>2. CASE i \notin PullRequests
    BY <1>1, <1>5, <2>2
  <2>3. QED
    BY <2>1, <2>2
<1>6. \A i \in Due : i \in saved \union lost \/ i \in Listable(synced)
  BY <1>2 DEF NothingSlips
<1>7. QED
  BY <1>1, <1>2, <1>3, <1>5, <1>6 DEF NothingSlips

\* After the first load, what is open was loaded or is newer than the load.
LEMMA GithubLoadedSlipsNothing ==
    ASSUME Skew = 0, Holds, source = "github", GithubLoaded
    PROVE  NothingSlips'
<1>1. /\ UNCHANGED <<source, state, updated, saved, item, lost>>
      /\ pending = {} /\ at = "loading"
      /\ synced' = started /\ from' = started
  BY StampNow DEF GithubLoaded, remoteVars, tableVars, Holds, TypeOK
<1>2. started \in Nat /\ started # Never /\ \A i \in Items : updated[i] \in Nat
  BY SyncAssumption DEF Holds, TypeOK, Times, Never
<1>3. Listable(synced)' = UpdatedSince(started)
  BY <1>1, <1>2 DEF Listable, UpdatedSince, Exists
<1>4. \A i \in Exists : updated[i] > started => i \in UpdatedSince(started)
  BY <1>2, SecondsInOrder DEF Exists, UpdatedSince
<1>5. \A i \in Due' : i \in Exists /\ (i \in Open \/ updated[i] > started)
  BY <1>1 DEF Due, Exists, Open
<1>6. \A i \in Open : updated[i] > started \/ i \in saved \union lost
  BY <1>1 DEF Holds, LoadCovers
<1>7. \A i \in Due' : i \in saved \union lost \/ i \in UpdatedSince(started)
  BY <1>4, <1>5, <1>6
<1>8. QED
  BY <1>1, <1>3, <1>7 DEF NothingSlips

\* What happens at the source is newer than the cursor, and listed with it.
LEMMA HappensSlipsNothing ==
    ASSUME Skew = 0, Holds, NothingSlips, source # "gmail",
           NEW i \in Items, NEW s \in {"open", "closed"}, Happens(i, s)
    PROVE  NothingSlips'
<1>1. /\ UNCHANGED <<source, saved, synced, pending, from, item>> /\ lost' = lost \ {i}
      /\ state'[i] = s /\ now \in Nat
  BY SyncAssumption DEF Happens, tableVars, cycleVars, Holds, TypeOK, Times
<1>2. /\ updated'[i] > now /\ updated'[i] \in Nat /\ updated[i] \in Nat
      /\ \A j \in Items \ {i} : updated'[j] = updated[j] /\ state'[j] = state[j]
  BY HappensIsNew
<1>3. synced \in Nat \union {Never} /\ synced <= now
  BY SyncAssumption DEF Holds, TypeOK, Times, Stamps, Stamp, Clock
<1>4. \A j : j \in Due' => j \in Items
  <2>1. source' \in {"linear", "github"}
    BY <1>1 DEF Holds, TypeOK
  <2>2. CASE source' = "linear"
    BY <2>2 DEF Due, DoneSince
  <2>3. CASE source' = "github"
    BY <2>3 DEF Due, Exists
  <2>4. QED
    BY <2>1, <2>2, <2>3
<1>5. CASE source = "linear"
  <2>1. /\ Due' = {j \in Items : state'[j] = "closed" /\ updated'[j] > from}
        /\ Due = {j \in Items : state[j] = "closed" /\ updated[j] > from}
        /\ Listable(synced)' = {j \in Items : state'[j] = "closed" /\ updated'[j] > synced}
        /\ Listable(synced) = {j \in Items : state[j] = "closed" /\ updated[j] > synced}
    BY <1>1, <1>5 DEF Due, Listable, DoneSince
  <2>2. updated'[i] > synced
    BY <1>1, <1>2, <1>3 DEF Never
  <2>3. QED
    BY <1>1, <1>2, <2>1, <2>2 DEF NothingSlips
<1>6. CASE source = "github" /\ synced = Never
  BY <1>1, <1>6 DEF NothingSlips, Due, Listable, Exists, Open
<1>7. CASE source = "github" /\ synced # Never
  <2>1. synced \in Nat
    BY <1>3, <1>7
  <2>2. SecondOf(updated'[i]) >= SecondOf(synced)
    <3>1. PICK u \in Nat : u = updated'[i]
      BY <1>2
    <3>2. synced <= u
      BY <1>1, <1>2, <2>1, <3>1, <1>3
    <3>3. SecondOf(synced) <= SecondOf(u)
      BY <2>1, <3>2, SecondsInOrder
    <3>4. SecondOf(synced) \in Nat /\ SecondOf(u) \in Nat
      BY <2>1, SyncAssumption DEF SecondOf
    <3>5. SecondOf(u) >= SecondOf(synced)
      BY <3>3, <3>4
    <3>6. QED
      BY <3>1, <3>5
  <2>3. /\ \A j \in Exists : (j \in Open \/ updated[j] > from) => j \in Due
        /\ Listable(synced) = {j \in Exists : SecondOf(updated[j]) >= SecondOf(synced)}
    BY <1>7 DEF Due, Listable, UpdatedSince
  <2>4. /\ \A j \in Due' : state'[j] # "none" /\ (state'[j] = "open" \/ updated'[j] > from)
        /\ Listable(synced)'
             = {j \in Items : state'[j] # "none" /\ SecondOf(updated'[j]) >= SecondOf(synced)}
    BY <1>1, <1>7 DEF Due, Listable, UpdatedSince, Exists, Open, SecondOf
  <2>5. i \in Listable(synced)'
    BY <1>1, <2>2, <2>4
  <2>6. ASSUME NEW j \in Due', j # i
        PROVE  j \in saved \union pending \union item \union lost' \union Listable(synced)'
    <3>1. j \in Items /\ updated'[j] = updated[j] /\ state'[j] = state[j]
      BY <1>2, <1>4, <2>6
    <3>2. j \in Due
      BY <2>3, <2>4, <3>1 DEF Exists, Open
    <3>3. j \in saved \union pending \union item \union lost' \/ j \in Listable(synced)
      BY <1>1, <2>6, <3>2 DEF NothingSlips
    <3>4. QED
      BY <2>3, <2>4, <3>1, <3>3 DEF Exists
  <2>7. QED
    BY <1>1, <2>5, <2>6 DEF NothingSlips
<1>8. QED
  BY <1>5, <1>6, <1>7 DEF Holds, TypeOK

\* No step passes an item by.
LEMMA SlipsKept ==
    ASSUME Skew = 0, Holds, NothingSlips, [Next]_vars
    PROVE  NothingSlips'
<1>1. source' = source
  BY SourceStep DEF remoteVars
<1>2. CASE source = "gmail"
  BY <1>1, <1>2 DEF NothingSlips, Due, Listable
<1>3. CASE source = "github" /\ synced' = Never
  <2>1. Due' \subseteq Open' /\ Listable(synced)' = Open'
    BY <1>1, <1>3 DEF Due, Listable
  <2>2. QED
    BY <2>1 DEF NothingSlips
<1>4. CASE source = "linear" /\ Restart
  <2>1. synced' = from'
    BY <1>4, StampNow DEF Restart, Holds, TypeOK
  <2>2. Due' = Listable(synced)'
    BY <1>1, <1>4, <2>1 DEF Due, Listable, DoneSince
  <2>3. QED
    BY <2>2 DEF NothingSlips
<1>5. QED
  BY <1>2, <1>3, <1>4, MostStepsRetain, RetainedStaysKept, LinearPageSlipsNothing,
     GithubIssuesSlipNothing, GithubLoadedSlipsNothing, HappensSlipsNothing

\* No item slips through an ingester's cursor if the ingester's clock is not
\* ahead of the source's, whatever changes at the source during a cycle,
\* between GitHub's two requests as well, however the source's clock is
\* rounded, and wherever a request, a write or the process fails: what is due
\* is saved, in hand, would be listed with the present cursor, or was left
\* out by a page that was full or given up by a failed write.
THEOREM CursorsMissNothing ==
    ASSUME Skew = 0
    PROVE  Spec => []NothingSlips
<1>1. Init => NothingSlips
  <2> SUFFICES ASSUME Init
               PROVE  NothingSlips
    OBVIOUS
  <2>1. CASE source = "linear"
    BY <2>1 DEF Init, NothingSlips, Due, Listable, DoneSince
  <2>2. CASE source = "github"
    BY <2>2 DEF Init, NothingSlips, Due, Listable
  <2>3. CASE source = "gmail"
    BY <2>3 DEF Init, NothingSlips, Due, Listable
  <2>4. QED
    BY <2>1, <2>2, <2>3 DEF Init
<1>2. Holds /\ NothingSlips /\ [Next]_vars => NothingSlips'
  BY SlipsKept
<1>3. QED
  BY <1>1, <1>2, HoldsAlways, PTL DEF Spec
=============================================================================
