----------------------------- MODULE SourceSync -----------------------------
(***************************************************************************)
(* How an ingester keeps up with its source: a consumer whose _next lists  *)
(* what is new at Linear, GitHub or Gmail into a buffer and hands it out   *)
(* one by one, and whose _handle saves it.  The ingesters share nothing    *)
(* but the records table, so a behaviour is one ingester of one of them.   *)
(*                                                                         *)
(* Calls to a source are single steps; what happens at the source happens  *)
(* in between.  The order within a list is left out.  `now` is the clock   *)
(* of the source, which stamps its items; the ingester takes its cursors   *)
(* from a clock of its own, which may be ahead.  (One that is behind would *)
(* make it ask for more than it has to.)                                   *)
(***************************************************************************)
EXTENDS Integers, FiniteSets

CONSTANTS
    Items,        \* issues, pull requests, mails
    PullRequests, \* the pull requests among the items of GitHub
    PageSize,     \* items the source returns in answer to one request
    Ticks,        \* clock ticks in a second, in which GitHub counts
    Skew,         \* by how much the ingester's clock is ahead of the source's
    MaxTime,      \* bound on what happens at the source
    MaxFaults     \* bound on requests and writes that fail, and on crashes

ASSUME SyncAssumption ==
    /\ PullRequests \subseteq Items
    /\ {PageSize, Ticks, MaxTime} \subseteq Nat \ {0}
    /\ {Skew, MaxFaults} \subseteq Nat

VARIABLES
    source,   \* what the ingester polls
    now,      \* the clock: it ticks when something happens at the source
    state,    \* "none", "open" (to do, unread) or "closed" (Done, read)
    updated,  \* when an item last changed, or a mail arrived
    history,  \* when the status of an item changed
    saved,    \* the items in the records table, by dedup_key
    changes,  \* the <<item, time>> of the status changes in it
    at,       \* where the ingester is
    synced,   \* self._synced_at
    started,  \* when cycle_started_at, a local of _next, was read
    listed,   \* what the requests of this cycle have returned so far
    pending,  \* self._pending
    item,     \* what _handle was given, as a set
    from,     \* history: when the ingester started to follow the source
    lost,     \* history: what a page left out, or a failed write for good
    faults

remoteVars == <<now, state, updated, history>>
tableVars  == <<saved, changes>>
cycleVars  == <<synced, started, listed, pending, from>>
vars == <<source, remoteVars, tableVars, at, cycleVars, item, lost, faults>>

Never == -1   \* None
Times == 0 .. MaxTime

\* The stamp the ingester takes at a time of the source.
Stamp(t) == t + Skew
Stamps == 0 .. MaxTime + Skew

TypeOK ==
    /\ source \in {"linear", "github", "gmail"}
    /\ now \in Times
    /\ state \in [Items -> {"none", "open", "closed"}]
    /\ updated \in [Items -> Times]
    /\ history \in [Items -> SUBSET Times]
    /\ saved \subseteq Items
    /\ changes \subseteq saved \X Times
    /\ at \in {"idle", "listing", "issues", "loading", "saving", "history"}
    /\ synced \in Stamps \union {Never}
    /\ synced = Never => source # "linear"
    /\ started \in Times
    /\ (listed \union pending \union item \union lost) \subseteq Items
    /\ item # {} <=> at \in {"saving", "history"}
    /\ from \in Times
    /\ faults \in 0 .. MaxFaults

\* What is there before the ingester is started.
Init ==
    /\ source \in {"linear", "github", "gmail"}
    /\ now = 0
    /\ state \in [Items -> {"none", "open", "closed"}]
    /\ updated = [i \in Items |-> 0]
    /\ history = [i \in Items |-> IF state[i] = "closed" THEN {0} ELSE {}]
    /\ saved = {} /\ changes = {}
    /\ at = "idle"
    /\ synced = IF source = "linear" THEN Stamp(now) ELSE Never
    /\ started = 0 /\ from = 0
    /\ listed = {} /\ pending = {} /\ item = {} /\ lost = {}
    /\ faults = 0

Fault == faults < MaxFaults /\ faults' = faults + 1

-----------------------------------------------------------------------------
(* The source *)

\* An item is created, edited, closed or opened again; a mail comes in or is
\* read, or marked unread.
Happens(i, s) ==
    /\ now < MaxTime
    /\ s \in {"open", "closed"}
    /\ source = "gmail" => s # state[i] /\ (state[i] = "none" => s = "open")
    /\ now' = now + 1
    /\ state' = [state EXCEPT ![i] = s]
    /\ updated' = IF source = "gmail" /\ state[i] # "none"
                  THEN updated
                  ELSE [updated EXCEPT ![i] = now + 1]
    /\ history' = IF s = state[i] THEN history
                  ELSE [history EXCEPT ![i] = @ \union {now + 1}]
    /\ lost' = lost \ {i}
    /\ UNCHANGED <<source, tableVars, at, cycleVars, item, faults>>

SecondOf(t) == t \div Ticks

\* A page of S, the latest of S when they are sorted.
Pages(S) ==
    {T \in SUBSET S : Cardinality(T) = PageSize \/ (T = S /\ Cardinality(S) < PageSize)}
NewestPages(S) ==
    {T \in Pages(S) : \A i \in T, j \in S \ T : updated[i] >= updated[j]}

Exists == {i \in Items : state[i] # "none"}
Open   == {i \in Items : state[i] = "open"}

\* MUTANT: later than the second of the last cycle.
UpdatedAfter(since) == {i \in Exists : SecondOf(updated[i]) > SecondOf(since)}

\* "...:05Z" > "...:05.123456+00:00" as strings: the second counts as later.
UpdatedSince(since) == {i \in Exists : SecondOf(updated[i]) >= SecondOf(since)}

DoneSince(since) == {i \in Items : state[i] = "closed" /\ updated[i] > since}

\* What a cycle with this cursor would ask for.
Listable(since) ==
    CASE source = "linear" -> DoneSince(since)
      [] source = "github" /\ since # Never -> UpdatedSince(since)
      [] OTHER -> Open

-----------------------------------------------------------------------------
(* _next *)

\* The buffer is not empty.
Take(i) ==
    /\ at = "idle"
    /\ i \in pending
    /\ pending' = pending \ {i}
    /\ item' = {i}
    /\ at' = "saving"
    /\ UNCHANGED <<source, remoteVars, tableVars, synced, started, listed, from, lost,
                   faults>>

\* The clock is read before anything is asked.
StartCycle ==
    /\ at = "idle"
    /\ pending = {}
    /\ started' = now
    /\ listed' = {}
    /\ at' = "listing"
    /\ UNCHANGED <<source, remoteVars, tableVars, synced, pending, from, item, lost,
                   faults>>

\* MUTANT: GitHub's cursor is set to the time of the last answer.
ListedNow(S) ==
    /\ pending' = S
    /\ synced' = Stamp(IF source = "github" THEN now ELSE started)
    /\ started' = 0
    /\ listed' = {}
    /\ at' = "idle"

\* The cycle is over: what it listed is buffered, and the cursor moves.
Listed(S) ==
    /\ pending' = S
    /\ synced' = Stamp(started)
    /\ started' = 0
    /\ listed' = {}
    /\ at' = "idle"

\* LinearConnect.list_updated_since, page by page, sorted by time of update:
\* what changes meanwhile moves to the pages already read.
LinearPage ==
    LET rest == {i \in DoneSince(synced) : \A j \in listed : updated[i] < updated[j]}
                  \ listed
    IN
    /\ source = "linear" /\ at = "listing"
    /\ \E page \in NewestPages(rest) :
          IF page = rest
          THEN Listed(listed \union page)
          ELSE listed' = listed \union page /\ UNCHANGED <<pending, synced, started, at>>
    /\ UNCHANGED <<source, remoteVars, tableVars, from, item, lost, faults>>

\* What a page leaves out of what was asked for will not be asked for again.
LeftOut(S, page) == lost' = (lost \union S) \ (page \union saved)

\* GitHubConnect.list_prs, list_prs_since: one page.
GithubPulls ==
    /\ source = "github" /\ at = "listing"
    /\ IF synced = Never
       THEN listed' \in Pages(PullRequests \intersect Open)
       ELSE \E page \in NewestPages(PullRequests \intersect Exists) :
               listed' = page \intersect UpdatedSince(synced)
    /\ LeftOut(PullRequests \intersect Listable(synced), listed')
    /\ at' = "issues"
    /\ UNCHANGED <<source, remoteVars, tableVars, synced, started, pending, from,
                   item, faults>>

\* GitHubConnect.list_issues, list_issues_since: one page, in which GitHub
\* includes pull requests.  The first load is saved by _next itself.
GithubIssues ==
    /\ source = "github" /\ at = "issues"
    /\ \E page \in Pages(Listable(synced)) :
          LET all == listed \union (page \ PullRequests) IN
          /\ LeftOut(Listable(synced) \ PullRequests, all)
          /\ IF synced = Never
             THEN /\ pending' = all /\ listed' = {} /\ at' = "loading"
                  /\ UNCHANGED <<synced, started>>
             ELSE Listed(all)
    /\ UNCHANGED <<source, remoteVars, tableVars, from, item, faults>>

GithubLoad(i) ==
    /\ at = "loading"
    /\ i \in pending
    /\ saved' = saved \union {i}
    /\ pending' = pending \ {i}
    /\ UNCHANGED <<source, remoteVars, changes, at, synced, started, listed, from,
                   item, lost, faults>>

GithubLoaded ==
    /\ at = "loading"
    /\ pending = {}
    /\ synced' = Stamp(started)
    /\ from' = started
    /\ started' = 0
    /\ at' = "idle"
    /\ UNCHANGED <<source, remoteVars, tableVars, listed, pending, item, lost, faults>>

\* GmailConnect.fetch_new: the latest unread mails, known or not.
GmailFetch ==
    /\ source = "gmail" /\ at = "listing"
    /\ pending' \in NewestPages(Open)
    /\ started' = 0
    /\ at' = "idle"
    /\ UNCHANGED <<source, remoteVars, tableVars, synced, listed, from, item, lost,
                   faults>>

\* A request fails, or a write of the first load: the exception ends _next,
\* the cursor stays where it was, and what it lists is asked for again.
NextFails ==
    /\ at \in {"listing", "issues", "loading"}
    /\ Fault
    /\ at' = "idle"
    /\ started' = 0
    /\ listed' = {}
    /\ pending' = {}
    /\ lost' = lost \ Listable(synced)
    /\ UNCHANGED <<source, remoteVars, tableVars, synced, from, item>>

-----------------------------------------------------------------------------
(* _handle *)

\* LinearConnect.ingest_record: nothing new if the issue is known; then its
\* history is asked for.
LinearSave ==
    /\ source = "linear" /\ at = "saving"
    /\ saved' = saved \union item
    /\ at' = "history"
    /\ UNCHANGED <<source, remoteVars, changes, cycleVars, item, lost, faults>>

\* GitHubConnect.ingest_pr, ingest_issue.
GithubSave ==
    /\ source = "github" /\ at = "saving"
    /\ saved' = saved \union item
    /\ at' = "idle"
    /\ item' = {}
    /\ UNCHANGED <<source, remoteVars, changes, cycleVars, lost, faults>>

\* GmailConnect.ingest_record: the mail stays unread.
GmailSave ==
    /\ source = "gmail" /\ at = "saving"
    /\ saved' = saved \union item
    /\ at' = "idle"
    /\ item' = {}
    /\ UNCHANGED <<source, remoteVars, changes, cycleVars, lost, faults>>

\* The consumer goes on with the next; only Gmail will show the item again.
SaveFails ==
    /\ at = "saving"
    /\ Fault
    /\ lost' = lost \union (item \ (Listable(synced) \union saved))
    /\ at' = "idle"
    /\ item' = {}
    /\ UNCHANGED <<source, remoteVars, tableVars, cycleVars>>

\* MUTANT: the whole history of the issue.
WholeHistory == UNION {{i} \X history[i] : i \in item}

\* LinearConnect.get_issue_history, since the start of this cycle: _next has
\* moved the cursor already.
RecentHistory == UNION {{i} \X {t \in history[i] : t > synced} : i \in item}

\* ingest_change, for each of them: a change that is known is not saved again.
SaveChanges(S) == changes' = changes \union S

SaveHistory ==
    /\ at = "history"
    /\ SaveChanges(RecentHistory)
    /\ at' = "idle"
    /\ item' = {}
    /\ UNCHANGED <<source, remoteVars, saved, cycleVars, lost, faults>>

\* Caught and logged, with some of the changes saved perhaps.
HistoryFails ==
    /\ at = "history"
    /\ Fault
    /\ \E some \in SUBSET RecentHistory : SaveChanges(some)
    /\ at' = "idle"
    /\ item' = {}
    /\ UNCHANGED <<source, remoteVars, saved, cycleVars, lost>>

\* MUTANT: no ingester takes the time it was started for its cursor.
RestartAfresh ==
    /\ Fault
    /\ at' = "idle"
    /\ synced' = Never
    /\ from' = now
    /\ started' = 0
    /\ listed' = {} /\ pending' = {} /\ item' = {} /\ lost' = {}
    /\ UNCHANGED <<source, remoteVars, tableVars>>

\* The process ends and another is started: the cursor and the buffer were
\* its own.
Restart ==
    /\ Fault
    /\ at' = "idle"
    /\ synced' = IF source = "linear" THEN Stamp(now) ELSE Never
    /\ from' = now
    /\ started' = 0
    /\ listed' = {} /\ pending' = {} /\ item' = {} /\ lost' = {}
    /\ UNCHANGED <<source, remoteVars, tableVars>>

-----------------------------------------------------------------------------

Ingester ==
    \/ \E i \in Items : Take(i) \/ GithubLoad(i)
    \/ StartCycle \/ LinearPage \/ GithubPulls \/ GithubIssues \/ GithubLoaded
    \/ LinearSave \/ SaveHistory \/ GithubSave \/ GmailFetch \/ GmailSave

Next ==
    \/ \E i \in Items, s \in {"open", "closed"} : Happens(i, s)
    \/ Ingester
    \/ NextFails \/ SaveFails \/ HistoryFails \/ Restart

\* The polling thread is scheduled; nothing else is promised.
Spec == Init /\ [][Next]_vars /\ WF_vars(Ingester)

-----------------------------------------------------------------------------
(* Properties *)

\* What the ingester is there to save: an issue that was Done after it
\* started, what was open on GitHub or changed there since the first load,
\* an unread mail among the latest.
Due ==
    CASE source = "linear" -> DoneSince(from)
      [] source = "github" ->
            {i \in Exists : i \in Open \/ (synced # Never /\ updated[i] > from)}
      [] source = "gmail" ->
            {i \in Open : Cardinality({j \in Open : updated[j] >= updated[i]}) <= PageSize}

\* No cursor passes an item by, whatever changes at the source during a
\* cycle, between its two requests say, and however coarse its clock is:
\* what is due and not saved is in the buffer or will be listed, but for what
\* a page or a failed write lost (linear_ingest.py:62, github_ingest.py:52,
\* github_connect.py:81).  The ingester's clock must not be ahead.
NothingSlips ==
    \A i \in Due : i \in saved \union pending \union item \union Listable(synced) \union lost

\* "no historical backfill happens" (linear_ingest.py:13), as far as it is
\* so: the ingester that runs saves no issue that nobody touched since it was
\* started, no change of status from before, and no change of an issue that
\* is not saved itself, though its cursor moves between the listing of an
\* issue and the request for its history.
NoBackfill ==
    [][source = "linear" =>
          /\ \A i \in saved' \ saved : updated[i] > from
          /\ \A c \in changes' \ changes : c[1] \in saved /\ c[2] > from]_vars

\* What is due is saved in the end, failed requests and writes
\* notwithstanding, unless it is let go or no longer due (consumer.py:65).
DueIsSaved ==
    \A i \in Items : i \in Due ~> i \in saved \union lost \/ i \notin Due

-----------------------------------------------------------------------------
(* What a comment says and the code does not do *)

\* "only Done transitions that happen after the consumer comes up are
\* captured" (linear_ingest.py:46): an issue is saved when its status changed
\* since the first ingester was started.
OnlyTransitions ==
    source = "linear" => \A i \in saved : \E t \in history[i] : t > 0
=============================================================================
