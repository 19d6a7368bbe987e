--------------------------- MODULE KnowledgeGraph ---------------------------
(***************************************************************************)
(* Who writes the fact graph: extraction, which resolves the entities of a *)
(* record, writes its facts and queues it for curation, and curation,      *)
(* which compares the facts of a record with what else is said of their    *)
(* subjects and stales what is no longer true.                             *)
(***************************************************************************)
EXTENDS FactGraph

CONSTANTS
    Extractors,   \* extraction processes
    Curators,     \* curation processes
    Seeds,        \* the records of type "ingest"
    Name, Ident,  \* the entity a record is about, as the record has it
    Form,         \* the surface form an alias is written for: in a seed the
                  \* other name it lists, else the name of the record
    NoRecord,
    MaxFaults     \* bound on failed runs and on claims that time out

ASSUME WorkAssumption ==
    /\ Seeds \subseteq Records
    /\ Name \in [Records -> Names]
    /\ Ident \in [Records -> Idents \union {NoIdent}]
    /\ Form \in [Records -> Names]
    /\ \A r \in Records \ Seeds : Form[r] = Name[r]
    /\ NoRecord \notin Records
    /\ MaxFaults \in Nat

VARIABLES
    work,      \* what each extraction process is doing
    extracted, \* the records marked indexed
    scan,      \* what each curation process is doing
    curated,   \* history: the records curation has taken off its queue
    compared,  \* history: the pairs of edges that were put to the judge
    judged,    \* history: the pairs it found superseding, superseded
    unasked,   \* history: nodes created without asking resolve_entity by
               \* identifier, or on an answer that was outdated
    known,     \* history: the <<node, form, record>> an alias was written for
    lateForms, \* history: the <<node, form>> whose alias was written on an outdated lookup
    faults

workVars == <<work, extracted, unasked, known, lateForms>>
scanVars == <<scan, curated, compared, judged>>
vars     == <<graphVars, workVars, scanVars, faults>>

(***************************************************************************)
(* Extraction of a record: the answer of resolve_entity and how many nodes *)
(* there were when it was asked by identifier, 0 if it never was, the node *)
(* the record is about, the records the alias had when it was looked up,   *)
(* and the facts still to write.                                           *)
(***************************************************************************)
NoWork == [at |-> "idle", record |-> NoRecord, answer |-> Answer(FALSE, {}),
           asOf |-> 0, node |-> 0, records |-> {}, left |-> {}]

(***************************************************************************)
(* Curation of a record: the edges still to mark, the edges still to be    *)
(* triggers, the trigger and the siblings found to supersede it.           *)
(***************************************************************************)
NoScan == [at |-> "idle", record |-> NoRecord, todo |-> {}, triggers |-> {},
           trigger |-> 0, newer |-> {}]

TypeOK ==
    /\ GraphTypeOK
    /\ \A x \in Extractors :
          /\ work[x].at \in {"idle", "resolved", "alias", "aliasing", "facts", "indexed"}
          /\ work[x].record \in Records \union {NoRecord}
          /\ work[x].node \in NodeIds \union {0}
          /\ work[x].left \subseteq Facts
    /\ \A c \in Curators :
          /\ scan[c].at \in {"idle", "expiring", "scanning", "marking"}
          /\ scan[c].record \in Records \union {NoRecord}
          /\ scan[c].todo \union scan[c].triggers \union scan[c].newer \subseteq EdgeIds
          /\ scan[c].trigger \in EdgeIds \union {0}
    /\ extracted \in SUBSET Records
    /\ curated \in SUBSET Records
    /\ compared \in SUBSET SUBSET EdgeIds
    /\ judged \in SUBSET (EdgeIds \X EdgeIds)
    /\ unasked \in SUBSET NodeIds
    /\ known \in SUBSET (NodeIds \X Names \X Records)
    /\ lateForms \in SUBSET (NodeIds \X Names)
    /\ faults \in 0 .. MaxFaults

Init ==
    /\ GraphInit
    /\ work = [x \in Extractors |-> NoWork]
    /\ extracted = {}
    /\ scan = [c \in Curators |-> NoScan]
    /\ curated = {}
    /\ compared = {}
    /\ judged = {}
    /\ unasked = {}
    /\ known = {}
    /\ lateForms = {}
    /\ faults = 0

Fault == faults < MaxFaults /\ faults' = faults + 1

-----------------------------------------------------------------------------
(* Extraction.  That two processes may take one record is left to the      *)
(* module of that name.                                                    *)

FactsOf(r) == {f \in Facts : RecordOf[f] = r}

Untaken(r) == r \notin extracted /\ \A y \in Extractors : work[y].record # r

\* The agent gives no result: the record is marked indexed, and not queued.
IndexNothing(x, r) ==
    /\ work[x].at = "idle"
    /\ Untaken(r)
    /\ extracted' = extracted \union {r}
    /\ UNCHANGED <<graphVars, work, unasked, known, lateForms, scanVars, faults>>

\* The agent calls the tool resolve_entity; the identifier is optional.
Resolve(x, r) ==
    /\ work[x].at = "idle"
    /\ r \notin Seeds
    /\ Untaken(r)
    /\ \E ident \in {Ident[r], NoIdent} : \E answer \in ResolveEntity(Name[r], ident) :
          work' = [work EXCEPT ![x] =
                     [NoWork EXCEPT !.at = "resolved", !.record = r, !.answer = answer,
                                    !.asOf = IF ident = Ident[r] THEN Len(nodes) ELSE 0]]
    /\ UNCHANGED <<graphVars, extracted, unasked, known, lateForms, scanVars, faults>>

\* The entity is settled; what the agent was shown is of no more use.
Settled(r, at, n) ==
    [NoWork EXCEPT !.at = at, !.record = r, !.node = n, !.left = FactsOf(r)]

\* The agent says "new", which its prompt excludes after a definitive match.
CommitNew(x) ==
    LET r == work[x].record IN
    /\ work[x].at = "resolved"
    /\ ~work[x].answer.definitive
    /\ \E n \in 1 .. Len(nodes) + 1 :
          /\ CreateEntity(Name[r], Ident[r], n)
          /\ work' = [work EXCEPT ![x] = Settled(r, "facts", n)]
          /\ unasked' = IF nodes' # nodes /\ work[x].asOf # Len(nodes)
                        THEN unasked \union {n}
                        ELSE unasked
    /\ UNCHANGED <<aliases, edges, queued, extracted, known, lateForms, scanVars, faults>>

\* It names one of the nodes it was shown.  An alias is written if it gives a
\* canonical name, which is optional, and it is another one.
CommitResolved(x) ==
    /\ work[x].at = "resolved"
    /\ \E n \in work[x].answer.hits, at \in {"facts", "alias"} :
          work' = [work EXCEPT ![x] = Settled(work[x].record, at, n)]
    /\ UNCHANGED <<graphVars, extracted, unasked, known, lateForms, scanVars, faults>>

\* _commit_seed: the entity of a seed is created, whatever the graph knows;
\* an alias follows if the seed lists one.
CommitSeed(x, r) ==
    /\ work[x].at = "idle"
    /\ r \in Seeds
    /\ Untaken(r)
    /\ \E n \in 1 .. Len(nodes) + 1, at \in {"facts", "alias"} :
          /\ CreateEntity(Name[r], Ident[r], n)
          /\ work' = [work EXCEPT ![x] = Settled(r, at, n)]
          /\ unasked' = IF nodes' # nodes THEN unasked \union {n} ELSE unasked
    /\ UNCHANGED <<aliases, edges, queued, extracted, known, lateForms, scanVars, faults>>

FindAlias(x) ==
    LET found == AliasEdges(work[x].node, Form[work[x].record]) IN
    /\ work[x].at = "alias"
    /\ \E records \in IF found = {} THEN {{}} ELSE {aliases[a].records : a \in found} :
          work' = [work EXCEPT ![x] = [@ EXCEPT !.at = "aliasing", !.records = records]]
    /\ UNCHANGED <<graphVars, extracted, unasked, known, lateForms, scanVars, faults>>

CommitAlias(x) ==
    LET n == work[x].node
        r == work[x].record
    IN
    /\ work[x].at = "aliasing"
    /\ WriteAlias(n, Form[r], work[x].records, r)
    /\ known' = known \union {<<n, Form[r], r>>}
    /\ lateForms' = IF \E a \in AliasEdges(n, Form[r]) : aliases[a].records # work[x].records
                    THEN lateForms \union {<<n, Form[r]>>}
                    ELSE lateForms
    /\ work' = [work EXCEPT ![x] = [@ EXCEPT !.at = "facts", !.records = {}]]
    /\ UNCHANGED <<nodes, edges, queued, extracted, unasked, scanVars, faults>>

\* The facts are written one by one, to the second entity they name or else
\* to their day.  Which entities are second is left open.
CommitFact(x, f) ==
    /\ work[x].at = "facts"
    /\ f \in work[x].left
    /\ \E to \in {0} \union {n \in NodeIds : f \in Relational} : WriteFact(f, work[x].node, to)
    /\ work' = [work EXCEPT ![x].left = @ \ {f}]
    /\ UNCHANGED <<nodes, aliases, queued, extracted, unasked, known, lateForms, scanVars,
                   faults>>

\* A fact whose subject the agent does not list is passed over.
SkipFact(x, f) ==
    /\ work[x].at = "facts"
    /\ f \in work[x].left
    /\ work' = [work EXCEPT ![x].left = @ \ {f}]
    /\ UNCHANGED <<graphVars, extracted, unasked, known, lateForms, scanVars, faults>>

\* All is written.
MarkIndexed(x) ==
    /\ work[x].at = "facts"
    /\ work[x].left = {}
    /\ extracted' = extracted \union {work[x].record}
    /\ work' = [work EXCEPT ![x].at = "indexed"]
    /\ UNCHANGED <<graphVars, unasked, known, lateForms, scanVars, faults>>

Enqueue(x) ==
    /\ work[x].at = "indexed"
    /\ queued' = queued \union {work[x].record}
    /\ work' = [work EXCEPT ![x] = NoWork]
    /\ UNCHANGED <<nodes, aliases, edges, extracted, unasked, known, lateForms, scanVars,
                   faults>>

\* A write raises, or the process dies: what was written stays, and the record
\* is taken again unless it was marked already.  A failing enqueue is logged.
ExtractionFails(x) ==
    /\ work[x].at # "idle"
    /\ Fault
    /\ work' = [work EXCEPT ![x] = NoWork]
    /\ UNCHANGED <<graphVars, extracted, unasked, known, lateForms, scanVars>>

-----------------------------------------------------------------------------
(* Curation *)

CuratorAt(c, at) == scan[c].at = at

\* A record no one has claimed, or whose claim timed out; then the first
\* read of _scan_expired, on whatever day it is by then.
Claim(c, r) ==
    /\ CuratorAt(c, "idle")
    /\ r \in queued
    /\ IF \E d \in Curators : scan[d].record = r THEN Fault ELSE UNCHANGED faults
    /\ \E past \in SUBSET Dated :
          scan' = [scan EXCEPT ![c] = [NoScan EXCEPT !.at = "expiring", !.record = r,
                                                     !.todo = ExpiredCommitments(past)]]
    /\ UNCHANGED <<graphVars, workVars, curated, compared, judged>>

Expire(c, e) ==
    /\ CuratorAt(c, "expiring")
    /\ e \in scan[c].todo
    /\ MarkFactStale(e, 0)
    /\ scan' = [scan EXCEPT ![c].todo = @ \ {e}]
    /\ UNCHANGED <<nodes, aliases, queued, workVars, curated, compared, judged, faults>>

\* _scan_confidence_upgrades, and the edges _scan_superseded will go through.
UpgradeAndScan(c) ==
    /\ CuratorAt(c, "expiring")
    /\ scan[c].todo = {}
    /\ edges' = [e \in EdgeIds |->
                   [edges[e] EXCEPT !.stated = edges[e].stated \/ e \in Upgradable]]
    /\ scan' = [scan EXCEPT ![c] = [@ EXCEPT !.at = "scanning",
                                             !.triggers = EdgesOf(scan[c].record)]]
    /\ UNCHANGED <<nodes, aliases, queued, workVars, curated, compared, judged, faults>>

\* The siblings of a trigger are read and judged.  The judge is an LLM: what it
\* says of each sibling is open, and so is what it leaves out.
Judge(c, t) ==
    LET siblings == Siblings(t, scan[c].record) IN
    /\ CuratorAt(c, "scanning")
    /\ t \in scan[c].triggers
    /\ compared' = compared \union {{t, s} : s \in siblings}
    /\ \E older \in SUBSET siblings, newer \in SUBSET siblings :
          /\ judged' = judged \union ({t} \X older) \union (newer \X {t})
          /\ scan' = [scan EXCEPT ![c] = [@ EXCEPT !.at = "marking", !.trigger = t,
                        !.triggers = scan[c].triggers \ {t},
                        !.todo = older, !.newer = newer]]
    /\ UNCHANGED <<graphVars, workVars, curated, faults>>

\* MUTANT: trigger and sibling change places.
MarkTriggerInstead(c, s) ==
    /\ CuratorAt(c, "marking")
    /\ s \in scan[c].todo
    /\ MarkFactStale(scan[c].trigger, s)
    /\ scan' = [scan EXCEPT ![c].todo = @ \ {s}]
    /\ UNCHANGED <<nodes, aliases, queued, workVars, curated, compared, judged, faults>>

\* trigger_supersedes_sibling.
MarkSibling(c, s) ==
    /\ CuratorAt(c, "marking")
    /\ s \in scan[c].todo
    /\ MarkFactStale(s, scan[c].trigger)
    /\ scan' = [scan EXCEPT ![c].todo = @ \ {s}]
    /\ UNCHANGED <<nodes, aliases, queued, workVars, curated, compared, judged, faults>>

\* sibling_supersedes_trigger: the freshest of them is the successor.
MarkTrigger(c) ==
    /\ CuratorAt(c, "marking")
    /\ scan[c].todo = {}
    /\ IF scan[c].newer = {}
       THEN UNCHANGED edges
       ELSE \E w \in scan[c].newer :
               /\ \A s \in scan[c].newer :
                     SourceAt[edges[s].fact] <= SourceAt[edges[w].fact]
               /\ MarkFactStale(scan[c].trigger, w)
    /\ scan' = [scan EXCEPT ![c] = [@ EXCEPT !.at = "scanning", !.trigger = 0, !.newer = {}]]
    /\ UNCHANGED <<nodes, aliases, queued, workVars, curated, compared, judged, faults>>

\* _delete_entry.
Curated(c) ==
    /\ CuratorAt(c, "scanning")
    /\ scan[c].triggers = {}
    /\ queued' = queued \ {scan[c].record}
    /\ curated' = curated \union {scan[c].record}
    /\ scan' = [scan EXCEPT ![c] = NoScan]
    /\ UNCHANGED <<nodes, aliases, edges, workVars, compared, judged, faults>>

\* The judge or the graph raises, or the process dies: the claim is released
\* then or later, and the record curated again from the beginning.
CurationFails(c) ==
    /\ ~CuratorAt(c, "idle")
    /\ Fault
    /\ scan' = [scan EXCEPT ![c] = NoScan]
    /\ UNCHANGED <<graphVars, workVars, curated, compared, judged>>

-----------------------------------------------------------------------------

Next ==
    \/ \E x \in Extractors :
          \/ \E r \in Records : IndexNothing(x, r) \/ Resolve(x, r) \/ CommitSeed(x, r)
          \/ CommitNew(x) \/ CommitResolved(x) \/ FindAlias(x) \/ CommitAlias(x)
          \/ \E f \in Facts : CommitFact(x, f) \/ SkipFact(x, f)
          \/ MarkIndexed(x) \/ Enqueue(x) \/ ExtractionFails(x)
    \/ \E c \in Curators :
          \/ \E r \in Records : Claim(c, r)
          \/ \E e \in EdgeIds : Expire(c, e) \/ Judge(c, e) \/ MarkSibling(c, e)
          \/ UpgradeAndScan(c) \/ MarkTrigger(c) \/ Curated(c) \/ CurationFails(c)

Spec == Init /\ [][Next]_vars

-----------------------------------------------------------------------------
(* Properties *)

\* Two facts told of one entity, of which it is the subject, were put to the
\* judge together if both their records were curated, whichever record came, was
\* finished or was curated first, and whatever failed in between: supersession
\* is scanned per record (curation.py:216) and no later pass would find the pair.
FactsToldWereCompared ==
    \A n \in NodeIds : \A d, e \in FactsForEntity(n) :
        /\ edges[d].from = edges[e].from
        /\ SourceIds(d) \cap SourceIds(e) = {}
        /\ (SourceIds(d) \union SourceIds(e)) \subseteq curated
        => {d, e} \in compared

\* The judge never had each of some facts supersede the next one in a circle.
JudgeConsistent ==
    \A S \in (SUBSET EdgeIds) \ {{}} : \E e \in S : \A d \in S : <<d, e>> \notin judged

\* The timeline of a fact (graph.py:849) has one end, a fact nothing has
\* replaced, if the judge does not contradict itself: although a stale fact can
\* be a trigger again and have its successor rewritten, and two curators may
\* judge a pair from both sides.
TimelineHasOneEnd ==
    JudgeConsistent =>
        \A e \in EdgeIds : Cardinality(FactHistory(e)) <= MaxChain =>
            Cardinality({h \in FactHistory(e) : edges[h].replacedBy = 0}) = 1

\* A record for which an alias was written is kept with it, however many
\* records and reruns follow (graph.py:651, "appends source_record to
\* source_records"), unless one extraction wrote the alias between the lookup
\* and the write of another.
AliasesKeepTheirRecords ==
    \A k \in known : <<k[1], k[2]>> \in lateForms \/
        \E a \in AliasEdges(k[1], k[2]) : k[3] \in aliases[a].records

\* An entity that gets the email or domain of an older one, under whatever name,
\* was created by a seed, or on an answer of resolve_entity that was outdated or
\* not asked for by that email or domain (graph_access_tools.py:321,
\* graph.py:207, extraction.py:499).
OneNodePerIdentifier ==
    \A m, n \in NodeIds :
        m < n /\ nodes[m].ident = nodes[n].ident /\ nodes[m].ident # NoIdent => n \in unasked
=============================================================================
