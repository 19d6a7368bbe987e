------------------------ MODULE KnowledgeGraph_proofs -----------------------
(***************************************************************************)
(* Theorems about KnowledgeGraph, for any records, names, identifiers and  *)
(* facts, any judge and any number of processes.                           *)
(***************************************************************************)
EXTENDS KnowledgeGraph, TLAPS, SequenceTheorems, FiniteSetTheorems

-----------------------------------------------------------------------------
(* The invariants. *)

Node  == [name : Names, ident : Idents \union {NoIdent}]
Alias == [node : Nat, form : Names, records : SUBSET Records]

\* A fact edge has one source, the record that states the fact: the
\* extraction only ever appends a record that is there already.
EdgeOK(e) ==
    /\ edges[e].from \in NodeIds
    /\ edges[e].to \in NodeIds \union {0}
    /\ edges[e].replacedBy \in EdgeIds \union {0}
    /\ edges[e].replacedBy # 0 => edges[e].stale
    /\ edges[e].replacedBy # 0 => <<edges[e].replacedBy, e>> \in judged
    /\ edges[e].sources = {<<RecordOf[edges[e].fact], edges[e].fact \notin Inferred>>}

GraphOK ==
    /\ nodes \in Seq(Node)
    /\ aliases \in Seq(Alias)
    /\ \A a \in DOMAIN aliases : aliases[a].node \in NodeIds
    /\ edges \in Seq(Edges)
    /\ \A e \in EdgeIds : EdgeOK(e)

\* The records that have reached curation.
Sent == queued \union curated

Works ==
    [at : {"idle", "resolved", "alias", "aliasing", "facts", "indexed"},
     record : Records \union {NoRecord},
     answer : [definitive : BOOLEAN, hits : SUBSET Nat],
     asOf : Nat, node : Nat, records : SUBSET Records, left : SUBSET Facts]

\* An answer that names no node by its identifier was given when there was
\* none; a record is queued by the process that marked it, once.
WorkOK(w) ==
    /\ w \in Works
    /\ w.at = "idle" => w = NoWork
    /\ w.at # "idle" => w.record \in Records
    /\ w.at \notin {"idle", "indexed"} => w.record \notin extracted
    /\ w.at = "indexed" => w.record \in extracted \ Sent
    /\ w.left \subseteq FactsOf(w.record)
    /\ w.at = "resolved" =>
          /\ w.answer.hits \subseteq NodeIds
          /\ w.asOf <= Len(nodes)
          /\ ~w.answer.definitive /\ Ident[w.record] # NoIdent =>
                \A n \in 1 .. w.asOf : nodes[n].ident # Ident[w.record]
    /\ w.at \in {"idle", "resolved"} => w.node = 0
    /\ w.at \in {"alias", "aliasing", "facts", "indexed"} => w.node \in NodeIds
    /\ w.at = "aliasing" /\ w.records # {} => AliasEdges(w.node, Form[w.record]) # {}

WorksOK ==
    /\ DOMAIN work = Extractors
    /\ \A x \in Extractors : WorkOK(work[x])
    /\ \A x, y \in Extractors : work[x].record = work[y].record =>
          x = y \/ work[x].record = NoRecord

Scans ==
    [at : {"idle", "expiring", "scanning", "marking"}, record : Records \union {NoRecord},
     todo : SUBSET Nat, triggers : SUBSET Nat, trigger : Nat, newer : SUBSET Nat]

\* The judge found that a supersedes b.
Supersedes(a, b) == <<a, b>> \in judged

ScanOK(s) ==
    /\ s \in Scans
    /\ s.at # "idle" => s.record \in Sent
    /\ s.todo \union s.triggers \union s.newer \subseteq EdgeIds
    /\ s.trigger \in EdgeIds \union {0}
    /\ \A e \in s.triggers : RecordOf[edges[e].fact] = s.record
    /\ s.at = "marking" =>
          /\ s.trigger \in EdgeIds
          /\ \A e \in s.todo : Supersedes(s.trigger, e)
          /\ \A e \in s.newer : Supersedes(e, s.trigger)

ScansOK ==
    /\ DOMAIN scan = Curators
    /\ \A c \in Curators : ScanOK(scan[c])

RestOK ==
    /\ Sent \subseteq extracted
    /\ queued \cap curated = {}
    /\ extracted \subseteq Records
    /\ compared \in SUBSET SUBSET EdgeIds
    /\ judged \in SUBSET (EdgeIds \X EdgeIds)
    /\ unasked \in SUBSET NodeIds
    /\ known \in SUBSET (NodeIds \X Names \X Records)
    /\ lateForms \in SUBSET (NodeIds \X Names)
    /\ faults \in 0 .. MaxFaults

Types == GraphOK /\ WorksOK /\ ScansOK /\ RestOK

\* The fact on edge e will still be put to the judge with what else is said
\* of its subject: its record is queued, and no scan of it is past the edge.
Pending(e) ==
    LET r == RecordOf[edges[e].fact] IN
    /\ r \in queued
    /\ \A c \in Curators : scan[c].record = r /\ scan[c].at \in {"scanning", "marking"} =>
          e \in scan[c].triggers

\* Two facts told of one subject by different records that reached curation:
\* one of the two is still to be judged if they were not put to the judge
\* together.
Rivals(d, e) ==
    /\ edges[d].from = edges[e].from
    /\ ~edges[d].stale /\ ~edges[e].stale
    /\ RecordOf[edges[d].fact] # RecordOf[edges[e].fact]
    /\ RecordOf[edges[d].fact] \in Sent
    /\ RecordOf[edges[e].fact] \in Sent

RivalsMeet ==
    \A d, e \in EdgeIds : Rivals(d, e) =>
        {d, e} \in compared \/ Pending(d) \/ Pending(e)

\* What no step undoes in the graph: entities, the name and the identifier
\* they have, aliases, and facts.
Grows ==
    /\ GraphOK'
    /\ Len(nodes) <= Len(nodes')
    /\ \A n \in NodeIds : n \in DOMAIN nodes' /\ nodes'[n] = nodes[n]
    /\ \A e \in EdgeIds :
          /\ e \in DOMAIN edges'
          /\ edges'[e].fact = edges[e].fact
          /\ edges'[e].from = edges[e].from
          /\ edges[e].stale => edges'[e].stale
    /\ \A n \in NodeIds, r \in Records :
          AliasEdges(n, Form[r]) # {} => AliasEdges(n, Form[r])' # {}
    /\ judged \subseteq judged'

-----------------------------------------------------------------------------
(* Facts about the operators. *)

\* A sequence with one more element.
LEMMA Appended ==
    ASSUME NEW T, NEW s \in Seq(T), NEW v \in T
    PROVE  /\ Append(s, v) \in Seq(T)
           /\ Len(s) \in Nat /\ DOMAIN s = 1 .. Len(s)
           /\ Len(Append(s, v)) = Len(s) + 1
           /\ DOMAIN Append(s, v) = 1 .. Len(s) + 1
           /\ \A i \in 1 .. Len(s) : Append(s, v)[i] = s[i]
           /\ Append(s, v)[Len(s) + 1] = v
OBVIOUS

\* A function on the places of a sequence is a sequence of that length.
LEMMA SamePlaces ==
    ASSUME NEW T, NEW U, NEW s \in Seq(T), NEW t \in [DOMAIN s -> U]
    PROVE  t \in Seq(U) /\ DOMAIN t = DOMAIN s
<1>1. Len(s) \in Nat /\ DOMAIN s = 1 .. Len(s)
  OBVIOUS
<1>2. t \in [1 .. Len(s) -> U]
  BY <1>1
<1>3. t \in Seq(U)
  BY <1>1, <1>2, SeqDef
<1>4. QED
  BY <1>3

\* The sources of an edge are the record that states its fact.
LEMMA OneSource ==
    ASSUME NEW e \in EdgeIds, EdgeOK(e)
    PROVE  SourceIds(e) = {RecordOf[edges[e].fact]}
BY DEF EdgeOK, SourceIds

\* What an edge is made of.
LEMMA EdgeFields ==
    ASSUME GraphOK, NEW e \in EdgeIds
    PROVE  /\ edges[e] \in Edges /\ edges[e].fact \in Facts /\ edges[e].from \in NodeIds
           /\ RecordOf[edges[e].fact] \in Records
<1>1. edges[e] \in Edges
  BY DEF GraphOK, EdgeIds
<1>2. edges[e].from \in NodeIds
  BY DEF GraphOK, EdgeOK
<1>3. QED
  BY <1>1, <1>2, GraphAssumption DEF Edges

\* The types of the specification follow.
LEMMA TypesSuffice == Types => TypeOK
<1> SUFFICES ASSUME Types PROVE TypeOK
  OBVIOUS
<1>1. aliases \in Seq([node : NodeIds, form : Names, records : SUBSET Records])
  <2>1. aliases \in [DOMAIN aliases -> [node : NodeIds, form : Names, records : SUBSET Records]]
    <3>1. aliases \in Seq(Alias)
      BY DEF Types, GraphOK
    <3>2. aliases = [a \in DOMAIN aliases |-> aliases[a]]
      BY <3>1
    <3>3. \A a \in DOMAIN aliases : aliases[a] \in Alias /\ aliases[a].node \in NodeIds
      BY <3>1 DEF Types, GraphOK
    <3>4. \A a \in DOMAIN aliases :
             aliases[a] \in [node : NodeIds, form : Names, records : SUBSET Records]
      BY <3>3 DEF Alias
    <3>5. QED
      BY <3>2, <3>4
  <2>2. QED
    BY <2>1, SamePlaces DEF Types, GraphOK
<1>2. GraphTypeOK
  BY <1>1 DEF Types, GraphOK, GraphTypeOK, Node, EdgeOK, RestOK, Sent
<1>3. ASSUME NEW x \in Extractors
      PROVE  /\ work[x].at \in {"idle", "resolved", "alias", "aliasing", "facts", "indexed"}
             /\ work[x].record \in Records \union {NoRecord}
             /\ work[x].node \in NodeIds \union {0}
             /\ work[x].left \subseteq Facts
  BY DEF Types, WorksOK, WorkOK, Works
<1>4. ASSUME NEW c \in Curators
      PROVE  /\ scan[c].at \in {"idle", "expiring", "scanning", "marking"}
             /\ scan[c].record \in Records \union {NoRecord}
             /\ scan[c].todo \union scan[c].triggers \union scan[c].newer \subseteq EdgeIds
             /\ scan[c].trigger \in EdgeIds \union {0}
  BY DEF Types, ScansOK, ScanOK, Scans
<1>5. QED
  BY <1>2, <1>3, <1>4 DEF TypeOK, Types, RestOK, Sent

-----------------------------------------------------------------------------
(* What a step does to the graph. *)

\* Only these actions write entities, and say which were created unasked.
LEMMA NodesStep ==
    ASSUME [Next]_vars
    PROVE  \/ UNCHANGED <<nodes, unasked>>
           \/ \E x \in Extractors : CommitNew(x) \/ \E r \in Records : CommitSeed(x, r)
BY ZenonT(60)
   DEF Next, vars, graphVars, workVars, IndexNothing, Resolve, CommitResolved, FindAlias,
       CommitAlias, CommitFact, SkipFact, MarkIndexed, Enqueue, ExtractionFails, Claim, Expire,
       UpgradeAndScan, Judge, MarkSibling, MarkTrigger, Curated, CurationFails

\* Only this action writes aliases.
LEMMA AliasesStep ==
    ASSUME [Next]_vars
    PROVE  UNCHANGED <<aliases, known, lateForms>> \/ \E x \in Extractors : CommitAlias(x)
BY ZenonT(60)
   DEF Next, vars, graphVars, workVars, IndexNothing, Resolve, CommitNew, CommitResolved,
       CommitSeed, FindAlias, CommitFact, SkipFact, MarkIndexed, Enqueue, ExtractionFails,
       Claim, Expire, UpgradeAndScan, Judge, MarkSibling, MarkTrigger, Curated, CurationFails

\* Only these write edges.
LEMMA EdgesStep ==
    ASSUME [Next]_vars
    PROVE  \/ UNCHANGED edges
           \/ \E x \in Extractors, f \in Facts : CommitFact(x, f)
           \/ \E c \in Curators :
                 \/ UpgradeAndScan(c) \/ MarkTrigger(c)
                 \/ \E e \in EdgeIds : Expire(c, e) \/ MarkSibling(c, e)
BY ZenonT(60)
   DEF Next, vars, graphVars, IndexNothing, Resolve, CommitNew, CommitResolved, CommitSeed,
       FindAlias, CommitAlias, SkipFact, MarkIndexed, Enqueue, ExtractionFails, Claim, Judge,
       Curated, CurationFails

\* Only the judge compares facts and says what supersedes what.
LEMMA JudgeStep ==
    ASSUME [Next]_vars
    PROVE  \/ UNCHANGED <<compared, judged>>
           \/ \E c \in Curators, t \in EdgeIds : Judge(c, t)
BY ZenonT(60)
   DEF Next, vars, scanVars, IndexNothing, Resolve, CommitNew, CommitResolved, CommitSeed,
       FindAlias, CommitAlias, CommitFact, SkipFact, MarkIndexed, Enqueue, ExtractionFails,
       Claim, Expire, UpgradeAndScan, MarkSibling, MarkTrigger, Curated, CurationFails

\* Only these mark a record indexed, queue it or take it off the queue.
LEMMA QueueStep ==
    ASSUME [Next]_vars
    PROVE  \/ UNCHANGED <<queued, extracted, curated>>
           \/ \E x \in Extractors :
                 \/ \E r \in Records : IndexNothing(x, r)
                 \/ MarkIndexed(x) \/ Enqueue(x)
           \/ \E c \in Curators : Curated(c)
BY ZenonT(60)
   DEF Next, vars, graphVars, workVars, scanVars, Resolve, CommitNew, CommitResolved,
       CommitSeed, FindAlias, CommitAlias, CommitFact, SkipFact, ExtractionFails, Claim,
       Expire, UpgradeAndScan, Judge, MarkSibling, MarkTrigger, CurationFails

\* An entity stays, with its name and its identifier.
LEMMA NodesGrow ==
    ASSUME Types, [Next]_vars
    PROVE  /\ nodes' \in Seq(Node) /\ Len(nodes) <= Len(nodes')
           /\ \A n \in NodeIds : n \in DOMAIN nodes' /\ nodes'[n] = nodes[n]
<1>1. CASE UNCHANGED nodes
  BY <1>1 DEF Types, GraphOK, NodeIds
<1>2. ASSUME NEW r \in Records, NEW n, CreateEntity(Name[r], Ident[r], n)
      PROVE  /\ nodes' \in Seq(Node) /\ Len(nodes) <= Len(nodes')
             /\ \A m \in NodeIds : m \in DOMAIN nodes' /\ nodes'[m] = nodes[m]
  <2> DEFINE v == [name |-> Name[r], ident |-> Ident[r]]
  <2>1. v \in Node
    BY WorkAssumption DEF Node
  <2>2. nodes' = nodes \/ nodes' = Append(nodes, v)
    BY <1>2 DEF CreateEntity
  <2> HIDE DEF v
  <2>3. nodes \in Seq(Node)
    BY DEF Types, GraphOK
  <2>4. QED
    BY <2>1, <2>2, <2>3, Appended DEF NodeIds
<1>3. ASSUME NEW x \in Extractors, CommitNew(x) \/ \E r \in Records : CommitSeed(x, r)
      PROVE  \E r \in Records, n \in Nat : CreateEntity(Name[r], Ident[r], n)
  <2>1. CommitNew(x) => work[x].record \in Records
    BY DEF CommitNew, Types, WorksOK, WorkOK
  <2>2. Len(nodes) + 1 \in Nat
    BY DEF Types, GraphOK
  <2>3. QED
    BY <1>3, <2>1, <2>2 DEF CommitNew, CommitSeed
<1>4. QED
  BY <1>1, <1>2, <1>3, NodesStep

\* The alias CommitAlias writes.
LEMMA AliasWritten ==
    ASSUME Types, NEW x \in Extractors, CommitAlias(x)
    PROVE  LET n == work[x].node
               r == work[x].record
           IN /\ aliases' \in Seq(Alias)
              /\ \A a \in DOMAIN aliases :
                    /\ a \in DOMAIN aliases'
                    /\ aliases'[a].node = aliases[a].node /\ aliases'[a].form = aliases[a].form
                    /\ \/ aliases'[a].records = aliases[a].records
                       \/ /\ a \in AliasEdges(n, Form[r]) /\ r \in aliases'[a].records
                          /\ aliases[a].records # work[x].records \/
                             aliases[a].records \subseteq aliases'[a].records
              /\ \A a \in DOMAIN aliases' : aliases'[a].node \in NodeIds
              /\ \E a \in DOMAIN aliases' :
                    /\ aliases'[a].node = n /\ aliases'[a].form = Form[r]
                    /\ r \in aliases'[a].records
<1> DEFINE n == work[x].node
           r == work[x].record
           form == Form[r]
           found == work[x].records
           v == [node |-> n, form |-> form, records |-> {r}]
<1>1. /\ n \in NodeIds /\ n \in Nat /\ r \in Records /\ form \in Names
      /\ found \in SUBSET Records
      /\ found # {} => AliasEdges(n, form) # {}
  <2>1. WorkOK(work[x]) /\ work[x].at = "aliasing"
    BY DEF Types, WorksOK, CommitAlias
  <2>2. QED
    BY <2>1, WorkAssumption DEF WorkOK, Works
<1>2. aliases \in Seq(Alias) /\ \A a \in DOMAIN aliases : aliases[a].node \in NodeIds
  BY DEF Types, GraphOK
<1>3. CASE found = {}
  <2>1. aliases' = Append(aliases, v)
    BY <1>3 DEF CommitAlias, WriteAlias
  <2>2. v \in Alias /\ v.node = n /\ v.form = form /\ v.records = {r}
    BY <1>1 DEF Alias
  <2> HIDE DEF n, r, form, v
  <2>3. /\ aliases' \in Seq(Alias)
        /\ Len(aliases) \in Nat /\ DOMAIN aliases = 1 .. Len(aliases)
        /\ DOMAIN aliases' = 1 .. Len(aliases) + 1
        /\ \A i \in 1 .. Len(aliases) : aliases'[i] = aliases[i]
        /\ aliases'[Len(aliases) + 1] = v
    BY <1>2, <2>1, <2>2, Appended
  <2>4. \A a \in DOMAIN aliases : a \in DOMAIN aliases' /\ aliases'[a] = aliases[a]
    BY <2>3
  <2>5. \A a \in DOMAIN aliases' : aliases'[a].node \in NodeIds
    <3> SUFFICES ASSUME NEW a \in DOMAIN aliases' PROVE aliases'[a].node \in NodeIds
      OBVIOUS
    <3>1. CASE a \in DOMAIN aliases
      BY <1>2, <2>4, <3>1
    <3>2. CASE a = Len(aliases) + 1
      BY <1>1, <2>2, <2>3, <3>2
    <3>3. QED
      BY <2>3, <3>1, <3>2
  <2>6. Len(aliases) + 1 \in DOMAIN aliases'
    BY <2>3
  <2>7. QED
    BY <2>2, <2>3, <2>4, <2>5, <2>6 DEF n, r, form
<1>4. CASE found # {}
  <2>1. aliases' = [a \in DOMAIN aliases |->
                      IF a \in AliasEdges(n, form)
                      THEN [aliases[a] EXCEPT !.records = found \union {r}]
                      ELSE aliases[a]]
    BY <1>4 DEF CommitAlias, WriteAlias
  <2> HIDE DEF n, r, form, found, v
  <2>2. \A a \in DOMAIN aliases : aliases[a] \in Alias
    BY <1>2
  <2>3. \A a \in DOMAIN aliases :
           /\ aliases'[a] \in Alias
           /\ aliases'[a].node = aliases[a].node /\ aliases'[a].form = aliases[a].form
           /\ aliases'[a].records = IF a \in AliasEdges(n, form) THEN found \union {r}
                                                                 ELSE aliases[a].records
    BY <1>1, <2>1, <2>2 DEF Alias
  <2>4. aliases' \in Seq(Alias) /\ DOMAIN aliases' = DOMAIN aliases
    <3>1. aliases' \in [DOMAIN aliases -> Alias]
      BY <2>1, <2>3
    <3>2. QED
      BY <1>2, <3>1, SamePlaces
  <2>5. PICK a \in AliasEdges(n, form) : TRUE
    BY <1>1, <1>4
  <2>6. /\ a \in DOMAIN aliases' /\ aliases'[a].node = n /\ aliases'[a].form = form
        /\ r \in aliases'[a].records
    BY <2>3, <2>4, <2>5 DEF AliasEdges
  <2>7. QED
    BY <1>2, <2>3, <2>4, <2>6 DEF n, r, form, found
<1>5. QED
  BY <1>3, <1>4

\* An alias stays, and so do the records kept with it unless another wrote in
\* between.
LEMMA AliasesGrow ==
    ASSUME Types, [Next]_vars
    PROVE  /\ aliases' \in Seq(Alias)
           /\ lateForms \subseteq lateForms'
           /\ lateForms' \subseteq NodeIds \X Names
           /\ \A a \in DOMAIN aliases' : aliases'[a].node \in NodeIds
           /\ \A a \in DOMAIN aliases :
                 /\ a \in DOMAIN aliases'
                 /\ aliases'[a].node = aliases[a].node /\ aliases'[a].form = aliases[a].form
                 /\ <<aliases[a].node, aliases[a].form>> \in lateForms' \/
                    aliases[a].records \subseteq aliases'[a].records
<1>1. CASE UNCHANGED <<aliases, known, lateForms>>
  BY <1>1 DEF Types, GraphOK, RestOK
<1>2. ASSUME NEW x \in Extractors, CommitAlias(x)
      PROVE  /\ aliases' \in Seq(Alias)
             /\ lateForms \subseteq lateForms'
             /\ lateForms' \subseteq NodeIds \X Names
             /\ \A a \in DOMAIN aliases' : aliases'[a].node \in NodeIds
             /\ \A a \in DOMAIN aliases :
                   /\ a \in DOMAIN aliases'
                   /\ aliases'[a].node = aliases[a].node /\ aliases'[a].form = aliases[a].form
                   /\ <<aliases[a].node, aliases[a].form>> \in lateForms' \/
                      aliases[a].records \subseteq aliases'[a].records
  <2>1. work[x].node \in NodeIds /\ Form[work[x].record] \in Names
    <3>1. WorkOK(work[x]) /\ work[x].at = "aliasing"
      BY <1>2 DEF Types, WorksOK, CommitAlias
    <3>2. QED
      BY <3>1, WorkAssumption DEF WorkOK
  <2>2. /\ lateForms \subseteq lateForms'
        /\ lateForms' \subseteq lateForms \union {<<work[x].node, Form[work[x].record]>>}
    BY <1>2 DEF CommitAlias
  <2>3. lateForms' \subseteq NodeIds \X Names
    BY <2>1, <2>2 DEF Types, RestOK
  <2>4. ASSUME NEW a \in AliasEdges(work[x].node, Form[work[x].record]),
               aliases[a].records # work[x].records
        PROVE  <<aliases[a].node, aliases[a].form>> \in lateForms'
    BY <1>2, <2>4 DEF CommitAlias, AliasEdges
  <2>5. QED
    BY <1>2, <2>2, <2>3, <2>4, AliasWritten
<1>3. QED
  BY <1>1, <1>2, AliasesStep

\* What mark_fact_stale leaves of the edges.
MarkedStale(E, e, by) == [E EXCEPT ![e].stale = TRUE, ![e].replacedBy = by]

OnlyMarks(E, e, by, F) ==
    /\ F \in Seq(Edges) /\ DOMAIN F = DOMAIN E
    /\ \A d \in DOMAIN E :
          /\ F[d].fact = E[d].fact /\ F[d].from = E[d].from /\ F[d].to = E[d].to
          /\ F[d].sources = E[d].sources
          /\ F[d].stale = IF d = e THEN TRUE ELSE E[d].stale
          /\ F[d].replacedBy = IF d = e THEN by ELSE E[d].replacedBy

\* mark_fact_stale marks the edge it is given and no other.
LEMMA Marked ==
    ASSUME NEW E, NEW e, NEW by, NEW F, E \in Seq(Edges), e \in DOMAIN E, by \in Nat,
           F = MarkedStale(E, e, by)
    PROVE  OnlyMarks(E, e, by, F)
<1>1. \A d \in DOMAIN E : E[d] \in Edges
  OBVIOUS
<1>2. DOMAIN F = DOMAIN E
  BY DEF MarkedStale
<1>3. \A d \in DOMAIN E : d # e => F[d] = E[d]
  BY DEF MarkedStale
<1>4. F[e] = [E[e] EXCEPT !.stale = TRUE, !.replacedBy = by]
  BY DEF MarkedStale
<1>5. /\ F[e] \in Edges /\ F[e].fact = E[e].fact /\ F[e].from = E[e].from
      /\ F[e].to = E[e].to
      /\ F[e].sources = E[e].sources /\ F[e].stale = TRUE /\ F[e].replacedBy = by
  BY <1>1, <1>4 DEF Edges
<1>6. \A d \in DOMAIN E : E[d].stale \in BOOLEAN
  BY <1>1 DEF Edges
<1>7. F \in Seq(Edges)
  <2>1. F = [d \in DOMAIN E |-> F[d]]
    BY DEF MarkedStale
  <2>2. \A d \in DOMAIN E : F[d] \in Edges
    BY <1>1, <1>3, <1>5
  <2>3. F \in [DOMAIN E -> Edges]
    BY <2>1, <2>2
  <2>4. QED
    BY <2>3, SamePlaces
<1>8. \A d \in DOMAIN E :
         /\ F[d].fact = E[d].fact /\ F[d].from = E[d].from /\ F[d].to = E[d].to
         /\ F[d].sources = E[d].sources
         /\ F[d].stale = IF d = e THEN TRUE ELSE E[d].stale
         /\ F[d].replacedBy = IF d = e THEN by ELSE E[d].replacedBy
  BY <1>3, <1>5, <1>6
<1>9. QED
  BY <1>2, <1>7, <1>8 DEF OnlyMarks

\* The edges that were there after a step that writes no new one.
SameFacts ==
    /\ edges' \in Seq(Edges) /\ DOMAIN edges' = EdgeIds
    /\ \A d \in EdgeIds :
          /\ edges'[d].fact = edges[d].fact /\ edges'[d].from = edges[d].from
          /\ edges'[d].to = edges[d].to
          /\ edges'[d].sources = edges[d].sources
          /\ edges[d].stale => edges'[d].stale
          /\ \/ /\ edges'[d].replacedBy = edges[d].replacedBy
                /\ edges'[d].stale = edges[d].stale
             \/ /\ edges'[d].stale
                /\ edges'[d].replacedBy \in EdgeIds \union {0}
                /\ edges'[d].replacedBy # 0 => Supersedes(edges'[d].replacedBy, d)

\* What curation marks stale is expired, or superseded by what it is given as
\* its successor.
LEMMA MarkKeepsFacts ==
    ASSUME Types, NEW e \in EdgeIds, NEW by \in EdgeIds \union {0}, MarkFactStale(e, by),
           by # 0 => Supersedes(by, e)
    PROVE  SameFacts
<1>1. edges \in Seq(Edges) /\ EdgeIds = DOMAIN edges /\ by \in Nat
  BY DEF Types, GraphOK, EdgeIds
<1>2. PICK F : F = edges'
  OBVIOUS
<1>3. F = MarkedStale(edges, e, by)
  BY <1>2 DEF MarkFactStale, MarkedStale
<1>4. /\ F \in Seq(Edges) /\ DOMAIN F = DOMAIN edges
      /\ \A d \in DOMAIN edges :
            /\ F[d].fact = edges[d].fact /\ F[d].from = edges[d].from
            /\ F[d].to = edges[d].to
            /\ F[d].sources = edges[d].sources
            /\ F[d].stale = IF d = e THEN TRUE ELSE edges[d].stale
            /\ F[d].replacedBy = IF d = e THEN by ELSE edges[d].replacedBy
  <2>1. edges \in Seq(Edges) /\ e \in DOMAIN edges /\ by \in Nat
    BY <1>1
  <2>2. OnlyMarks(edges, e, by, F)
    BY <1>3, <2>1, Marked
  <2>3. QED
    BY <2>2 DEF OnlyMarks
<1>5. \A d \in EdgeIds : edges[d].stale \in BOOLEAN
  <2>1. \A d \in EdgeIds : edges[d] \in Edges
    BY <1>1
  <2>2. QED
    BY <2>1 DEF Edges
<1>6. QED
  BY <1>1, <1>2, <1>4, <1>5 DEF SameFacts

\* The steps of curation that write edges write no new one.
LEMMA CurationKeepsFacts ==
    ASSUME Types, NEW c \in Curators,
           \/ UpgradeAndScan(c) \/ MarkTrigger(c)
           \/ \E e \in EdgeIds : Expire(c, e) \/ MarkSibling(c, e)
    PROVE  SameFacts
<1>1. ScanOK(scan[c]) /\ edges \in Seq(Edges) /\ EdgeIds = DOMAIN edges
  BY DEF Types, ScansOK, GraphOK, EdgeIds
<1>2. CASE UpgradeAndScan(c)
  <2>1. edges' = [e \in EdgeIds |->
                    [edges[e] EXCEPT !.stated = edges[e].stated \/ e \in Upgradable]]
    BY <1>2 DEF UpgradeAndScan
  <2>2. \A e \in EdgeIds :
           /\ edges'[e] \in Edges
           /\ edges'[e].fact = edges[e].fact /\ edges'[e].from = edges[e].from
           /\ edges'[e].to = edges[e].to
           /\ edges'[e].sources = edges[e].sources /\ edges'[e].stale = edges[e].stale
           /\ edges'[e].replacedBy = edges[e].replacedBy
    <3> SUFFICES ASSUME NEW e \in EdgeIds
                 PROVE  /\ edges'[e] \in Edges
                        /\ edges'[e].fact = edges[e].fact /\ edges'[e].from = edges[e].from
                        /\ edges'[e].to = edges[e].to
                        /\ edges'[e].sources = edges[e].sources
                        /\ edges'[e].stale = edges[e].stale
                        /\ edges'[e].replacedBy = edges[e].replacedBy
      OBVIOUS
    <3>1. PICK b : b = (edges[e].stated \/ e \in Upgradable)
      OBVIOUS
    <3>2. edges'[e] = [edges[e] EXCEPT !.stated = b]
      BY <2>1, <3>1
    <3>3. b \in BOOLEAN
      BY <3>1
    <3>4. edges[e] \in Edges
      BY <1>1
    <3>5. QED
      BY <3>2, <3>3, <3>4 DEF Edges
  <2>3. DOMAIN edges' = EdgeIds /\ edges' \in [DOMAIN edges -> Edges]
    BY <1>1, <2>1, <2>2
  <2>4. edges' \in Seq(Edges)
    BY <1>1, <2>3, SamePlaces
  <2>5. QED
    BY <2>2, <2>3, <2>4 DEF SameFacts
<1>3. ASSUME NEW e \in EdgeIds, Expire(c, e)
      PROVE  SameFacts
  BY <1>3, MarkKeepsFacts DEF Expire
<1>4. ASSUME NEW e \in EdgeIds, MarkSibling(c, e)
      PROVE  SameFacts
  <2>1. /\ MarkFactStale(e, scan[c].trigger) /\ scan[c].trigger \in EdgeIds
        /\ Supersedes(scan[c].trigger, e)
    BY <1>1, <1>4 DEF MarkSibling, CuratorAt, ScanOK
  <2>2. QED
    BY <2>1, MarkKeepsFacts
<1>5. CASE MarkTrigger(c)
  <2>1. CASE scan[c].newer = {}
    BY <1>1, <1>5, <2>1 DEF MarkTrigger, SameFacts
  <2>2. CASE scan[c].newer # {}
    <3>1. PICK w \in scan[c].newer : MarkFactStale(scan[c].trigger, w)
      BY <1>5, <2>2 DEF MarkTrigger
    <3>2. /\ scan[c].trigger \in EdgeIds /\ w \in EdgeIds
          /\ Supersedes(w, scan[c].trigger)
      BY <1>1, <1>5, <3>1 DEF MarkTrigger, CuratorAt, ScanOK
    <3>3. QED
      BY <3>1, <3>2, MarkKeepsFacts
  <2>3. QED
    BY <2>1, <2>2
<1>6. QED
  BY <1>2, <1>3, <1>4, <1>5

\* The edge CommitFact writes, if there is none for the fact.
FactEdge(f, n, to) ==
    [fact |-> f, from |-> n, to |-> to, stated |-> f \notin Inferred,
     sources |-> {<<RecordOf[f], f \notin Inferred>>}, stale |-> FALSE, replacedBy |-> 0]

\* _write_fact_edge writes the fact at the end of the edges, unless it is
\* there already.
LEMMA FactWritten ==
    ASSUME Types, NEW x \in Extractors, NEW f \in Facts, CommitFact(x, f)
    PROVE  /\ work[x].node \in NodeIds /\ RecordOf[f] = work[x].record
           /\ \/ UNCHANGED edges
              \/ \E to \in NodeIds \union {0} :
                    edges' = Append(edges, FactEdge(f, work[x].node, to))
<1>1. work[x].node \in NodeIds /\ RecordOf[f] = work[x].record
  BY DEF Types, WorksOK, WorkOK, CommitFact, FactsOf
<1>2. PICK to \in NodeIds \union {0} : WriteFact(f, work[x].node, to)
  BY DEF CommitFact
<1>3. CASE ExactDups(f, work[x].node, to) = {}
  BY <1>1, <1>2, <1>3 DEF WriteFact, CreateFactEdge, FactEdge
<1>4. CASE ExactDups(f, work[x].node, to) # {}
  <2>1. PICK e \in ExactDups(f, work[x].node, to) :
           AppendSource(e, RecordOf[f], f \notin Inferred)
    BY <1>2, <1>4 DEF WriteFact
  <2>2. UNCHANGED edges
    BY <2>1 DEF ExactDups, AppendSource
  <2>3. QED
    BY <1>1, <2>2
<1>5. QED
  BY <1>1, <1>3, <1>4

\* Edges stay, with their facts, and stale ones stay stale.
LEMMA EdgesGrow ==
    ASSUME Types, [Next]_vars
    PROVE  /\ edges' \in Seq(Edges)
           /\ \A e \in EdgeIds :
                 /\ e \in DOMAIN edges'
                 /\ edges'[e].fact = edges[e].fact
                 /\ edges'[e].from = edges[e].from
                 /\ edges[e].stale => edges'[e].stale
           /\ \A e \in DOMAIN edges' : EdgeOK(e)'
<1>1. edges \in Seq(Edges) /\ EdgeIds = DOMAIN edges /\ \A e \in EdgeIds : EdgeOK(e)
  BY DEF Types, GraphOK, EdgeIds
<1>2. NodeIds \subseteq NodeIds' /\ judged \subseteq judged'
  BY NodesGrow, JudgeStep DEF NodeIds, Judge
<1>3. CASE SameFacts
  <2>1. ASSUME NEW e \in DOMAIN edges'
        PROVE  EdgeOK(e)'
    <3>1. e \in EdgeIds /\ EdgeOK(e)
      BY <1>1, <1>3 DEF SameFacts
    <3>2. /\ edges'[e].from \in NodeIds' /\ edges'[e].to \in NodeIds' \union {0}
          /\ EdgeIds' = EdgeIds
      BY <1>2, <1>3, <3>1 DEF EdgeOK, SameFacts, EdgeIds
    <3>3. edges'[e].sources = {<<RecordOf[edges'[e].fact], edges'[e].fact \notin Inferred>>}
      BY <1>3, <3>1 DEF EdgeOK, SameFacts
    <3>4. /\ edges'[e].replacedBy \in EdgeIds \union {0}
          /\ edges'[e].replacedBy # 0 => edges'[e].stale
          /\ edges'[e].replacedBy # 0 => Supersedes(edges'[e].replacedBy, e)
      BY <1>3, <3>1 DEF EdgeOK, SameFacts, Supersedes
    <3>5. edges'[e].replacedBy # 0 => <<edges'[e].replacedBy, e>> \in judged'
      BY <1>2, <3>4 DEF Supersedes
    <3>6. QED
      BY <3>2, <3>3, <3>4, <3>5 DEF EdgeOK
  <2>2. QED
    BY <1>1, <1>3, <2>1 DEF SameFacts
<1>4. ASSUME NEW x \in Extractors, NEW f \in Facts, CommitFact(x, f)
      PROVE  /\ edges' \in Seq(Edges)
             /\ \A e \in EdgeIds :
                   /\ e \in DOMAIN edges'
                   /\ edges'[e].fact = edges[e].fact
                   /\ edges'[e].from = edges[e].from
                   /\ edges[e].stale => edges'[e].stale
             /\ \A e \in DOMAIN edges' : EdgeOK(e)'
  <2>1. CASE UNCHANGED edges
    BY <1>1, <1>3, <2>1 DEF SameFacts
  <2>2. ASSUME NEW to \in NodeIds \union {0},
               edges' = Append(edges, FactEdge(f, work[x].node, to))
        PROVE  /\ edges' \in Seq(Edges)
               /\ \A e \in EdgeIds :
                     /\ e \in DOMAIN edges'
                     /\ edges'[e].fact = edges[e].fact
                     /\ edges'[e].from = edges[e].from
                     /\ edges[e].stale => edges'[e].stale
               /\ \A e \in DOMAIN edges' : EdgeOK(e)'
    <3> DEFINE v == FactEdge(f, work[x].node, to)
    <3>1. work[x].node \in NodeIds /\ work[x].node \in Nat \ {0} /\ to \in Nat
      BY <1>4, FactWritten DEF Types, GraphOK, NodeIds
    <3>2. /\ v \in Edges /\ v.fact = f /\ v.from = work[x].node /\ v.to = to /\ v.stale = FALSE
          /\ v.replacedBy = 0 /\ v.sources = {<<RecordOf[f], f \notin Inferred>>}
      <4>1. {<<RecordOf[f], f \notin Inferred>>} \in SUBSET (Records \X BOOLEAN)
        <5>1. RecordOf[f] \in Records /\ (f \notin Inferred) \in BOOLEAN
          BY GraphAssumption
        <5>2. <<RecordOf[f], f \notin Inferred>> \in Records \X BOOLEAN
          BY <5>1
        <5>3. QED
          BY <5>2
      <4>2. (f \notin Inferred) \in BOOLEAN
        OBVIOUS
      <4>3. QED
        BY <3>1, <4>1, <4>2 DEF FactEdge, Edges
    <3> HIDE DEF v
    <3>3. /\ edges' \in Seq(Edges)
          /\ Len(edges) \in Nat /\ DOMAIN edges = 1 .. Len(edges)
          /\ DOMAIN edges' = 1 .. Len(edges) + 1
          /\ \A i \in 1 .. Len(edges) : edges'[i] = edges[i]
          /\ edges'[Len(edges) + 1] = v
      BY <1>1, <2>2, <3>2, Appended DEF v
    <3>4. \A e \in EdgeIds : e \in EdgeIds' /\ edges'[e] = edges[e]
      BY <1>1, <3>3 DEF EdgeIds
    <3>5. ASSUME NEW e \in DOMAIN edges'
          PROVE  EdgeOK(e)'
      <4>1. CASE e \in EdgeIds
        <5>1. EdgeOK(e)
          BY <1>1, <4>1
        <5>2. edges'[e] = edges[e]
          BY <3>4, <4>1
        <5>3. edges[e].replacedBy # 0 => <<edges[e].replacedBy, e>> \in judged'
          BY <1>2, <5>1 DEF EdgeOK
        <5>4. QED
          BY <1>2, <3>4, <5>1, <5>2, <5>3 DEF EdgeOK
      <4>2. CASE e = Len(edges) + 1
        BY <1>2, <3>1, <3>2, <3>3, <4>2 DEF EdgeOK
      <4>3. QED
        BY <1>1, <3>3, <4>1, <4>2
    <3>6. QED
      BY <3>3, <3>4, <3>5 DEF EdgeIds
  <2>3. QED
    BY <1>4, <2>1, <2>2, FactWritten
<1>5. CASE UNCHANGED edges
  BY <1>1, <1>3, <1>5 DEF SameFacts
<1>6. ASSUME NEW c \in Curators,
             \/ UpgradeAndScan(c) \/ MarkTrigger(c)
             \/ \E e \in EdgeIds : Expire(c, e) \/ MarkSibling(c, e)
      PROVE  SameFacts
  BY <1>6, CurationKeepsFacts
<1>7. QED
  BY <1>3, <1>4, <1>5, <1>6, EdgesStep

\* The graph grows.
LEMMA GraphGrows ==
    ASSUME Types, [Next]_vars
    PROVE  Grows
<1>1. GraphOK'
  <2>1. \A a \in DOMAIN aliases' : aliases'[a].node \in NodeIds'
    BY NodesGrow, AliasesGrow DEF NodeIds
  <2>2. QED
    BY <2>1, NodesGrow, AliasesGrow, EdgesGrow DEF GraphOK, EdgeIds
<1>2. ASSUME NEW n \in NodeIds, NEW r \in Records, AliasEdges(n, Form[r]) # {}
      PROVE  AliasEdges(n, Form[r])' # {}
  <2>1. PICK a \in AliasEdges(n, Form[r]) : TRUE
    BY <1>2
  <2>2. a \in DOMAIN aliases /\ aliases[a].node = n /\ aliases[a].form = Form[r]
    BY <2>1 DEF AliasEdges
  <2>3. QED
    BY <2>2, AliasesGrow DEF AliasEdges
<1>3. judged \subseteq judged'
  BY JudgeStep DEF Judge
<1>4. QED
  BY <1>1, <1>2, <1>3, NodesGrow, EdgesGrow DEF Grows

-----------------------------------------------------------------------------
(* Extraction. *)

\* A query returns some of what it finds.
LEMMA Limited ==
    ASSUME NEW k, NEW S, NEW T \in LimitTo(k, S)
    PROVE  T \subseteq S
BY DEF LimitTo

\* What resolve_entity answers: entities that are there, and a definitive one
\* whenever the identifier is known.
LEMMA Answered ==
    ASSUME Types, NEW name, NEW ident, NEW a \in ResolveEntity(name, ident)
    PROVE  /\ a \in [definitive : BOOLEAN, hits : SUBSET NodeIds]
           /\ ~a.definitive /\ ident # NoIdent => \A n \in NodeIds : nodes[n].ident # ident
<1>1. \A T \in SUBSET AliasHits(name) : {aliases[b].node : b \in T} \subseteq NodeIds
  BY DEF Types, GraphOK, AliasHits
<1>2. ExactNameHits(name) \subseteq NodeIds /\ FuzzyHits(name) \subseteq NodeIds
  BY DEF ExactNameHits, FuzzyHits
<1>3. CASE IdentifierHits(ident) # {}
  <2>1. PICK n \in IdentifierHits(ident) : a = [definitive |-> TRUE, hits |-> {n}]
    BY <1>3 DEF ResolveEntity, Answer
  <2>2. n \in NodeIds
    BY <2>1 DEF IdentifierHits
  <2>3. QED
    BY <2>1, <2>2
<1>4. CASE IdentifierHits(ident) = {}
  <2>1. a \in ByName(name)
    BY <1>4 DEF ResolveEntity
  <2>2. \/ \E T \in LimitTo(NameLimit, ExactNameHits(name)) : a = Answer(Cardinality(T) = 1, T)
        \/ \E T \in LimitTo(NameLimit, AliasHits(name)) :
              a = Answer(Cardinality(T) = 1, {aliases[b].node : b \in T})
        \/ \E T \in LimitTo(FuzzyLimit, FuzzyHits(name)) : a = Answer(FALSE, T)
    BY <2>1 DEF ByName
  <2>3. \E b \in BOOLEAN, hits \in SUBSET NodeIds : a = Answer(b, hits)
    <3>1. ASSUME NEW T \in LimitTo(NameLimit, ExactNameHits(name)),
                 a = Answer(Cardinality(T) = 1, T)
          PROVE  \E b \in BOOLEAN, hits \in SUBSET NodeIds : a = Answer(b, hits)
      <4>1. T \in SUBSET NodeIds /\ (Cardinality(T) = 1) \in BOOLEAN
        BY <1>2, Limited
      <4>2. QED
        BY <3>1, <4>1
    <3>2. ASSUME NEW T \in LimitTo(NameLimit, AliasHits(name)),
                 a = Answer(Cardinality(T) = 1, {aliases[b].node : b \in T})
          PROVE  \E b \in BOOLEAN, hits \in SUBSET NodeIds : a = Answer(b, hits)
      <4>1. /\ {aliases[b].node : b \in T} \in SUBSET NodeIds
            /\ (Cardinality(T) = 1) \in BOOLEAN
        BY <1>1, Limited
      <4>2. QED
        BY <3>2, <4>1
    <3>3. ASSUME NEW T \in LimitTo(FuzzyLimit, FuzzyHits(name)), a = Answer(FALSE, T)
          PROVE  \E b \in BOOLEAN, hits \in SUBSET NodeIds : a = Answer(b, hits)
      <4>1. T \in SUBSET NodeIds
        BY <1>2, Limited
      <4>2. QED
        BY <3>3, <4>1
    <3>4. QED
      BY <2>2, <3>1, <3>2, <3>3
  <2>4. a \in [definitive : BOOLEAN, hits : SUBSET NodeIds]
    BY <2>3 DEF Answer
  <2>5. ident # NoIdent => \A n \in NodeIds : nodes[n].ident # ident
    BY <1>4 DEF IdentifierHits
  <2>6. QED
    BY <2>4, <2>5
<1>5. QED
  BY <1>3, <1>4

\* What an extraction knows stays true.
LEMMA WorkLasts ==
    ASSUME Types, Grows, NEW w, WorkOK(w),
           w.at \notin {"idle", "indexed"} => w.record \notin extracted',
           w.at = "indexed" => w.record \in (extracted \ Sent)'
    PROVE  WorkOK(w)'
<1>1. NodeIds = 1 .. Len(nodes) /\ Len(nodes) \in Nat
  BY DEF Types, GraphOK, NodeIds
<1>2. NodeIds \subseteq NodeIds' /\ Len(nodes') \in Nat /\ Len(nodes) <= Len(nodes')
  BY <1>1 DEF Grows, GraphOK, NodeIds
<1>3. /\ w \in Works /\ (w.at = "idle" => w = NoWork)
      /\ (w.at # "idle" => w.record \in Records)
      /\ w.left \subseteq FactsOf(w.record)
  BY DEF WorkOK
<1>4. w.at = "resolved" =>
          /\ w.answer.hits \subseteq NodeIds'
          /\ w.asOf <= Len(nodes')
          /\ ~w.answer.definitive /\ Ident[w.record] # NoIdent =>
                \A n \in 1 .. w.asOf : nodes'[n].ident # Ident[w.record]
  <2> SUFFICES ASSUME w.at = "resolved"
               PROVE  /\ w.answer.hits \subseteq NodeIds'
                      /\ w.asOf <= Len(nodes')
                      /\ ~w.answer.definitive /\ Ident[w.record] # NoIdent =>
                            \A n \in 1 .. w.asOf : nodes'[n].ident # Ident[w.record]
    OBVIOUS
  <2>1. /\ w.answer.hits \subseteq NodeIds
        /\ w.asOf \in Nat /\ w.asOf <= Len(nodes)
        /\ ~w.answer.definitive /\ Ident[w.record] # NoIdent =>
                \A n \in 1 .. w.asOf : nodes[n].ident # Ident[w.record]
    BY <1>3 DEF WorkOK, Works
  <2>2. \A n \in 1 .. w.asOf : nodes'[n] = nodes[n]
    BY <1>1, <2>1 DEF Grows
  <2>3. QED
    BY <1>1, <1>2, <2>1, <2>2
<1>5. w.at \in {"idle", "resolved"} => w.node = 0
  BY DEF WorkOK
<1>6. w.at \in {"alias", "aliasing", "facts", "indexed"} =>
          w.node \in NodeIds /\ w.record \in Records
  BY DEF WorkOK
<1>7. w.at = "aliasing" /\ w.records # {} => AliasEdges(w.node, Form[w.record])' # {}
  BY <1>6 DEF WorkOK, Grows
<1>8. QED
  BY <1>2, <1>3, <1>4, <1>5, <1>6, <1>7 DEF WorkOK

\* What becomes of the records when one of them, q, moves on.
OnlyMoves(q) ==
    /\ extracted \subseteq extracted' /\ extracted' \subseteq extracted \union {q}
    /\ Sent' \subseteq Sent \union {q}

\* The work of another process is not touched by that.
LEMMA OthersLast ==
    ASSUME Types, Grows, NEW q, OnlyMoves(q), NEW w, WorkOK(w), w.record # q
    PROVE  WorkOK(w)'
<1>1. w.at \notin {"idle", "indexed"} => w.record \notin extracted'
  BY DEF WorkOK, OnlyMoves
<1>2. w.at = "indexed" => w.record \in (extracted \ Sent)'
  BY DEF WorkOK, OnlyMoves
<1>3. QED
  BY <1>1, <1>2, WorkLasts

\* An extraction moves on.
LEMMA OneWorkSet ==
    ASSUME Types, Grows, NEW x \in Extractors, NEW k, WorkOK(k)',
           work' = [work EXCEPT ![x] = k],
           NEW q, OnlyMoves(q), \A y \in Extractors \ {x} : work[y].record # q,
           k.record \in {q, NoRecord}
    PROVE  WorksOK'
<1>1. /\ DOMAIN work = Extractors
      /\ \A y \in Extractors : WorkOK(work[y])
      /\ \A y, z \in Extractors : work[y].record = work[z].record =>
            y = z \/ work[y].record = NoRecord
  BY DEF Types, WorksOK
<1>2. DOMAIN work' = Extractors /\ work'[x] = k /\ \A y \in Extractors \ {x} : work'[y] = work[y]
  BY <1>1
<1>3. ASSUME NEW y \in Extractors
      PROVE  WorkOK(work[y])'
  <2>1. PICK w : w = work'[y]
    OBVIOUS
  <2>2. CASE y = x
    BY <1>2, <2>1, <2>2 DEF WorkOK
  <2>3. CASE y # x
    <3>1. w = work[y] /\ WorkOK(w) /\ w.record # q
      BY <1>1, <1>2, <2>1, <2>3
    <3>2. WorkOK(w)'
      BY <3>1, OthersLast
    <3>3. QED
      BY <2>1, <3>2 DEF WorkOK
  <2>4. QED
    BY <2>2, <2>3
<1>4. \A y, z \in Extractors : work'[y].record = work'[z].record =>
            y = z \/ work'[y].record = NoRecord
  BY <1>1, <1>2
<1>5. QED
  BY <1>2, <1>3, <1>4 DEF WorksOK

\* A process with nothing to do.
LEMMA NoWorkOK == NoWork \in Works /\ WorkOK(NoWork) /\ WorkOK(NoWork)'
<1>1. /\ NoWork \in Works /\ NoWork.at = "idle" /\ NoWork.node = 0
      /\ NoWork.record = NoRecord /\ NoWork.left = {}
  BY DEF NoWork, Works, Answer
<1>2. QED
  BY <1>1 DEF WorkOK

\* Every record is with one process at most.
LEMMA OwnRecord ==
    ASSUME Types, NEW x \in Extractors, work[x].at # "idle"
    PROVE  \A y \in Extractors \ {x} : work[y].record # work[x].record
<1>1. work[x].record # NoRecord
  BY WorkAssumption DEF Types, WorksOK, WorkOK
<1>2. QED
  BY <1>1 DEF Types, WorksOK

\* A step that marks, queues and curates nothing moves no record.
LEMMA NothingMoves ==
    ASSUME UNCHANGED <<extracted, queued, curated>>, NEW q
    PROVE  OnlyMoves(q)
BY DEF OnlyMoves, Sent

\* Resolution, reading the graph as it is, leaves the works as they should be.
LEMMA ResolveKeeps ==
    ASSUME Types, Grows, NEW x \in Extractors, NEW r \in Records, Resolve(x, r)
    PROVE  WorksOK'
<1>1. PICK i \in {Ident[r], NoIdent} : \E a \in ResolveEntity(Name[r], i) :
         work' = [work EXCEPT ![x] =
                    [NoWork EXCEPT !.at = "resolved", !.record = r, !.answer = a,
                                   !.asOf = IF i = Ident[r] THEN Len(nodes) ELSE 0]]
  BY DEF Resolve
<1> DEFINE then == IF i = Ident[r] THEN Len(nodes) ELSE 0
<1>0. PICK a \in ResolveEntity(Name[r], i) :
         work' = [work EXCEPT ![x] =
                    [NoWork EXCEPT !.at = "resolved", !.record = r, !.answer = a,
                                   !.asOf = then]]
  BY <1>1
<1> DEFINE k == [NoWork EXCEPT !.at = "resolved", !.record = r, !.answer = a,
                               !.asOf = then]
<1>2. NoWork \in Works /\ NoWork.node = 0 /\ NoWork.left = {}
  BY NoWorkOK DEF NoWork
<1>3. /\ a \in [definitive : BOOLEAN, hits : SUBSET NodeIds]
      /\ ~a.definitive /\ i # NoIdent => \A n \in NodeIds : nodes[n].ident # i
  BY Answered
<1>4. NodeIds = 1 .. Len(nodes) /\ Len(nodes) \in Nat
  BY DEF Types, GraphOK, NodeIds
<1>5. a \in [definitive : BOOLEAN, hits : SUBSET Nat]
  BY <1>3, <1>4
<1>6. /\ k \in Works /\ k.at = "resolved" /\ k.record = r /\ k.answer = a
      /\ k.asOf = then /\ k.node = 0 /\ k.left = {}
  BY <1>2, <1>4, <1>5 DEF Works
<1> HIDE DEF k
<1>7. r \notin extracted /\ \A y \in Extractors : work[y].record # r
  BY DEF Resolve, Untaken
<1>8. WorkOK(k)
  BY <1>3, <1>4, <1>6, <1>7 DEF WorkOK
<1>9. extracted' = extracted /\ UNCHANGED <<queued, curated>>
  BY DEF Resolve, graphVars, scanVars
<1>10. PICK w : w = k
  OBVIOUS
<1>11. WorkOK(w)'
  BY <1>6, <1>7, <1>8, <1>9, <1>10, WorkLasts
<1>12. work' = [work EXCEPT ![x] = w] /\ w.record = r
  BY <1>0, <1>6, <1>10 DEF k
<1>13. OnlyMoves(r)
  BY <1>9, NothingMoves
<1>14. QED
  BY <1>7, <1>11, <1>12, <1>13, OneWorkSet

\* The entity is settled, and the facts are still to write.
LEMMA SettledFields ==
    ASSUME NEW r \in Records, NEW at \in {"alias", "facts"}, NEW n \in Nat,
           NEW w, w = Settled(r, at, n)
    PROVE  /\ w \in Works /\ w.at = at /\ w.node = n /\ w.record = r
           /\ w.records = {} /\ w.left = FactsOf(r)
<1>1. NoWork \in Works /\ NoWork.records = {}
  BY NoWorkOK DEF NoWork
<1>2. PICK L : L = FactsOf(r)
  OBVIOUS
<1>3. L \in SUBSET Facts
  BY <1>2 DEF FactsOf
<1>4. w = [NoWork EXCEPT !.at = at, !.record = r, !.node = n, !.left = L]
  BY <1>2 DEF Settled
<1>5. /\ w \in Works /\ w.at = at /\ w.node = n /\ w.record = r
      /\ w.records = {} /\ w.left = L
  BY <1>1, <1>3, <1>4 DEF Works
<1>6. QED
  BY <1>2, <1>5

\* A process that settles an entity is as it should be, if the entity is there.
LEMMA SettledKeeps ==
    ASSUME Types, Grows, NEW x \in Extractors, NEW r \in Records, NEW at \in {"alias", "facts"},
           NEW n \in NodeIds', work' = [work EXCEPT ![x] = Settled(r, at, n)],
           UNCHANGED <<extracted, queued, curated>>, r \notin extracted,
           \A y \in Extractors \ {x} : work[y].record # r
    PROVE  WorksOK'
<1>1. PICK w : w = Settled(r, at, n)
  OBVIOUS
<1>2. n \in Nat
  BY DEF Grows, GraphOK, NodeIds
<1>3. /\ w \in Works /\ w.at = at /\ w.node = n /\ w.record = r
      /\ w.records = {} /\ w.left = FactsOf(r)
  BY <1>1, <1>2, SettledFields
<1>4. WorkOK(w)'
  BY <1>3 DEF WorkOK
<1>5. work' = [work EXCEPT ![x] = w]
  BY <1>1
<1>6. OnlyMoves(r)
  BY NothingMoves
<1>7. QED
  BY <1>3, <1>4, <1>5, <1>6, OneWorkSet

\* The entity that was created is there.
LEMMA Created ==
    ASSUME Types, NEW name, NEW ident, NEW n, CreateEntity(name, ident, n)
    PROVE  n \in NodeIds'
<1>1. nodes \in Seq(Node) /\ NodeIds = DOMAIN nodes /\ Len(nodes) \in Nat
  BY DEF Types, GraphOK, NodeIds
<1>2. PICK v : v = [name |-> name, ident |-> ident]
  OBVIOUS
<1>3. \/ n \in ExactNameHits(name) /\ UNCHANGED nodes
      \/ n = Len(nodes) + 1 /\ nodes' = Append(nodes, v)
  BY <1>2 DEF CreateEntity
<1>4. QED
  BY <1>1, <1>3 DEF ExactNameHits, NodeIds

\* So does the entity committed as new,
LEMMA CommitNewKeeps ==
    ASSUME Types, Grows, NEW x \in Extractors, CommitNew(x)
    PROVE  WorksOK'
<1>1. PICK n : /\ CreateEntity(Name[work[x].record], Ident[work[x].record], n)
               /\ work' = [work EXCEPT ![x] = Settled(work[x].record, "facts", n)]
  BY DEF CommitNew
<1>2. /\ UNCHANGED <<extracted, queued, curated>> /\ work[x].at = "resolved"
      /\ work[x].record \in Records \ extracted
  BY DEF CommitNew, scanVars, Types, WorksOK, WorkOK
<1>3. n \in NodeIds'
  BY <1>1, Created
<1>4. QED
  BY <1>1, <1>2, <1>3, OwnRecord, SettledKeeps

\* the entity of a seed,
LEMMA CommitSeedKeeps ==
    ASSUME Types, Grows, NEW x \in Extractors, NEW r \in Records, CommitSeed(x, r)
    PROVE  WorksOK'
<1>1. PICK n \in 1 .. Len(nodes) + 1, at \in {"facts", "alias"} :
         /\ CreateEntity(Name[r], Ident[r], n)
         /\ work' = [work EXCEPT ![x] = Settled(r, at, n)]
  BY DEF CommitSeed
<1>2. /\ UNCHANGED <<extracted, queued, curated>> /\ r \notin extracted
      /\ \A y \in Extractors : work[y].record # r
  BY DEF CommitSeed, Untaken, scanVars
<1>3. n \in NodeIds'
  BY <1>1, Created
<1>4. QED
  BY <1>1, <1>2, <1>3, SettledKeeps

\* the entity committed to the node it was resolved to,
LEMMA CommitResolvedKeeps ==
    ASSUME Types, Grows, NEW x \in Extractors, CommitResolved(x)
    PROVE  WorksOK'
<1>1. PICK n \in work[x].answer.hits, at \in {"facts", "alias"} :
         work' = [work EXCEPT ![x] = Settled(work[x].record, at, n)]
  BY DEF CommitResolved
<1>2. /\ UNCHANGED <<extracted, queued, curated>> /\ work[x].at = "resolved"
      /\ work[x].record \in Records \ extracted /\ n \in NodeIds
  BY <1>1 DEF CommitResolved, graphVars, scanVars, Types, WorksOK, WorkOK
<1>3. n \in NodeIds'
  BY <1>2 DEF Grows, NodeIds
<1>4. QED
  BY <1>1, <1>2, <1>3, OwnRecord, SettledKeeps

\* A process whose record stays where it is moves on.
LEMMA StepKeeps ==
    ASSUME Types, Grows, NEW x \in Extractors, NEW w, WorkOK(w)', work[x].at # "idle",
           work' = [work EXCEPT ![x] = w], w.record \in {work[x].record, NoRecord},
           OnlyMoves(work[x].record)
    PROVE  WorksOK'
BY OwnRecord, OneWorkSet

\* the search for the alias edge,
LEMMA FindAliasKeeps ==
    ASSUME Types, Grows, NEW x \in Extractors, FindAlias(x)
    PROVE  WorksOK'
<1>1. PICK v : v = work[x]
  OBVIOUS
<1>2. /\ v \in Works /\ WorkOK(v) /\ v.at = "alias"
      /\ UNCHANGED <<extracted, queued, curated>>
  BY <1>1 DEF Types, WorksOK, WorkOK, FindAlias, graphVars, scanVars
<1>3. PICK found : found = AliasEdges(v.node, Form[v.record])
  OBVIOUS
<1>4. PICK records \in IF found = {} THEN {{}} ELSE {aliases[a].records : a \in found} :
         work' = [work EXCEPT ![x] = [@ EXCEPT !.at = "aliasing", !.records = records]]
  BY <1>1, <1>3 DEF FindAlias
<1>5. PICK w : w = [v EXCEPT !.at = "aliasing", !.records = records]
  OBVIOUS
<1>6. records \in SUBSET Records /\ (records # {} => found # {})
  <2>1. \A a \in found : aliases[a] \in Alias
    BY <1>3 DEF AliasEdges, Types, GraphOK
  <2>2. \A a \in found : aliases[a].records \in SUBSET Records
    BY <2>1 DEF Alias
  <2>3. QED
    BY <1>4, <2>2
<1>7. /\ w \in Works /\ w.at = "aliasing" /\ w.records = records /\ w.record = v.record
      /\ w.node = v.node /\ w.left = v.left
  BY <1>2, <1>5, <1>6 DEF Works
<1>8. WorkOK(w)
  BY <1>2, <1>3, <1>6, <1>7 DEF WorkOK
<1>9. WorkOK(w)'
  BY <1>2, <1>7, <1>8, WorkLasts DEF WorkOK
<1>10. work' = [work EXCEPT ![x] = w]
  BY <1>1, <1>4, <1>5 DEF Types, WorksOK
<1>11. QED
  BY <1>1, <1>2, <1>7, <1>9, <1>10, NothingMoves, StepKeeps

\* the alias that is written,
LEMMA CommitAliasKeeps ==
    ASSUME Types, Grows, NEW x \in Extractors, CommitAlias(x)
    PROVE  WorksOK'
<1>1. PICK v : v = work[x]
  OBVIOUS
<1>2. /\ v \in Works /\ WorkOK(v) /\ v.at = "aliasing"
      /\ UNCHANGED <<extracted, queued, curated>>
  BY <1>1 DEF Types, WorksOK, WorkOK, CommitAlias, scanVars
<1>3. PICK w : w = [v EXCEPT !.at = "facts", !.records = {}]
  OBVIOUS
<1>4. /\ w \in Works /\ w.at = "facts" /\ w.record = v.record /\ w.node = v.node
      /\ w.left = v.left
  BY <1>2, <1>3 DEF Works
<1>5. work' = [work EXCEPT ![x] = w]
  BY <1>1, <1>3 DEF CommitAlias, Types, WorksOK
<1>6. WorkOK(w)
  BY <1>2, <1>4 DEF WorkOK
<1>7. WorkOK(w)'
  BY <1>2, <1>4, <1>6, WorkLasts DEF WorkOK
<1>8. QED
  BY <1>1, <1>2, <1>4, <1>5, <1>7, NothingMoves, StepKeeps

\* each fact, written or passed over,
LEMMA FactsKeep ==
    ASSUME Types, Grows, NEW x \in Extractors, NEW f \in Facts, CommitFact(x, f) \/ SkipFact(x, f)
    PROVE  WorksOK'
<1>1. PICK v : v = work[x]
  OBVIOUS
<1>2. /\ v \in Works /\ WorkOK(v) /\ v.at = "facts"
      /\ UNCHANGED <<extracted, queued, curated>>
  BY <1>1 DEF Types, WorksOK, WorkOK, CommitFact, SkipFact, graphVars, scanVars
<1>3. PICK w : w = [v EXCEPT !.left = v.left \ {f}]
  OBVIOUS
<1>4. /\ w \in Works /\ w.at = "facts" /\ w.record = v.record /\ w.node = v.node
      /\ w.left = v.left \ {f}
  BY <1>2, <1>3 DEF Works
<1>5. work' = [work EXCEPT ![x] = w]
  BY <1>1, <1>3 DEF CommitFact, SkipFact, Types, WorksOK
<1>6. WorkOK(w)
  BY <1>2, <1>4 DEF WorkOK
<1>7. WorkOK(w)'
  BY <1>2, <1>4, <1>6, WorkLasts DEF WorkOK
<1>8. QED
  BY <1>1, <1>2, <1>4, <1>5, <1>7, NothingMoves, StepKeeps

\* the record that is marked,
LEMMA MarkIndexedKeeps ==
    ASSUME Types, Grows, NEW x \in Extractors, MarkIndexed(x)
    PROVE  WorksOK'
<1>1. PICK v : v = work[x]
  OBVIOUS
<1>2. /\ v \in Works /\ WorkOK(v) /\ v.at = "facts"
      /\ extracted' = extracted \union {v.record} /\ UNCHANGED <<queued, curated>>
  BY <1>1 DEF Types, WorksOK, WorkOK, MarkIndexed, graphVars, scanVars
<1>3. PICK w : w = [v EXCEPT !.at = "indexed"]
  OBVIOUS
<1>4. /\ w \in Works /\ w.at = "indexed" /\ w.record = v.record /\ w.node = v.node
      /\ w.left = v.left
  BY <1>2, <1>3 DEF Works
<1>5. work' = [work EXCEPT ![x] = w]
  BY <1>1, <1>3 DEF MarkIndexed, Types, WorksOK
<1>6. w.record \in (extracted \ Sent)' /\ OnlyMoves(v.record)
  BY <1>2, <1>4 DEF WorkOK, Types, RestOK, OnlyMoves, Sent
<1>7. WorkOK(w)'
  BY <1>2, <1>4, <1>6 DEF WorkOK, Grows, NodeIds
<1>8. QED
  BY <1>1, <1>2, <1>4, <1>5, <1>6, <1>7, StepKeeps

\* and the work that ends.
LEMMA WorkEndsKeeps ==
    ASSUME Types, Grows, NEW x \in Extractors, Enqueue(x) \/ ExtractionFails(x)
    PROVE  WorksOK'
<1>1. /\ work' = [work EXCEPT ![x] = NoWork] /\ work[x].at # "idle"
      /\ OnlyMoves(work[x].record)
  BY DEF Enqueue, ExtractionFails, OnlyMoves, Sent, graphVars, scanVars
<1>2. PICK w : w = NoWork
  OBVIOUS
<1>3. WorkOK(w)' /\ w.record = NoRecord
  BY <1>2, NoWorkOK DEF WorkOK, NoWork
<1>4. QED
  BY <1>1, <1>2, <1>3, StepKeeps

\* The actions of extraction are the only ones that change what it knows.
LEMMA WorksStep ==
    ASSUME [Next]_vars
    PROVE  \/ UNCHANGED <<work, extracted>>
           \/ \E x \in Extractors :
                 \/ \E r \in Records : IndexNothing(x, r) \/ Resolve(x, r) \/ CommitSeed(x, r)
                 \/ CommitNew(x) \/ CommitResolved(x) \/ FindAlias(x) \/ CommitAlias(x)
                 \/ \E f \in Facts : CommitFact(x, f) \/ SkipFact(x, f)
                 \/ MarkIndexed(x) \/ Enqueue(x) \/ ExtractionFails(x)
BY ZenonT(60)
   DEF Next, vars, workVars, Claim, Expire, UpgradeAndScan, Judge, MarkSibling,
       MarkTrigger, Curated, CurationFails

\* A record may be marked, or taken off the queue, behind the back of all.
LEMMA WorksUntouched ==
    ASSUME Types, Grows, UNCHANGED work, NEW q, OnlyMoves(q),
           \A y \in Extractors : work[y].record # q
    PROVE  WorksOK'
<1>1. ASSUME NEW y \in Extractors
      PROVE  WorkOK(work[y])'
  <2>1. PICK w : w = work[y]
    OBVIOUS
  <2>2. WorkOK(w) /\ w.record # q
    BY <2>1 DEF Types, WorksOK
  <2>3. WorkOK(w)'
    BY <2>2, OthersLast
  <2>4. work'[y] = w
    BY <2>1
  <2>5. QED
    BY <2>3, <2>4 DEF WorkOK
<1>2. QED
  BY <1>1 DEF Types, WorksOK

\* Curation takes records off the queue that no extraction works on.
LEMMA CurationMovesNothing ==
    ASSUME Types, [Next]_vars, UNCHANGED extracted, UNCHANGED work
    PROVE  Sent' \subseteq Sent
<1>1. ASSUME NEW x \in Extractors, NEW r \in Records, IndexNothing(x, r)
      PROVE  Sent' \subseteq Sent
  BY <1>1 DEF IndexNothing, graphVars, scanVars, Sent
<1>2. ASSUME NEW x \in Extractors, MarkIndexed(x)
      PROVE  Sent' \subseteq Sent
  BY <1>2 DEF MarkIndexed, graphVars, scanVars, Sent
<1>3. ASSUME NEW x \in Extractors, Enqueue(x)
      PROVE  FALSE
  <2>1. work'[x] = NoWork /\ work[x].at = "indexed"
    BY <1>3 DEF Enqueue, Types, WorksOK
  <2>2. QED
    BY <2>1 DEF NoWork
<1>4. ASSUME NEW c \in Curators, Curated(c)
      PROVE  Sent' \subseteq Sent
  <2>1. scan[c].record \in Sent
    BY <1>4 DEF Types, ScansOK, ScanOK, Curated, CuratorAt
  <2>2. QED
    BY <1>4, <2>1 DEF Curated, Sent
<1>5. QED
  BY <1>1, <1>2, <1>3, <1>4, QueueStep DEF Sent

\* A step leaves the works as they should be.
LEMMA WorksKept ==
    ASSUME Types, Grows, [Next]_vars
    PROVE  WorksOK'
<1>1. CASE UNCHANGED <<work, extracted>>
  <2>1. PICK q : q \notin {work[y].record : y \in Extractors}
    <3>1. {work[y].record : y \in Extractors} \in SUBSET (Records \union {NoRecord})
      BY DEF Types, WorksOK, WorkOK, Works
    <3>2. PICK q : q \notin Records \union {NoRecord}
      BY NoSetContainsEverything
    <3>3. QED
      BY <3>1, <3>2
  <2>2. OnlyMoves(q)
    BY <1>1, CurationMovesNothing DEF OnlyMoves
  <2>3. QED
    BY <1>1, <2>1, <2>2, WorksUntouched
<1>2. ASSUME NEW x \in Extractors, NEW r \in Records, IndexNothing(x, r)
      PROVE  WorksOK'
  <2>1. /\ UNCHANGED work /\ \A y \in Extractors : work[y].record # r
        /\ OnlyMoves(r)
    BY <1>2 DEF IndexNothing, Untaken, OnlyMoves, Sent, graphVars, scanVars
  <2>2. QED
    BY <2>1, WorksUntouched
<1>3. QED
  BY <1>1, <1>2, WorksStep, ResolveKeeps, CommitNewKeeps, CommitResolvedKeeps, CommitSeedKeeps,
     FindAliasKeeps, CommitAliasKeeps, FactsKeep, MarkIndexedKeeps, WorkEndsKeeps

-----------------------------------------------------------------------------
(* Curation. *)

\* What has reached curation has.
LEMMA SentGrows ==
    ASSUME [Next]_vars
    PROVE  Sent \subseteq Sent'
BY QueueStep DEF Sent, IndexNothing, MarkIndexed, Enqueue, Curated, graphVars, scanVars

\* What a scan has read stays true of the edges.
LEMMA ScanLasts ==
    ASSUME Types, Grows, Sent \subseteq Sent', NEW s, ScanOK(s)
    PROVE  ScanOK(s)'
<1>1. /\ s \in Scans
      /\ s.at # "idle" => s.record \in Sent'
      /\ s.todo \union s.triggers \union s.newer \subseteq EdgeIds
      /\ s.trigger \in EdgeIds \union {0}
      /\ s.at = "marking" => s.trigger \in EdgeIds
  BY DEF ScanOK
<1>2. \A e \in EdgeIds : e \in EdgeIds' /\ edges'[e].fact = edges[e].fact
  BY DEF Grows, EdgeIds
<1>3. \A e \in s.triggers : RecordOf[edges'[e].fact] = s.record
  BY <1>1, <1>2 DEF ScanOK
<1>4. s.at = "marking" =>
          /\ \A e \in s.todo : Supersedes(s.trigger, e)'
          /\ \A e \in s.newer : Supersedes(e, s.trigger)'
  BY DEF ScanOK, Supersedes, Grows
<1>5. QED
  BY <1>1, <1>2, <1>3, <1>4 DEF ScanOK

\* One scan that changes to one that is as it should be leaves all of them so.
LEMMA OneScanSet ==
    ASSUME Types, Grows, Sent \subseteq Sent', NEW c \in Curators, NEW k, ScanOK(k)',
           scan' = [scan EXCEPT ![c] = k]
    PROVE  ScansOK'
<1>1. /\ DOMAIN scan' = Curators /\ scan'[c] = k
      /\ \A d \in Curators \ {c} : scan'[d] = scan[d] /\ ScanOK(scan[d])
  BY DEF Types, ScansOK
<1>2. ASSUME NEW d \in Curators
      PROVE  ScanOK(scan[d])'
  <2>1. PICK s : s = scan'[d]
    OBVIOUS
  <2>2. ScanOK(s)'
    <3>1. CASE d = c
      <4>1. s = k
        BY <1>1, <2>1, <3>1
      <4>2. QED
        BY <4>1
    <3>2. CASE d # c
      BY <1>1, <2>1, <3>2, ScanLasts
    <3>3. QED
      BY <3>1, <3>2
  <2>3. QED
    BY <2>1, <2>2 DEF ScanOK
<1>3. QED
  BY <1>1, <1>2 DEF ScansOK

\* A process with nothing to curate.
LEMMA NoScanOK == ScanOK(NoScan)
<1>1. /\ NoScan \in Scans /\ NoScan.at = "idle" /\ NoScan.trigger = 0
      /\ NoScan.todo = {} /\ NoScan.triggers = {} /\ NoScan.newer = {}
  BY DEF NoScan, Scans
<1>2. QED
  BY <1>1 DEF ScanOK

\* Only these actions change what curation is doing.
LEMMA ScansStep ==
    ASSUME [Next]_vars
    PROVE  \/ UNCHANGED scan
           \/ \E c \in Curators :
                 \/ \E r \in Records : Claim(c, r)
                 \/ \E e \in EdgeIds : Expire(c, e) \/ Judge(c, e) \/ MarkSibling(c, e)
                 \/ UpgradeAndScan(c) \/ MarkTrigger(c) \/ Curated(c) \/ CurationFails(c)
BY ZenonT(60)
   DEF Next, vars, scanVars, IndexNothing, Resolve, CommitNew, CommitResolved, CommitSeed,
       FindAlias, CommitAlias, CommitFact, SkipFact, MarkIndexed, Enqueue, ExtractionFails

\* The edges of a record are edges, of facts it states.
LEMMA EdgesOfRecord ==
    ASSUME Types, NEW r, NEW e \in EdgesOf(r)
    PROVE  e \in EdgeIds /\ RecordOf[edges[e].fact] = r
BY OneSource DEF EdgesOf, Types, GraphOK

\* The scan that begins with a claim is as it should be;
LEMMA ClaimScans ==
    ASSUME Types, NEW c \in Curators, NEW r \in Records, Claim(c, r)
    PROVE  \E k : ScanOK(k) /\ scan' = [scan EXCEPT ![c] = k]
<1>0. PICK past :
         scan' = [scan EXCEPT ![c] = [NoScan EXCEPT !.at = "expiring", !.record = r,
                                                    !.todo = ExpiredCommitments(past)]]
  BY DEF Claim
<1>1. PICK T : T = ExpiredCommitments(past)
  OBVIOUS
<1>2. PICK k : k = [NoScan EXCEPT !.at = "expiring", !.record = r, !.todo = T]
  OBVIOUS
<1>3. T \in SUBSET EdgeIds /\ EdgeIds \subseteq Nat /\ r \in Sent /\ r \in Records
  BY <1>1 DEF ExpiredCommitments, Types, GraphOK, Claim, EdgeIds, Sent
<1>4. NoScan \in Scans /\ NoScan.triggers = {} /\ NoScan.newer = {} /\ NoScan.trigger = 0
  BY DEF NoScan, Scans
<1>5. /\ k \in Scans /\ k.at = "expiring" /\ k.record = r /\ k.todo = T /\ k.triggers = {}
      /\ k.newer = {} /\ k.trigger = 0
  BY <1>2, <1>3, <1>4 DEF Scans
<1>6. ScanOK(k)
  BY <1>3, <1>5 DEF ScanOK
<1>7. scan' = [scan EXCEPT ![c] = k]
  BY <1>0, <1>1, <1>2
<1>8. QED
  BY <1>6, <1>7

\* so is one with an edge marked off,
LEMMA MarkedOffScans ==
    ASSUME Types, NEW c \in Curators, NEW e, scan' = [scan EXCEPT ![c].todo = @ \ {e}]
    PROVE  \E k : /\ ScanOK(k) /\ scan' = [scan EXCEPT ![c] = k]
                  /\ k.at = scan[c].at /\ k.record = scan[c].record
                  /\ k.triggers = scan[c].triggers
<1>1. PICK s : s = scan[c]
  OBVIOUS
<1>2. s \in Scans /\ ScanOK(s)
  BY <1>1 DEF Types, ScansOK, ScanOK
<1>3. PICK k : k = [s EXCEPT !.todo = s.todo \ {e}]
  OBVIOUS
<1>4. /\ k \in Scans /\ k.at = s.at /\ k.record = s.record /\ k.todo = s.todo \ {e}
      /\ k.triggers = s.triggers /\ k.newer = s.newer /\ k.trigger = s.trigger
  BY <1>2, <1>3 DEF Scans
<1>5. ScanOK(k)
  BY <1>2, <1>4 DEF ScanOK
<1>6. scan' = [scan EXCEPT ![c] = k]
  BY <1>1, <1>3 DEF Types, ScansOK
<1>7. QED
  BY <1>1, <1>4, <1>5, <1>6

\* one that has upgraded its record and looks for what it supersedes,
LEMMA UpgradeScans ==
    ASSUME Types, NEW c \in Curators, UpgradeAndScan(c)
    PROVE  \E k : /\ ScanOK(k) /\ scan' = [scan EXCEPT ![c] = k]
                  /\ k.at = "scanning" /\ k.record = scan[c].record
                  /\ k.triggers = EdgesOf(scan[c].record)
<1>1. PICK s : s = scan[c]
  OBVIOUS
<1>2. s \in Scans /\ ScanOK(s) /\ s.at = "expiring"
  BY <1>1 DEF Types, ScansOK, ScanOK, UpgradeAndScan, CuratorAt
<1>3. PICK T : T = EdgesOf(s.record)
  OBVIOUS
<1>4. PICK k : k = [s EXCEPT !.at = "scanning", !.triggers = T]
  OBVIOUS
<1>5. /\ T \in SUBSET EdgeIds /\ EdgeIds \subseteq Nat
      /\ \A e \in T : RecordOf[edges[e].fact] = s.record
  BY <1>3, EdgesOfRecord DEF Types, GraphOK, EdgeIds
<1>6. /\ k \in Scans /\ k.at = "scanning" /\ k.record = s.record /\ k.todo = s.todo
      /\ k.triggers = T /\ k.newer = s.newer /\ k.trigger = s.trigger
  BY <1>2, <1>4, <1>5 DEF Scans
<1>7. ScanOK(k)
  BY <1>2, <1>5, <1>6 DEF ScanOK
<1>8. scan' = [scan EXCEPT ![c] = k]
  BY <1>1, <1>3, <1>4 DEF UpgradeAndScan, Types, ScansOK
<1>9. QED
  BY <1>1, <1>3, <1>6, <1>7, <1>8

\* one whose judge has answered for an edge,
LEMMA JudgeScans ==
    ASSUME Types, Grows, NEW c \in Curators, NEW t \in EdgeIds, Judge(c, t)
    PROVE  \E k : /\ ScanOK(k)' /\ scan' = [scan EXCEPT ![c] = k]
                  /\ k.record = scan[c].record /\ k.triggers = scan[c].triggers \ {t}
<1>1. PICK s : s = scan[c]
  OBVIOUS
<1>2. s \in Scans /\ ScanOK(s) /\ s.at = "scanning"
  BY <1>1 DEF Types, ScansOK, ScanOK, Judge, CuratorAt
<1>3. PICK older \in SUBSET Siblings(t, s.record), newer \in SUBSET Siblings(t, s.record) :
         /\ judged' = judged \union ({t} \X older) \union (newer \X {t})
         /\ scan' = [scan EXCEPT ![c] = [@ EXCEPT !.at = "marking", !.trigger = t,
                       !.triggers = scan[c].triggers \ {t},
                       !.todo = older, !.newer = newer]]
  BY <1>1 DEF Judge
<1>4. PICK k : k = [s EXCEPT !.at = "marking", !.trigger = t, !.triggers = s.triggers \ {t},
                             !.todo = older, !.newer = newer]
  OBVIOUS
<1>5. /\ older \in SUBSET EdgeIds /\ newer \in SUBSET EdgeIds /\ EdgeIds \subseteq Nat
      /\ \A e \in older : <<t, e>> \in judged'
      /\ \A e \in newer : <<e, t>> \in judged'
  <2>1. Siblings(t, s.record) \subseteq EdgeIds /\ EdgeIds \subseteq Nat
    BY DEF Siblings, Types, GraphOK, EdgeIds
  <2>2. QED
    BY <1>3, <2>1
<1>6. /\ k \in Scans /\ k.at = "marking" /\ k.record = s.record /\ k.todo = older
      /\ k.triggers = s.triggers \ {t} /\ k.newer = newer /\ k.trigger = t
  BY <1>2, <1>4, <1>5 DEF Scans
<1>7. UNCHANGED <<edges, queued, curated>>
  BY DEF Judge, graphVars
<1>8. ScanOK(k)'
  BY <1>2, <1>5, <1>6, <1>7 DEF ScanOK, Supersedes, Sent, EdgeIds
<1>9. scan' = [scan EXCEPT ![c] = k]
  BY <1>1, <1>3, <1>4 DEF Types, ScansOK
<1>10. QED
  BY <1>1, <1>6, <1>8, <1>9

\* and one that has marked that edge.
LEMMA MarkTriggerScans ==
    ASSUME Types, NEW c \in Curators, MarkTrigger(c)
    PROVE  \E k : /\ ScanOK(k) /\ scan' = [scan EXCEPT ![c] = k]
                  /\ k.record = scan[c].record /\ k.triggers = scan[c].triggers
<1>1. PICK s : s = scan[c]
  OBVIOUS
<1>2. s \in Scans /\ ScanOK(s) /\ s.at = "marking"
  BY <1>1 DEF Types, ScansOK, ScanOK, MarkTrigger, CuratorAt
<1>3. PICK k : k = [s EXCEPT !.at = "scanning", !.trigger = 0, !.newer = {}]
  OBVIOUS
<1>4. /\ k \in Scans /\ k.at = "scanning" /\ k.record = s.record /\ k.todo = s.todo
      /\ k.triggers = s.triggers /\ k.newer = {} /\ k.trigger = 0
  BY <1>2, <1>3 DEF Scans
<1>5. ScanOK(k)
  BY <1>2, <1>4 DEF ScanOK
<1>6. scan' = [scan EXCEPT ![c] = k]
  BY <1>1, <1>3 DEF MarkTrigger, Types, ScansOK
<1>7. QED
  BY <1>1, <1>4, <1>5, <1>6

\* A step leaves the scans as they should be.
LEMMA ScansKept ==
    ASSUME Types, Grows, [Next]_vars
    PROVE  ScansOK'
<1>1. Sent \subseteq Sent'
  BY SentGrows
<1>2. CASE UNCHANGED scan
  <2>1. ASSUME NEW d \in Curators
        PROVE  ScanOK(scan[d])'
    <3>1. PICK s : s = scan[d]
      OBVIOUS
    <3>2. ScanOK(s)'
      BY <1>1, <3>1, ScanLasts DEF Types, ScansOK
    <3>3. scan'[d] = s
      BY <1>2, <3>1
    <3>4. QED
      BY <3>2, <3>3 DEF ScanOK
  <2>2. QED
    BY <1>2, <2>1 DEF Types, ScansOK
<1>3. ASSUME NEW c \in Curators,
             \/ \E r \in Records : Claim(c, r)
             \/ \E e \in EdgeIds : Expire(c, e) \/ Judge(c, e) \/ MarkSibling(c, e)
             \/ UpgradeAndScan(c) \/ MarkTrigger(c) \/ Curated(c) \/ CurationFails(c)
      PROVE  ScansOK'
  <2>1. ASSUME NEW k, ScanOK(k), scan' = [scan EXCEPT ![c] = k]
        PROVE  ScansOK'
    BY <1>1, <2>1, ScanLasts, OneScanSet
  <2>2. CASE Curated(c) \/ CurationFails(c)
    BY <2>1, <2>2, NoScanOK DEF Curated, CurationFails
  <2>3. ASSUME NEW e \in EdgeIds, Expire(c, e) \/ MarkSibling(c, e)
        PROVE  ScansOK'
    BY <2>1, <2>3, MarkedOffScans DEF Expire, MarkSibling
  <2>4. ASSUME NEW e \in EdgeIds, Judge(c, e)
        PROVE  ScansOK'
    BY <1>1, <2>4, JudgeScans, OneScanSet
  <2>5. QED
    BY <1>3, <2>1, <2>2, <2>3, <2>4, ClaimScans, UpgradeScans, MarkTriggerScans
<1>4. QED
  BY <1>2, <1>3, ScansStep

-----------------------------------------------------------------------------
(* The rest of the types. *)

\* An edge is new, or was there before.
LEMMA EdgeBefore ==
    ASSUME Types, [Next]_vars, NEW e \in DOMAIN edges', e \notin EdgeIds
    PROVE  \E x \in Extractors, f \in Facts :
              CommitFact(x, f) /\ edges'[e].fact = f
<1>1. ASSUME SameFacts \/ UNCHANGED edges
      PROVE  FALSE
  BY <1>1 DEF SameFacts, EdgeIds
<1>2. PICK x \in Extractors, f \in Facts : CommitFact(x, f)
  BY <1>1, EdgesStep, CurationKeepsFacts
<1>3. PICK to : edges' = Append(edges, FactEdge(f, work[x].node, to))
  BY <1>1, <1>2, FactWritten
<1>4. PICK v : v = FactEdge(f, work[x].node, to)
  OBVIOUS
<1>5. edges' = Append(edges, v) /\ v.fact = f
  BY <1>3, <1>4 DEF FactEdge
<1>6. edges'[e] = v
  BY <1>5 DEF Types, GraphOK, EdgeIds
<1>7. QED
  BY <1>2, <1>5, <1>6

\* A step keeps the queue and the history variables in their types.
LEMMA RestKept ==
    ASSUME Types, Grows, [Next]_vars
    PROVE  RestOK'
<1>1. Sent' \subseteq extracted' /\ queued' \cap curated' = {} /\ extracted' \subseteq Records
  <2>1. Sent \subseteq extracted /\ queued \cap curated = {} /\ extracted \subseteq Records
    BY DEF Types, RestOK
  <2>2. ASSUME NEW x \in Extractors, NEW r \in Records, IndexNothing(x, r)
        PROVE  Sent' \subseteq extracted' /\ queued' \cap curated' = {} /\ extracted' \subseteq Records
    BY <2>1, <2>2 DEF IndexNothing, Sent, graphVars, scanVars
  <2>3. ASSUME NEW x \in Extractors, MarkIndexed(x)
        PROVE  Sent' \subseteq extracted' /\ queued' \cap curated' = {} /\ extracted' \subseteq Records
    <3>1. work[x].record \in Records
      BY <2>3 DEF MarkIndexed, Types, WorksOK, WorkOK
    <3>2. QED
      BY <2>1, <2>3, <3>1 DEF MarkIndexed, Sent, graphVars, scanVars
  <2>4. ASSUME NEW x \in Extractors, Enqueue(x)
        PROVE  Sent' \subseteq extracted' /\ queued' \cap curated' = {} /\ extracted' \subseteq Records
    <3>1. work[x].record \in extracted \ Sent
      BY <2>4 DEF Enqueue, Types, WorksOK, WorkOK
    <3>2. QED
      BY <2>1, <2>4, <3>1 DEF Enqueue, Sent, scanVars
  <2>5. ASSUME NEW c \in Curators, Curated(c)
        PROVE  Sent' \subseteq extracted' /\ queued' \cap curated' = {} /\ extracted' \subseteq Records
    <3>1. scan[c].record \in Sent
      BY <2>5 DEF Curated, CuratorAt, Types, ScansOK, ScanOK
    <3>2. QED
      BY <2>1, <2>5, <3>1 DEF Curated, Sent, workVars
  <2>6. QED
    BY <2>1, <2>2, <2>3, <2>4, <2>5, QueueStep DEF Sent
<1>2. compared' \in SUBSET SUBSET (EdgeIds') /\ judged' \in SUBSET (EdgeIds' \X EdgeIds')
  <2>1. EdgeIds \subseteq EdgeIds'
    BY DEF Grows, EdgeIds
  <2>2. compared \in SUBSET SUBSET EdgeIds /\ judged \in SUBSET (EdgeIds \X EdgeIds)
    BY DEF Types, RestOK
  <2>3. ASSUME NEW c \in Curators, NEW t \in EdgeIds, Judge(c, t)
        PROVE  compared' \in SUBSET SUBSET EdgeIds /\ judged' \in SUBSET (EdgeIds \X EdgeIds)
    <3>1. PICK r : r = scan[c].record
      OBVIOUS
    <3>2. compared' = compared \union {{t, s} : s \in Siblings(t, r)}
      BY <2>3, <3>1 DEF Judge
    <3>3. PICK older \in SUBSET Siblings(t, r), newer \in SUBSET Siblings(t, r) :
             judged' = judged \union ({t} \X older) \union (newer \X {t})
      BY <2>3, <3>1 DEF Judge
    <3>4. Siblings(t, r) \subseteq EdgeIds
      BY DEF Siblings
    <3>5. compared' \in SUBSET SUBSET EdgeIds
      BY <2>2, <3>2, <3>4
    <3>6. judged' \in SUBSET (EdgeIds \X EdgeIds)
      BY <2>2, <3>3, <3>4
    <3>7. QED
      BY <3>5, <3>6
  <2>4. compared' \in SUBSET SUBSET EdgeIds /\ judged' \in SUBSET (EdgeIds \X EdgeIds)
    BY <2>2, <2>3, JudgeStep
  <2>5. QED
    BY <2>1, <2>4
<1>3. unasked' \in SUBSET (NodeIds')
  <2>1. NodeIds \subseteq NodeIds'
    BY DEF Grows, NodeIds
  <2>2. ASSUME NEW x \in Extractors, NEW r \in Records, CommitNew(x) \/ CommitSeed(x, r)
        PROVE  \E n \in NodeIds' : unasked' \subseteq unasked \union {n}
    BY <2>2, Created DEF CommitNew, CommitSeed
  <2>3. ASSUME NEW x \in Extractors, CommitNew(x) \/ \E r \in Records : CommitSeed(x, r)
        PROVE  \E n \in NodeIds' : unasked' \subseteq unasked \union {n}
    <3>1. CommitNew(x) => work[x].record \in Records
      BY DEF CommitNew, Types, WorksOK, WorkOK
    <3>2. QED
      BY <2>2, <2>3, <3>1
  <2>4. QED
    BY <2>1, <2>3, NodesStep DEF Types, RestOK
<1>4. lateForms' \in SUBSET (NodeIds' \X Names)
  BY AliasesGrow, NodesGrow DEF NodeIds
<1>5. known' \in SUBSET (NodeIds' \X Names \X Records)
  <2>1. NodeIds \subseteq NodeIds'
    BY DEF Grows, NodeIds
  <2>2. known \in SUBSET (NodeIds \X Names \X Records)
    BY DEF Types, RestOK
  <2>3. ASSUME NEW x \in Extractors, CommitAlias(x)
        PROVE  known' \in SUBSET (NodeIds' \X Names \X Records)
    <3>1. work[x].node \in NodeIds /\ work[x].record \in Records /\ Form[work[x].record] \in Names
      BY <2>3, WorkAssumption DEF CommitAlias, Types, WorksOK, WorkOK
    <3>2. known' = known \union {<<work[x].node, Form[work[x].record], work[x].record>>}
      BY <2>3 DEF CommitAlias
    <3>3. QED
      BY <2>1, <2>2, <3>1, <3>2
  <2>4. QED
    BY <2>1, <2>2, <2>3, AliasesStep
<1>6. faults' \in 0 .. MaxFaults
  <2>1. faults' = faults \/ Fault
    BY DEF Next, vars, IndexNothing, Resolve, CommitNew, CommitResolved, CommitSeed, FindAlias,
       CommitAlias, CommitFact, SkipFact, MarkIndexed, Enqueue, ExtractionFails, Claim, Expire,
       UpgradeAndScan, Judge, MarkSibling, MarkTrigger, Curated, CurationFails
  <2>2. QED
    BY <2>1, WorkAssumption DEF Fault, Types, RestOK
<1>7. QED
  BY <1>1, <1>2, <1>3, <1>4, <1>5, <1>6 DEF RestOK, Sent

\* Together.
LEMMA TypesKept ==
    ASSUME Types, [Next]_vars
    PROVE  Types'
<1>1. Grows
  BY GraphGrows
<1>2. QED
  BY <1>1, WorksKept, ScansKept, RestKept DEF Grows, Types

\* The inductive invariant for the types holds along every behaviour.
LEMMA TypesHold == Spec => []Types
<1>1. Init => Types
  <2> SUFFICES ASSUME Init PROVE Types
    OBVIOUS
  <2>1. nodes = << >> /\ aliases = << >> /\ edges = << >> /\ queued = {}
    BY DEF Init, GraphInit
  <2>2. GraphOK
    BY <2>1 DEF GraphOK, EdgeIds
  <2>3. WorksOK
    <3>1. \A x \in Extractors : work[x] = NoWork /\ work[x].record = NoRecord
      BY DEF Init, NoWork
    <3>2. QED
      BY <3>1, NoWorkOK DEF Init, WorksOK
  <2>4. ScansOK
    BY NoScanOK DEF Init, ScansOK
  <2>5. RestOK
    BY <2>1, WorkAssumption DEF Init, RestOK, Sent
  <2>6. QED
    BY <2>2, <2>3, <2>4, <2>5 DEF Types
<1>2. Types /\ [Next]_vars => Types'
  BY TypesKept
<1>3. QED
  BY <1>1, <1>2, PTL DEF Spec

-----------------------------------------------------------------------------
(* What is kept, and what is compared. *)

\* An alias is written with its record, and keeps the ones it had.
LEMMA AliasesKeptKept ==
    ASSUME Types, AliasesKeepTheirRecords, [Next]_vars
    PROVE  AliasesKeepTheirRecords'
<1>1. ASSUME NEW k \in known
      PROVE  \/ <<k[1], k[2]>> \in lateForms'
             \/ \E a \in AliasEdges(k[1], k[2])' : k[3] \in aliases'[a].records
  <2>1. CASE <<k[1], k[2]>> \in lateForms
    BY <2>1, AliasesGrow
  <2>2. ASSUME NEW a \in AliasEdges(k[1], k[2]), k[3] \in aliases[a].records
        PROVE  \/ <<k[1], k[2]>> \in lateForms'
               \/ \E b \in AliasEdges(k[1], k[2])' : k[3] \in aliases'[b].records
    <3>1. a \in DOMAIN aliases /\ aliases[a].node = k[1] /\ aliases[a].form = k[2]
      BY DEF AliasEdges
    <3>2. a \in AliasEdges(k[1], k[2])'
      BY <3>1, AliasesGrow DEF AliasEdges
    <3>3. QED
      BY <2>2, <3>1, <3>2, AliasesGrow
  <2>3. QED
    BY <2>1, <2>2 DEF AliasesKeepTheirRecords
<1>2. ASSUME NEW x \in Extractors, CommitAlias(x), NEW n, NEW form, NEW r,
             n = work[x].node, form = Form[work[x].record], r = work[x].record
      PROVE  /\ known' = known \union {<<n, form, r>>}
             /\ \E a \in AliasEdges(n, form)' : r \in aliases'[a].records
  <2>1. known' = known \union {<<n, form, r>>}
    BY <1>2 DEF CommitAlias
  <2>2. \E a \in DOMAIN aliases' :
           aliases'[a].node = n /\ aliases'[a].form = form /\ r \in aliases'[a].records
    BY <1>2, AliasWritten
  <2>3. QED
    BY <2>1, <2>2 DEF AliasEdges
<1>3. ASSUME NEW k \in known'
      PROVE  \/ <<k[1], k[2]>> \in lateForms'
             \/ \E a \in AliasEdges(k[1], k[2])' : k[3] \in aliases'[a].records
  <2>1. CASE k \in known
    BY <1>1, <2>1
  <2>2. CASE k \notin known
    <3>1. PICK x \in Extractors : CommitAlias(x)
      BY <2>2, AliasesStep
    <3>2. PICK n, form, r : n = work[x].node /\ form = Form[work[x].record] /\ r = work[x].record
      OBVIOUS
    <3>3. k = <<n, form, r>> /\ \E a \in AliasEdges(n, form)' : r \in aliases'[a].records
      BY <1>2, <2>2, <3>1, <3>2
    <3>4. k[1] = n /\ k[2] = form /\ k[3] = r
      BY <3>3
    <3>5. QED
      BY <3>3, <3>4
  <2>3. QED
    BY <2>1, <2>2
<1>4. QED
  BY <1>3 DEF AliasesKeepTheirRecords, AliasEdges

\* An entity is created beside another of that identifier only by who did not
\* ask, or on an outdated answer.
LEMMA OneNodeKept ==
    ASSUME Types, OneNodePerIdentifier, [Next]_vars
    PROVE  OneNodePerIdentifier'
<1>1. CASE UNCHANGED <<nodes, unasked>>
  BY <1>1 DEF OneNodePerIdentifier, NodeIds
<1>2. nodes \in Seq(Node) /\ Len(nodes) \in Nat /\ NodeIds = 1 .. Len(nodes)
  BY DEF Types, GraphOK, NodeIds
<1>3. ASSUME NEW n, NEW v, n = Len(nodes) + 1, nodes' = Append(nodes, v),
             unasked \subseteq unasked',
             v.ident # NoIdent /\ (\E m \in NodeIds : nodes[m].ident = v.ident) => n \in unasked'
      PROVE  OneNodePerIdentifier'
  <2>1. /\ DOMAIN nodes' = 1 .. n /\ nodes'[n] = v
        /\ \A m \in NodeIds : nodes'[m] = nodes[m]
    BY <1>2, <1>3
  <2>2. ASSUME NEW m \in DOMAIN nodes', NEW k \in DOMAIN nodes', m < k,
               nodes'[m].ident = nodes'[k].ident, nodes'[m].ident # NoIdent
        PROVE  k \in unasked'
    <3>1. m \in NodeIds /\ nodes'[m] = nodes[m]
      BY <1>2, <1>3, <2>1, <2>2
    <3>2. CASE k \in NodeIds
      BY <1>3, <2>1, <2>2, <3>1, <3>2 DEF OneNodePerIdentifier
    <3>3. CASE k = n
      BY <1>3, <2>1, <2>2, <3>1, <3>3
    <3>4. QED
      BY <1>2, <1>3, <2>1, <3>2, <3>3
  <2>3. QED
    BY <2>2 DEF OneNodePerIdentifier, NodeIds
<1>4. ASSUME NEW x \in Extractors, CommitNew(x)
      PROVE  OneNodePerIdentifier'
  <2>1. PICK w : w = work[x]
    OBVIOUS
  <2>2. WorkOK(w) /\ w.at = "resolved" /\ ~w.answer.definitive
    BY <1>4, <2>1 DEF Types, WorksOK, CommitNew
  <2>3. PICK v : v = [name |-> Name[w.record], ident |-> Ident[w.record]]
    OBVIOUS
  <2>4. PICK n :
           /\ nodes' = nodes \/ (n = Len(nodes) + 1 /\ nodes' = Append(nodes, v))
           /\ unasked' = IF nodes' # nodes /\ w.asOf # Len(nodes)
                         THEN unasked \union {n} ELSE unasked
    BY <1>4, <2>1, <2>3 DEF CommitNew, CreateEntity
  <2>5. CASE nodes' = nodes
    BY <1>1, <2>4, <2>5
  <2>6. CASE nodes' # nodes
    <3>1. ASSUME v.ident # NoIdent, NEW m \in NodeIds, nodes[m].ident = v.ident
          PROVE  n \in unasked'
      <4>1. w.asOf # Len(nodes)
        BY <1>2, <2>2, <2>3, <3>1 DEF WorkOK
      <4>2. QED
        BY <2>4, <2>6, <4>1
    <3>2. QED
      BY <1>3, <2>4, <2>6, <3>1
  <2>7. QED
    BY <2>5, <2>6
<1>5. ASSUME NEW x \in Extractors, NEW r \in Records, CommitSeed(x, r)
      PROVE  OneNodePerIdentifier'
  <2>1. PICK v : v = [name |-> Name[r], ident |-> Ident[r]]
    OBVIOUS
  <2>2. PICK n :
           /\ nodes' = nodes \/ (n = Len(nodes) + 1 /\ nodes' = Append(nodes, v))
           /\ unasked' = IF nodes' # nodes THEN unasked \union {n} ELSE unasked
    BY <1>5, <2>1 DEF CommitSeed, CreateEntity
  <2>3. CASE nodes' = nodes
    BY <1>1, <2>2, <2>3
  <2>4. CASE nodes' # nodes
    BY <1>3, <2>2, <2>4
  <2>5. QED
    BY <2>3, <2>4
<1>6. QED
  BY <1>1, <1>4, <1>5, NodesStep

\* A fact that is still to be judged with its rivals stays so until it is.
LEMMA PendingLasts ==
    ASSUME Types, Grows, [Next]_vars, NEW e \in EdgeIds, Pending(e)
    PROVE  \/ Pending(e)'
           \/ \E c \in Curators : Judge(c, e) /\ scan[c].record = RecordOf[edges[e].fact]
<1>1. PICK r : r = RecordOf[edges[e].fact]
  OBVIOUS
<1>2. /\ r \in queued
      /\ \A c \in Curators : scan[c].record = r /\ scan[c].at \in {"scanning", "marking"} =>
            e \in scan[c].triggers
  BY <1>1 DEF Pending
<1>3. RecordOf[edges'[e].fact] = r
  BY <1>1 DEF Grows
<1>4. r \in queued'
  <2>1. ASSUME NEW c \in Curators, Curated(c)
        PROVE  r \in queued'
    BY <1>2, <2>1 DEF Curated, CuratorAt
  <2>2. QED
    BY <1>2, <2>1, QueueStep DEF IndexNothing, MarkIndexed, Enqueue, graphVars
<1>5. ASSUME NEW c \in Curators, scan'[c].record = r, scan'[c].at \in {"scanning", "marking"},
             ~(Judge(c, e) /\ scan[c].record = r)
      PROVE  e \in scan'[c].triggers
  <2>1. CASE scan'[c] = scan[c]
    BY <1>2, <1>5, <2>1
  <2>2. CASE \E q \in Records : Claim(c, q)
    BY <1>5, <2>2 DEF Claim, NoScan, Types, ScansOK
  <2>3. CASE Curated(c) \/ CurationFails(c)
    BY <1>5, <2>3 DEF Curated, CurationFails, NoScan, Types, ScansOK
  <2>4. CASE \E d \in EdgeIds : Expire(c, d) \/ MarkSibling(c, d)
    <3>1. \E k : /\ scan' = [scan EXCEPT ![c] = k]
                 /\ k.at = scan[c].at /\ k.record = scan[c].record
                 /\ k.triggers = scan[c].triggers
      BY <2>4, MarkedOffScans DEF Expire, MarkSibling
    <3>2. QED
      BY <1>2, <1>5, <3>1 DEF Types, ScansOK
  <2>5. CASE UpgradeAndScan(c)
    <3>1. scan'[c].record = scan[c].record /\ scan'[c].triggers = EdgesOf(scan[c].record)
      BY <2>5, UpgradeScans DEF Types, ScansOK
    <3>2. e \in EdgesOf(r)
      BY <1>1, OneSource DEF EdgesOf, Types, GraphOK
    <3>3. QED
      BY <1>5, <3>1, <3>2
  <2>6. ASSUME NEW t \in EdgeIds, Judge(c, t)
        PROVE  e \in scan'[c].triggers
    <3>1. scan'[c].record = scan[c].record /\ scan'[c].triggers = scan[c].triggers \ {t}
      BY <2>6, JudgeScans DEF Types, ScansOK
    <3>2. scan[c].record = r /\ e # t
      BY <1>5, <2>6, <3>1
    <3>3. scan[c].at = "scanning"
      BY <2>6 DEF Judge, CuratorAt
    <3>4. QED
      BY <1>2, <3>1, <3>2, <3>3
  <2>7. CASE MarkTrigger(c)
    <3>1. scan'[c].record = scan[c].record /\ scan'[c].triggers = scan[c].triggers
      BY <2>7, MarkTriggerScans DEF Types, ScansOK
    <3>2. QED
      BY <1>2, <1>5, <2>7, <3>1 DEF MarkTrigger, CuratorAt
  <2>8. \/ scan'[c] = scan[c]
        \/ \E q \in Records : Claim(c, q)
        \/ \E d \in EdgeIds : Expire(c, d) \/ Judge(c, d) \/ MarkSibling(c, d)
        \/ UpgradeAndScan(c) \/ MarkTrigger(c) \/ Curated(c) \/ CurationFails(c)
    <3>1. ASSUME NEW b \in Curators, b # c, NEW k, scan' = [scan EXCEPT ![b] = k]
          PROVE  scan'[c] = scan[c]
      BY <3>1 DEF Types, ScansOK
    <3>2. ASSUME NEW b \in Curators, b # c,
                 \/ \E q \in Records : Claim(b, q)
                 \/ \E d \in EdgeIds : Expire(b, d) \/ Judge(b, d) \/ MarkSibling(b, d)
                 \/ UpgradeAndScan(b) \/ MarkTrigger(b) \/ Curated(b) \/ CurationFails(b)
          PROVE  scan'[c] = scan[c]
      <4>1. \E k : scan' = [scan EXCEPT ![b] = k]
        <5>1. CASE Curated(b) \/ CurationFails(b)
          BY <5>1 DEF Curated, CurationFails
        <5>2. ASSUME NEW d \in EdgeIds, Expire(b, d) \/ MarkSibling(b, d)
              PROVE  \E k : scan' = [scan EXCEPT ![b] = k]
          BY <5>2, MarkedOffScans DEF Expire, MarkSibling
        <5>3. QED
          BY <3>2, <5>1, <5>2, ClaimScans, UpgradeScans, JudgeScans, MarkTriggerScans
      <4>2. QED
        BY <3>1, <3>2, <4>1
    <3>3. QED
      BY <3>2, ScansStep
  <2>9. QED
    BY <2>1, <2>2, <2>3, <2>4, <2>5, <2>6, <2>7, <2>8
<1>6. CASE \E c \in Curators : Judge(c, e) /\ scan[c].record = r
  BY <1>1, <1>6
<1>7. CASE \A c \in Curators : ~(Judge(c, e) /\ scan[c].record = r)
  BY <1>3, <1>4, <1>5, <1>7 DEF Pending
<1>8. QED
  BY <1>6, <1>7

\* A record that is queued for the first time is with no curator yet.
LEMMA NewlyPending ==
    ASSUME Types, Grows, NEW x \in Extractors, Enqueue(x), NEW e \in EdgeIds,
           RecordOf[edges[e].fact] = work[x].record
    PROVE  Pending(e)'
<1>1. PICK r : r = work[x].record
  OBVIOUS
<1>2. r \in queued' /\ UNCHANGED scan
  BY <1>1 DEF Enqueue, scanVars
<1>3. r \notin Sent
  BY <1>1 DEF Types, WorksOK, WorkOK, Enqueue
<1>4. \A c \in Curators : scan[c].at \in {"scanning", "marking"} => scan[c].record # r
  BY <1>3 DEF Types, ScansOK, ScanOK
<1>5. RecordOf[edges'[e].fact] = r
  BY <1>1 DEF Grows
<1>6. QED
  BY <1>2, <1>4, <1>5 DEF Pending

\* The judge is asked of a fact and of all its rivals.
LEMMA JudgedTogether ==
    ASSUME Types, NEW c \in Curators, NEW d \in EdgeIds, NEW e \in EdgeIds, Judge(c, d),
           scan[c].record = RecordOf[edges[d].fact],
           edges[d].from = edges[e].from, ~edges[e].stale,
           RecordOf[edges[d].fact] # RecordOf[edges[e].fact]
    PROVE  {d, e} \in compared'
<1>1. d # e /\ SourceIds(e) = {RecordOf[edges[e].fact]}
  BY OneSource DEF Types, GraphOK
<1>2. e \in Siblings(d, scan[c].record)
  BY <1>1 DEF Siblings
<1>3. QED
  BY <1>2 DEF Judge

\* A step keeps every two rivals compared, or one of them yet to be put to
\* the judge.
LEMMA RivalsMeetKept ==
    ASSUME Types, RivalsMeet, [Next]_vars
    PROVE  RivalsMeet'
<1> SUFFICES ASSUME NEW d \in DOMAIN edges', NEW e \in DOMAIN edges', Rivals(d, e)'
             PROVE  {d, e} \in compared' \/ Pending(d)' \/ Pending(e)'
  BY DEF RivalsMeet, EdgeIds
<1>1. Grows
  BY GraphGrows
<1>2. compared \subseteq compared'
  BY JudgeStep DEF Judge
<1>3. ASSUME NEW g \in DOMAIN edges', RecordOf[edges'[g].fact] \in Sent'
      PROVE  g \in EdgeIds
  <2> SUFFICES ASSUME g \notin EdgeIds PROVE FALSE
    OBVIOUS
  <2>1. PICK x \in Extractors, f \in Facts : CommitFact(x, f) /\ edges'[g].fact = f
    BY EdgeBefore
  <2>2. RecordOf[f] = work[x].record
    BY <2>1, FactWritten
  <2>3. work[x].record \notin extracted /\ Sent' = Sent
    BY <2>1 DEF Types, WorksOK, WorkOK, CommitFact, Sent, scanVars
  <2>4. QED
    BY <1>3, <2>1, <2>2, <2>3 DEF Types, RestOK
<1>4. d \in EdgeIds /\ e \in EdgeIds
  BY <1>3 DEF Rivals
<1>5. /\ edges[d].from = edges[e].from
      /\ ~edges[d].stale /\ ~edges[e].stale
      /\ RecordOf[edges[d].fact] # RecordOf[edges[e].fact]
      /\ RecordOf[edges[d].fact] \in Sent'
      /\ RecordOf[edges[e].fact] \in Sent'
  BY <1>1, <1>4 DEF Rivals, Grows
<1>6. CASE RecordOf[edges[d].fact] \in Sent /\ RecordOf[edges[e].fact] \in Sent
  <2>1. Rivals(d, e)
    BY <1>5, <1>6 DEF Rivals
  <2>2. CASE {d, e} \in compared
    BY <1>2, <2>2
  <2>3. CASE Pending(d)
    BY <1>1, <1>4, <1>5, <2>3, PendingLasts, JudgedTogether
  <2>4. CASE Pending(e)
    <3>1. CASE Pending(e)'
      BY <3>1
    <3>2. CASE \E c \in Curators : Judge(c, e) /\ scan[c].record = RecordOf[edges[e].fact]
      <4>1. {e, d} \in compared'
        BY <1>4, <1>5, <3>2, JudgedTogether
      <4>2. {e, d} = {d, e}
        OBVIOUS
      <4>3. QED
        BY <4>1, <4>2
    <3>3. QED
      BY <1>1, <1>4, <2>4, <3>1, <3>2, PendingLasts
  <2>5. QED
    BY <1>4, <2>1, <2>2, <2>3, <2>4 DEF RivalsMeet
<1>7. ASSUME NEW g \in EdgeIds, RecordOf[edges[g].fact] \in Sent',
             RecordOf[edges[g].fact] \notin Sent
      PROVE  Pending(g)'
  <2>1. ASSUME NEW c \in Curators, Curated(c)
        PROVE  FALSE
    <3>1. scan[c].record \in Sent
      BY <2>1 DEF Curated, CuratorAt, Types, ScansOK, ScanOK
    <3>2. QED
      BY <1>7, <2>1, <3>1 DEF Curated, Sent
  <2>2. PICK x \in Extractors : Enqueue(x) /\ RecordOf[edges[g].fact] = work[x].record
    BY <1>7, <2>1, QueueStep DEF IndexNothing, MarkIndexed, Enqueue, Sent, graphVars, scanVars
  <2>3. QED
    BY <1>1, <2>2, NewlyPending
<1>8. QED
  BY <1>4, <1>5, <1>6, <1>7

-----------------------------------------------------------------------------
(* The theorems. *)

\* The graph, the extractions and the scans are in order.
THEOREM TypeCorrect == Spec => []TypeOK
BY TypesHold, TypesSuffice, PTL

\* A record for which an alias was written is kept with it, whatever failed and
\* was repeated (graph.py:651), unless another extraction wrote the alias
\* between the lookup and the write.
THEOREM AliasesKept == Spec => []AliasesKeepTheirRecords
<1>1. Init => AliasesKeepTheirRecords
  BY DEF Init, AliasesKeepTheirRecords
<1>2. Types /\ AliasesKeepTheirRecords /\ [Next]_vars => AliasesKeepTheirRecords'
  BY AliasesKeptKept
<1>3. QED
  BY <1>1, <1>2, TypesHold, PTL DEF Spec

\* The later one of two entities of one email or domain was created by a seed, or
\* on an outdated answer (graph_access_tools.py:321, extraction.py:499).
THEOREM OneEntityPerIdentifier == Spec => []OneNodePerIdentifier
<1>1. Init => OneNodePerIdentifier
  BY DEF Init, GraphInit, OneNodePerIdentifier, NodeIds
<1>2. Types /\ OneNodePerIdentifier /\ [Next]_vars => OneNodePerIdentifier'
  BY OneNodeKept
<1>3. QED
  BY <1>1, <1>2, TypesHold, PTL DEF Spec

\* Facts told of one subject by two records that were curated were put to the
\* judge together, in whatever order they came and were curated, and whatever
\* failed in between (curation.py:216).
THEOREM FactsCompared == Spec => []FactsToldWereCompared
<1>1. Init => RivalsMeet
  BY DEF Init, GraphInit, RivalsMeet, EdgeIds
<1>2. Types /\ RivalsMeet /\ [Next]_vars => RivalsMeet'
  BY RivalsMeetKept
<1>3. Types /\ RivalsMeet => FactsToldWereCompared
  <2> SUFFICES ASSUME Types, RivalsMeet, NEW n \in NodeIds,
                      NEW d \in FactsForEntity(n), NEW e \in FactsForEntity(n),
                      SourceIds(d) \cap SourceIds(e) = {},
                      edges[d].from = edges[e].from,
                      (SourceIds(d) \union SourceIds(e)) \subseteq curated
               PROVE  {d, e} \in compared
    BY DEF FactsToldWereCompared
  <2>1. d \in EdgeIds /\ e \in EdgeIds
    BY DEF FactsForEntity
  <2>2. /\ SourceIds(d) = {RecordOf[edges[d].fact]}
        /\ SourceIds(e) = {RecordOf[edges[e].fact]}
    BY <2>1, OneSource DEF Types, GraphOK
  <2>3. Rivals(d, e)
    BY <2>2 DEF Rivals, FactsForEntity, Sent
  <2>4. ~Pending(d) /\ ~Pending(e)
    BY <2>2 DEF Pending, Types, RestOK
  <2>5. QED
    BY <2>1, <2>3, <2>4 DEF RivalsMeet
<1>4. QED
  BY <1>1, <1>2, <1>3, TypesHold, PTL DEF Spec

-----------------------------------------------------------------------------
(* The timeline of a fact *)

\* The edges before h on its timeline, h included: the least set that holds h
\* and what is replaced by its members.
Behind(S) == {x \in EdgeIds : edges[x].replacedBy \in S}

Before(h) ==
    {x \in EdgeIds : \A S \in SUBSET EdgeIds : h \in S /\ Behind(S) \subseteq S => x \in S}

\* What is replaced by a member is a member, and every member but h is
\* replaced by one: without it the others would be a smaller such set.
LEMMA BeforeIsLeast ==
    ASSUME NEW h \in EdgeIds
    PROVE  /\ h \in Before(h)
           /\ Behind(Before(h)) \subseteq Before(h)
           /\ \A x \in Before(h) \ {h} : edges[x].replacedBy \in Before(h)
<1>1. h \in Before(h) /\ Behind(Before(h)) \subseteq Before(h)
  BY DEF Before, Behind
<1>2. ASSUME NEW x \in Before(h) \ {h}, edges[x].replacedBy \notin Before(h)
      PROVE  FALSE
  <2> DEFINE S == Before(h) \ {x}
  <2>1. S \in SUBSET EdgeIds /\ h \in S
    BY <1>1 DEF Before
  <2>2. Behind(S) \subseteq S
    BY <1>1, <1>2 DEF Behind
  <2>3. QED
    BY <1>2, <2>1, <2>2 DEF Before
<1>3. QED
  BY <1>1, <1>2

\* The timeline of e is the least set that holds e and that no link leads out of.
LEMMA HistoryIsLeast ==
    ASSUME NEW e \in EdgeIds
    PROVE  /\ FactHistory(e) \in SUBSET EdgeIds
           /\ e \in FactHistory(e)
           /\ Isolated(FactHistory(e))
           /\ \A S \in SUBSET EdgeIds : e \in S /\ Isolated(S) => FactHistory(e) \subseteq S
<1>1. ASSUME NEW S \in SUBSET EdgeIds, e \in S, Isolated(S),
             NEW x \in FactHistory(e), x \notin S
      PROVE  FALSE
  <2>1. S \in SUBSET (EdgeIds \ {x})
    BY <1>1
  <2>2. QED
    BY <1>1, <2>1 DEF FactHistory
<1>2. ASSUME NEW y \in FactHistory(e), NEW x \in EdgeIds, Linked(y, x)
      PROVE  x \in FactHistory(e)
  <2>1. ASSUME NEW S \in SUBSET (EdgeIds \ {x}), e \in S, Isolated(S)
        PROVE  FALSE
    <3>1. y \in S
      BY <1>1, <2>1
    <3>2. QED
      BY <1>2, <2>1, <3>1 DEF Isolated
  <2>2. QED
    BY <2>1 DEF FactHistory
<1>3. QED
  BY <1>1, <1>2 DEF FactHistory, Isolated

\* Two ends of one timeline are the same: what comes before one of them has no
\* neighbour outside, so that it is all of the timeline, and the other end,
\* which nothing replaced, cannot come before it.
LEMMA EndsAreOne ==
    ASSUME Types, NEW e \in EdgeIds,
           NEW h \in FactHistory(e), edges[h].replacedBy = 0,
           NEW k \in FactHistory(e), edges[k].replacedBy = 0
    PROVE  h = k
<1> DEFINE C == FactHistory(e)
           A == Before(h)
<1>1. h \in EdgeIds /\ k \in EdgeIds /\ 0 \notin EdgeIds
  <2>1. edges \in Seq(Edges)
    BY DEF Types, GraphOK
  <2>2. QED
    BY <2>1, HistoryIsLeast DEF EdgeIds
<1>2. /\ A \in SUBSET EdgeIds /\ h \in A /\ Behind(A) \subseteq A
      /\ \A x \in A \ {h} : edges[x].replacedBy \in A
  BY <1>1, BeforeIsLeast DEF Before
<1>3. ASSUME NEW x \in EdgeIds, NEW y \in EdgeIds, edges[x].replacedBy = y
      PROVE  x \in A <=> y \in A
  BY <1>1, <1>2, <1>3 DEF Behind
<1>4. e \in A
  <2> SUFFICES ASSUME e \notin A PROVE FALSE
    OBVIOUS
  <2>1. C \ A \in SUBSET EdgeIds /\ e \in C \ A
    BY HistoryIsLeast
  <2>2. Isolated(C \ A)
    BY <1>2, <1>3, <2>1, HistoryIsLeast DEF Isolated, Linked
  <2>3. C \subseteq C \ A
    BY <2>1, <2>2, HistoryIsLeast
  <2>4. QED
    BY <1>2, <2>3
<1>5. Isolated(A)
  BY <1>2, <1>3 DEF Isolated, Linked
<1>6. k \in A
  BY <1>2, <1>4, <1>5, HistoryIsLeast
<1>7. QED
  BY <1>1, <1>2, <1>6

\* The timeline of a fact has one end, however verdicts on stale facts have
\* rewritten successors (curation.py:238-277), if the judge never went in a
\* circle: none is without an end, since what a fact was replaced by was judged
\* to supersede it, and none has two.
THEOREM OneEnd == Spec => []TimelineHasOneEnd
<1>1. ASSUME Types, JudgeConsistent, NEW e \in EdgeIds
      PROVE  Cardinality({h \in FactHistory(e) : edges[h].replacedBy = 0}) = 1
  <2> DEFINE C == FactHistory(e)
  <2>1. C \in SUBSET EdgeIds /\ C # {} /\ Isolated(C)
    BY HistoryIsLeast
  <2>2. PICK h \in C : \A d \in C : <<d, h>> \notin judged
    BY <1>1, <2>1 DEF JudgeConsistent
  <2>3. edges[h].replacedBy = 0
    <3>1. h \in EdgeIds /\ EdgeOK(h)
      BY <1>1, <2>1 DEF Types, GraphOK
    <3>2. edges[h].replacedBy # 0 => edges[h].replacedBy \in C
      BY <2>1, <3>1 DEF EdgeOK, Isolated, Linked
    <3>3. QED
      BY <2>2, <3>1, <3>2 DEF EdgeOK
  <2>4. {k \in C : edges[k].replacedBy = 0} = {h}
    BY <1>1, <2>3, EndsAreOne
  <2>5. QED
    BY <2>4, FS_Singleton
<1>2. Types => TimelineHasOneEnd
  BY <1>1 DEF TimelineHasOneEnd
<1>3. QED
  BY <1>2, TypesHold, PTL
=============================================================================
