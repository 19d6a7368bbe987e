------------------------------ MODULE FactGraph ------------------------------
(***************************************************************************)
(* The knowledge graph in Neo4j: entity nodes, the self-edges that carry   *)
(* aliases, and fact edges.  A Cypher statement is one step.  A node, an   *)
(* alias edge and a fact edge are named by their place in the order of     *)
(* creation.  A fact edge that anchors to a day points at 0.               *)
(***************************************************************************)
EXTENDS Integers, Sequences, FiniteSets

CONSTANTS
    Records,    \* the records extraction is given
    Names,      \* surface forms
    Within,     \* the pairs <<q, n>> such that the name q is a substring of n
    NoIdent,    \* "no email, no domain"
    Idents,     \* emails and domains
    Facts,      \* the facts the records state
    RecordOf,   \* the record that states a fact
    SourceAt,   \* when it became true
    Inferred,   \* the facts extracted with confidence "inferred"
    Dated,      \* the commitments and promises with a valid_until
    Relational, \* the facts that name a second entity
    NameLimit,  \* how many hits of a name, and
    FuzzyLimit, \* of a part of a name, resolve_entity shows: 5 and 3
    MaxChain    \* how many facts get_fact_history follows: 50

ASSUME GraphAssumption ==
    /\ Within \subseteq Names \X (Names \union Idents)
    /\ \A n \in Names : <<n, n>> \in Within
    /\ NoIdent \notin Idents
    /\ RecordOf \in [Facts -> Records]
    /\ SourceAt \in [Facts -> Nat]
    /\ Inferred \subseteq Facts
    /\ Dated \subseteq Facts
    /\ Relational \subseteq Facts
    /\ NameLimit \in Nat \ {0, 1}
    /\ FuzzyLimit \in Nat \ {0}
    /\ MaxChain \in Nat

VARIABLES
    nodes,    \* entities: name, and email or domain
    aliases,  \* IDENTIFIED_AS edges: the node, surface_form, source_records
    edges,    \* fact edges
    queued    \* the table curator_queue: records extraction has finished

graphVars == <<nodes, aliases, edges, queued>>

NodeIds == DOMAIN nodes
EdgeIds == DOMAIN edges

\* A fact edge; replacedBy is 0 for NULL.
Edges == [fact : Facts, from : Nat \ {0}, to : Nat, stated : BOOLEAN,
          sources : SUBSET (Records \X BOOLEAN), stale : BOOLEAN, replacedBy : Nat]

GraphTypeOK ==
    /\ nodes \in Seq([name : Names, ident : Idents \union {NoIdent}])
    /\ aliases \in Seq([node : NodeIds, form : Names, records : SUBSET Records])
    /\ edges \in Seq(Edges)
    /\ \A e \in EdgeIds :
          /\ edges[e].from \in NodeIds
          /\ edges[e].to \in NodeIds \union {0}
          /\ edges[e].replacedBy \in EdgeIds \union {0}
          /\ edges[e].replacedBy # 0 => edges[e].stale
    /\ queued \in SUBSET Records

GraphInit ==
    /\ nodes = << >>
    /\ aliases = << >>
    /\ edges = << >>
    /\ queued = {}

-----------------------------------------------------------------------------
(* Entities *)

\* _identifier_hit: LIMIT 1 makes it one of these.
IdentifierHits(ident) == {n \in NodeIds : ident # NoIdent /\ nodes[n].ident = ident}

ExactNameHits(name) == {n \in NodeIds : nodes[n].name = name}

\* The alias edges of a form: an entity that has two of them is found twice.
AliasHits(form) == {a \in DOMAIN aliases : aliases[a].form = form}

\* search_entities.
FuzzyHits(q) ==
    {n \in NodeIds : <<q, nodes[n].name>> \in Within \/ <<q, nodes[n].ident>> \in Within}

\* LIMIT: what a query may return of S.
LimitTo(k, S) ==
    {T \in SUBSET S : IF Cardinality(S) <= k THEN T = S ELSE Cardinality(T) = k}

Answer(definitive, hits) == [definitive |-> definitive, hits |-> hits]

\* The names a record has: exact ones first, then aliases, then parts of names.
ByName(name) ==
    LET exact == ExactNameHits(name)
        alias == AliasHits(name)
    IN  CASE exact # {} ->
               {Answer(Cardinality(T) = 1, T) : T \in LimitTo(NameLimit, exact)}
          [] exact = {} /\ alias # {} ->
               {Answer(Cardinality(T) = 1, {aliases[a].node : a \in T}) :
                   T \in LimitTo(NameLimit, alias)}
          [] OTHER -> {Answer(FALSE, T) : T \in LimitTo(FuzzyLimit, FuzzyHits(name))}

\* MUTANT: the identifier is not tried.
ResolveByName(name, ident) == ByName(name)

\* The tool resolve_entity: what it may answer.
ResolveEntity(name, ident) ==
    IF IdentifierHits(ident) # {}
    THEN {Answer(TRUE, {n}) : n \in IdentifierHits(ident)}
    ELSE ByName(name)

\* create_entity: MERGE on name and identifier, or on the name alone, which
\* any node of that name satisfies.  n is the node it returns.
CreateEntity(name, ident, n) ==
    LET merged == {m \in ExactNameHits(name) : ident \in {NoIdent, nodes[m].ident}}
    IN  IF merged # {}
        THEN n \in merged /\ UNCHANGED nodes
        ELSE /\ n = Len(nodes) + 1
             /\ nodes' = Append(nodes, [name |-> name, ident |-> ident])

\* create_identified_as_edge, its first statement: the records of the alias,
\* or none if there is no such edge.
AliasEdges(n, form) ==
    {a \in DOMAIN aliases : aliases[a].node = n /\ aliases[a].form = form}

\* MUTANT: the edge is given the new record only.
WriteAliasAfresh(n, form, known, r) ==
    aliases' = IF known = {}
               THEN Append(aliases, [node |-> n, form |-> form, records |-> {r}])
               ELSE [a \in DOMAIN aliases |->
                       IF a \in AliasEdges(n, form)
                       THEN [aliases[a] EXCEPT !.records = {r}]
                       ELSE aliases[a]]

\* ... its second: `known` is what the first returned.
WriteAlias(n, form, known, r) ==
    aliases' = IF known = {}
               THEN Append(aliases, [node |-> n, form |-> form, records |-> {r}])
               ELSE [a \in DOMAIN aliases |->
                       IF a \in AliasEdges(n, form)
                       THEN [aliases[a] EXCEPT !.records = known \union {r}]
                       ELSE aliases[a]]

-----------------------------------------------------------------------------
(* Fact edges *)

SourceIds(e) == {s[1] : s \in edges[e].sources}

\* find_exact_dup_edge: the same text, ends and source record.
ExactDups(f, n, to) ==
    {e \in EdgeIds : /\ edges[e].fact = f /\ edges[e].from = n /\ edges[e].to = to
                     /\ RecordOf[f] \in SourceIds(e)}

\* append_source_record: does nothing for a record that is there already.
AppendSource(e, r, stated) ==
    IF r \in SourceIds(e)
    THEN UNCHANGED edges
    ELSE edges' = [edges EXCEPT ![e].sources = @ \union {<<r, stated>>}]

\* create_fact_edge.
CreateFactEdge(f, n, to) ==
    edges' = Append(edges,
        [fact |-> f, from |-> n, to |-> to, stated |-> f \notin Inferred,
         sources |-> {<<RecordOf[f], f \notin Inferred>>},
         stale |-> FALSE, replacedBy |-> 0])

\* Extraction._write_fact_edge.
WriteFact(f, n, to) ==
    IF ExactDups(f, n, to) # {}
    THEN \E e \in ExactDups(f, n, to) : AppendSource(e, RecordOf[f], f \notin Inferred)
    ELSE CreateFactEdge(f, n, to)

\* MUTANT: the successor is noted, the edge stays current.
NoteReplacement(e, by) == edges' = [edges EXCEPT ![e].replacedBy = by]

\* mark_fact_stale: whatever the edge said before.
MarkFactStale(e, by) ==
    edges' = [edges EXCEPT ![e].stale = TRUE, ![e].replacedBy = by]

\* get_expired_commitments; `past` are those whose valid_until is over.
ExpiredCommitments(past) == {e \in EdgeIds : ~edges[e].stale /\ edges[e].fact \in past}

\* get_inferred_multi_source_edges, those a record states among them.
Upgradable ==
    {e \in EdgeIds :
        /\ ~edges[e].stale
        /\ ~edges[e].stated
        /\ Cardinality(edges[e].sources) > 1
        /\ \E s \in edges[e].sources : s[2]}

\* get_edges_by_source_record: stale ones as well.
EdgesOf(r) == {e \in EdgeIds : r \in SourceIds(e)}

\* MUTANT: only what the trigger may be later than.
EarlierSiblings(t, r) ==
    {s \in EdgeIds \ {t} :
        /\ edges[s].from = edges[t].from
        /\ ~edges[s].stale
        /\ r \notin SourceIds(s)
        /\ SourceAt[edges[s].fact] <= SourceAt[edges[t].fact]}

\* get_supersession_siblings.
Siblings(t, r) ==
    {s \in EdgeIds \ {t} :
        /\ edges[s].from = edges[t].from
        /\ ~edges[s].stale
        /\ r \notin SourceIds(s)}

\* get_facts_for_entity, in either direction: what is told of an entity.
FactsForEntity(n) == {e \in EdgeIds : n \in {edges[e].from, edges[e].to} /\ ~edges[e].stale}

\* get_fact_history: along replaced_by, forward and backward, until nothing new
\* is met.  A history of more than MaxChain facts is cut off.
Linked(d, e) == edges[d].replacedBy = e \/ edges[e].replacedBy = d

Isolated(S) == \A d \in S : \A e \in EdgeIds \ S : ~Linked(d, e)

FactHistory(e) ==
    {x \in EdgeIds : \A S \in SUBSET (EdgeIds \ {x}) : e \in S => ~Isolated(S)}
=============================================================================
