------------------------------- MODULE Intents -------------------------------
(***************************************************************************)
(* The table `intent_details`: the mutable state of the planned actions    *)
(* ("intents"), edited by MCP calls.  Every call is one READ COMMITTED     *)
(* transaction: each of its SELECTs sees what was committed by then, and   *)
(* it writes once, at its end.  Calls of several clients, or of several    *)
(* MCP processes, interleave at the statements.                            *)
(*                                                                         *)
(* The n-th intent to be inserted is named n; its uuid says no more.       *)
(***************************************************************************)
EXTENDS Integers, FiniteSets

CONSTANTS
    Intents,    \* the intents that may come to exist: 1 .. n
    Submitted,  \* those that exist in the beginning, unrelated to one another
    NoIntent,   \* NULL for a parent_record_id
    Statuses,   \* the statuses told apart, of VALID_STATUSES
    Callers,    \* the clients; each makes one call at a time
    Makes,      \* which operations each of them calls
    Lists,      \* the values of depends_on they pass
    MaxCalls    \* bound on the calls of a behaviour

ASSUME IntentsAssumption ==
    /\ Intents \subseteq Nat
    /\ Submitted \subseteq Intents
    /\ NoIntent \notin Intents
    /\ Statuses \subseteq {"todo", "in_progress", "done", "cancelled"}
    /\ "todo" \in Statuses
    /\ Makes \in [Callers -> SUBSET {"submit", "parent", "dependencies", "status", "tree"}]
    /\ Lists \subseteq SUBSET Intents
    /\ MaxCalls \in Nat

VARIABLES
    status,       \* intent_details.status; "absent" before the row exists
    parent,       \* intent_details.parent_record_id
    dependsOn,    \* intent_details.depends_on, as a set
    call,         \* what each caller is in the middle of
    calls,        \* calls made so far
    racedParent,  \* history: intents re-parented on an outdated check
    racedDeps     \* history: intents given dependencies on an outdated check

sidecarVars == <<status, parent, dependsOn>>
racedVars   == <<racedParent, racedDeps>>
intentVars  == <<sidecarVars, call, calls, racedVars>>

(***************************************************************************)
(* A call: the operation, the intent it edits, the parent, dependencies    *)
(* and status it was given, the statement it is at, the rows still to be   *)
(* walked from and walked from already, the dependencies whose walk has    *)
(* not begun, and whether the graph was edited under its walk (history).   *)
(***************************************************************************)
Idle == [op |-> "none", id |-> NoIntent, to |-> NoIntent, deps |-> {},
         value |-> "todo", at |-> "idle", todo |-> {}, seen |-> {}, left |-> {},
         outdated |-> FALSE]

Existing == {i \in Intents : status[i] # "absent"}

TypeOK ==
    /\ status \in [Intents -> Statuses \union {"absent"}]
    /\ parent \in [Intents -> Existing \union {NoIntent}]
    /\ dependsOn \in [Intents -> SUBSET Existing]
    /\ calls \in 0 .. MaxCalls
    /\ racedParent \in SUBSET Existing
    /\ racedDeps \in SUBSET Existing
    /\ call \in [Callers ->
          [op       : {"none", "submit", "parent", "dependencies", "status", "tree"},
           id       : Intents \union {NoIntent},
           to       : Intents \union {NoIntent},
           deps     : SUBSET Intents,
           value    : Statuses,
           at       : {"idle", "parent", "existence", "walk up", "walk deps",
                       "write", "recursing"},
           todo     : SUBSET Intents,
           seen     : SUBSET Intents,
           left     : SUBSET Intents,
           outdated : BOOLEAN]]

Init ==
    /\ status = [i \in Intents |-> IF i \in Submitted THEN "todo" ELSE "absent"]
    /\ parent = [i \in Intents |-> NoIntent]
    /\ dependsOn = [i \in Intents |-> {}]
    /\ call = [c \in Callers |-> Idle]
    /\ calls = 0
    /\ racedParent = {}
    /\ racedDeps = {}

-----------------------------------------------------------------------------
(* A call moves on *)

Goes(c, at) == call' = [call EXCEPT ![c].at = at]

\* Its checks are passed, and what they kept is dropped.
Passes(c) ==
    call' = [call EXCEPT ![c].at = "write", ![c].todo = {}, ![c].seen = {}, ![c].left = {}]

\* It returns, or raises IntentError and rolls back.
Returns(c) == call' = [call EXCEPT ![c] = Idle]

Begins(c, k) ==
    /\ call[c].at = "idle"
    /\ k.op \in Makes[c]
    /\ calls < MaxCalls
    /\ calls' = calls + 1
    /\ call' = [call EXCEPT ![c] = k]
    /\ UNCHANGED <<sidecarVars, racedVars>>

\* MUTANT: a new parent is only checked for being eligible.
AfterParentNoWalk(k) ==
    IF k.op = "submit" /\ k.deps # {} THEN "existence" ELSE "write"

\* The statement after the parent check.
AfterParent(k) ==
    CASE k.op = "parent"                   -> "walk up"
      [] k.op = "submit" /\ k.deps # {}    -> "existence"
      [] OTHER                             -> "write"

-----------------------------------------------------------------------------
(* The calls *)

\* submit_intent; there is a name left for the new intent.
StartSubmit(c, p, D) ==
    /\ Cardinality(Existing) + Cardinality({d \in Callers : call[d].op = "submit"})
          < Cardinality(Intents)
    /\ Begins(c, [Idle EXCEPT !.op = "submit", !.to = p, !.deps = D,
                              !.at = IF p # NoIntent THEN "parent"
                                     ELSE IF D # {} THEN "existence" ELSE "write"])

\* set_intent_parent: an intent that is its own parent is refused at once.
StartSetParent(c, i, p) ==
    /\ p # i
    /\ Begins(c, [Idle EXCEPT !.op = "parent", !.id = i, !.to = p, !.todo = {p} \ {NoIntent},
                              !.at = IF p = NoIntent THEN "write" ELSE "parent"])

\* set_intent_dependencies.
StartSetDependencies(c, i, D) ==
    Begins(c, [Idle EXCEPT !.op = "dependencies", !.id = i, !.deps = D, !.left = D,
                           !.at = IF D = {} THEN "write" ELSE "existence"])

\* set_intent_status.
StartSetStatus(c, i, s) ==
    Begins(c, [Idle EXCEPT !.op = "status", !.id = i, !.value = s, !.at = "write"])

\* _assert_parent_eligible.
CheckParent(c) ==
    /\ call[c].at = "parent"
    /\ IF status[call[c].to] \in {"absent", "cancelled"}
       THEN Returns(c)
       ELSE Goes(c, AfterParent(call[c]))
    /\ UNCHANGED <<sidecarVars, calls, racedVars>>

\* MUTANT: dependencies are taken on trust.
TrustDependencies(c) ==
    /\ call[c].at = "existence"
    /\ Goes(c, IF call[c].op = "submit" THEN "write" ELSE "walk deps")
    /\ UNCHANGED <<sidecarVars, calls, racedVars>>

\* _assert_dependencies_exist.
CheckDependencies(c) ==
    /\ call[c].at = "existence"
    /\ IF call[c].deps \subseteq Existing
       THEN Goes(c, IF call[c].op = "submit" THEN "write" ELSE "walk deps")
       ELSE Returns(c)
    /\ UNCHANGED <<sidecarVars, calls, racedVars>>

\* MUTANT: only the proposed parent itself is compared with the intent.
LookUp(c) ==
    /\ call[c].at = "walk up"
    /\ \E cur \in call[c].todo :
          IF parent[cur] = call[c].id THEN Returns(c) ELSE Passes(c)
    /\ UNCHANGED <<sidecarVars, calls, racedVars>>

\* One turn of the loop of _would_form_cycle, and the SELECT it makes; `todo`
\* holds the current row.  A row met twice counts as a cycle.
WalkUp(c) ==
    /\ call[c].at = "walk up"
    /\ \E cur \in call[c].todo :
          IF cur = call[c].id \/ cur \in call[c].seen
          THEN Returns(c)
          ELSE IF parent[cur] = NoIntent
          THEN Passes(c)
          ELSE call' = [call EXCEPT ![c].todo = {parent[cur]}, ![c].seen = @ \union {cur}]
    /\ UNCHANGED <<sidecarVars, calls, racedVars>>

\* _would_form_dep_cycle takes the next dependency, with an empty `seen`.
WalkFromNext(c) ==
    /\ call[c].at = "walk deps"
    /\ call[c].todo = {}
    /\ IF call[c].left = {}
       THEN Passes(c)
       ELSE \E d \in call[c].left :
               IF d = call[c].id
               THEN Returns(c)
               ELSE call' = [call EXCEPT ![c].left = @ \ {d},
                                         ![c].todo = {d},
                                         ![c].seen = {}]
    /\ UNCHANGED <<sidecarVars, calls, racedVars>>

\* MUTANT: the walk forgets which rows it has been at.
WalkDepsUnmarked(c) ==
    /\ call[c].at = "walk deps"
    /\ \E cur \in call[c].todo :
          IF cur = call[c].id
          THEN Returns(c)
          ELSE call' = [call EXCEPT ![c].todo = (@ \ {cur}) \union dependsOn[cur]]
    /\ UNCHANGED <<sidecarVars, calls, racedVars>>

\* MUTANT: the walk stops at the dependencies of the dependencies.
WalkDepsShallow(c) ==
    /\ call[c].at = "walk deps"
    /\ \E cur \in call[c].todo :
          IF cur = call[c].id
          THEN Returns(c)
          ELSE call' = [call EXCEPT ![c].todo = @ \ {cur}]
    /\ UNCHANGED <<sidecarVars, calls, racedVars>>

\* One turn of its inner loop.  The stack pops in an order that matters to
\* nobody; a row is pushed again for every way that leads to it.
WalkDeps(c) ==
    /\ call[c].at = "walk deps"
    /\ \E cur \in call[c].todo :
          IF cur = call[c].id
          THEN Returns(c)
          ELSE call' = [call EXCEPT ![c].todo =
                            (@ \ {cur}) \union (IF cur \in call[c].seen THEN {} ELSE dependsOn[cur]),
                                    ![c].seen = @ \union {cur}]
    /\ UNCHANGED <<sidecarVars, calls, racedVars>>

-----------------------------------------------------------------------------
(* The writes *)

\* Caller c's write outdates what the others under way with `op` have read.
OutdatesOthers(c, op) ==
    call' = [d \in Callers |->
               IF d = c THEN Idle
               ELSE IF call[d].op = op THEN [call[d] EXCEPT !.outdated = TRUE]
               ELSE call[d]]

\* The two INSERTs of submit_intent and their commit.
WriteSubmit(c) ==
    /\ call[c].at = "write" /\ call[c].op = "submit"
    /\ \E i \in Intents :
          /\ i \notin Existing
          /\ \A j \in Intents : j < i => j \in Existing
          /\ status' = [status EXCEPT ![i] = "todo"]
          /\ parent' = [parent EXCEPT ![i] = call[c].to]
          /\ dependsOn' = [dependsOn EXCEPT ![i] = call[c].deps]
    /\ Returns(c)
    /\ UNCHANGED <<calls, racedVars>>

\* UPDATE ... SET parent_record_id: not an error if there is no such intent.
WriteParent(c) ==
    /\ call[c].at = "write" /\ call[c].op = "parent"
    /\ LET i == call[c].id IN
          IF i \in Existing
          THEN /\ parent' = [parent EXCEPT ![i] = call[c].to]
               /\ racedParent' = IF call[c].outdated /\ call[c].to # NoIntent
                                 THEN racedParent \union {i} ELSE racedParent \ {i}
               /\ IF call[c].to = NoIntent THEN Returns(c) ELSE OutdatesOthers(c, "parent")
          ELSE UNCHANGED <<parent, racedParent>> /\ Returns(c)
    /\ UNCHANGED <<status, dependsOn, calls, racedDeps>>

\* UPDATE ... SET depends_on: IntentError if there is no such intent.
WriteDependencies(c) ==
    /\ call[c].at = "write" /\ call[c].op = "dependencies"
    /\ LET i == call[c].id IN
          IF i \in Existing
          THEN /\ dependsOn' = [dependsOn EXCEPT ![i] = call[c].deps]
               /\ racedDeps' = IF call[c].outdated /\ call[c].deps # {}
                               THEN racedDeps \union {i} ELSE racedDeps \ {i}
               /\ IF call[c].deps = {} THEN Returns(c) ELSE OutdatesOthers(c, "dependencies")
          ELSE UNCHANGED <<dependsOn, racedDeps>> /\ Returns(c)
    /\ UNCHANGED <<status, parent, calls, racedParent>>

\* _update_sidecar.
WriteStatus(c) ==
    /\ call[c].at = "write" /\ call[c].op = "status"
    /\ status' = [i \in Intents |->
                    IF i = call[c].id /\ i \in Existing THEN call[c].value ELSE status[i]]
    /\ Returns(c)
    /\ UNCHANGED <<parent, dependsOn, calls, racedVars>>

-----------------------------------------------------------------------------
(* get_intent_tree *)

Children(S) == {i \in Intents : parent[i] \in S}

\* The rows the n-th round of WITH RECURSIVE ... UNION ALL adds.
Round(root) ==
    LET round[n \in Nat] == IF n = 0 THEN Children({root}) ELSE Children(round[n - 1])
    IN  round

\* The recursion ends with the first empty round; once there were more rounds
\* than intents, there is none.
RecursionEnds(root) == \E n \in Intents \union {0} : Round(root)[n] = {}

\* The statement reads one snapshot: it returns at once or never.
GetTree(c, root) ==
    /\ root \in Existing
    /\ ~RecursionEnds(root)
    /\ Begins(c, [Idle EXCEPT !.op = "tree", !.id = root, !.at = "recursing"])

\* The server gives up on a statement that does not end: disk full, cancelled.
TreeFails(c) ==
    /\ call[c].at = "recursing"
    /\ Returns(c)
    /\ UNCHANGED <<sidecarVars, calls, racedVars>>

-----------------------------------------------------------------------------

Start(c) ==
    \/ \E p \in Intents \union {NoIntent}, D \in Lists : StartSubmit(c, p, D)
    \/ \E i \in Intents :
          \/ \E p \in Intents \union {NoIntent} : StartSetParent(c, i, p)
          \/ \E D \in Lists : StartSetDependencies(c, i, D)
          \/ \E s \in Statuses : StartSetStatus(c, i, s)
          \/ GetTree(c, i)

\* The statements of a call under way.
CallRun(c) ==
    \/ CheckParent(c)
    \/ CheckDependencies(c)
    \/ WalkUp(c)
    \/ WalkFromNext(c)
    \/ WalkDeps(c)
    \/ WriteSubmit(c)
    \/ WriteParent(c)
    \/ WriteDependencies(c)
    \/ WriteStatus(c)

Next == \E c \in Callers : Start(c) \/ CallRun(c) \/ TreeFails(c)

Spec == Init /\ [][Next]_intentVars

\* A call that is under way is executed to its end.
FairSpec == Spec /\ \A c \in Callers : WF_intentVars(CallRun(c))

-----------------------------------------------------------------------------

\* "Rejects re-parents that would form a cycle" (mcp_server.py): walking up
\* row by row, while others edit, lets a cycle through only if another
\* re-parenting was committed during the walk; every cycle has such a link.
ParentCyclesAreRaced ==
    \A S \in SUBSET (Intents \ racedParent) :
        S # {} => \E i \in S : parent[i] \notin S

\* "Rejects cycles and missing referent intents" (set_intent_dependencies):
\* the same of dependencies, where a walk branches.
DependencyCyclesAreRaced ==
    \A S \in SUBSET (Intents \ racedDeps) :
        S # {} => \E i \in S : dependsOn[i] \cap S = {}

\* get_intent_tree starts to recurse for ever only while a cycle is there that
\* an outdated check closed.
TreesEnd ==
    [][\A c \in Callers :
          call[c].at # "recursing" /\ call'[c].at = "recursing" => racedParent # {}]_intentVars

\* Every edit returns: the walks end even if the graph already has cycles, and
\* however it changes under them.
EditsReturn ==
    \A c \in Callers :
        call[c].at \notin {"idle", "recursing"} ~> call[c].at \in {"idle", "recursing"}
=============================================================================
