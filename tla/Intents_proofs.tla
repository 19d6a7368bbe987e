--------------------------- MODULE Intents_proofs ---------------------------
(***************************************************************************)
(* Theorems about Intents, for any intents, clients, lists of dependencies *)
(* and number of calls.                                                    *)
(***************************************************************************)
EXTENDS Intents, TLAPS

-----------------------------------------------------------------------------
(* The invariants. *)

\* What a call is given, by its operation and the statement it is at.
CallShape(k) ==
    /\ k.op \in {"parent", "dependencies", "status"} => k.id \in Intents
    /\ k.at = "parent" => k.op \in {"submit", "parent"} /\ k.to \in Intents
    /\ k.at = "parent" /\ k.op = "parent" => k.todo = {k.to} /\ k.seen = {}
    /\ k.at = "existence" => k.op \in {"submit", "dependencies"}
    /\ k.at = "existence" /\ k.op = "dependencies" => k.todo = {} /\ k.seen = {} /\ k.left = k.deps
    /\ k.at = "walk up" => k.op = "parent"
    /\ k.at = "walk deps" => k.op = "dependencies"

\* What was checked of the rows a call names: they are there, and stay.
Checked(k) ==
    /\ k.at = "existence" /\ k.op = "submit" => k.to \in Existing \union {NoIntent}
    /\ k.at = "walk up" =>
          /\ k.to \in Existing
          /\ k.todo \union k.seen \subseteq Existing
    /\ k.at = "walk deps" => k.deps \union k.left \union k.todo \union k.seen \subseteq Existing
    /\ k.at = "write" /\ k.op \in {"submit", "parent"} => k.to \in Existing \union {NoIntent}
    /\ k.at = "write" /\ k.op \in {"submit", "dependencies"} => k.deps \subseteq Existing

\* No way up leads out of C, nor any way along the dependencies.
ClosedUp(C) == C \subseteq Existing /\ \A x \in C : parent[x] \in C \union {NoIntent}

ClosedDeps(C) == C \subseteq Existing /\ \A x \in C : dependsOn[x] \subseteq C

\* As long as nobody else re-parents an intent, a walk has been at every row
\* between the proposed parent and the current row, and not at the intent; after
\* it no way up from the parent leads to the intent.
WalkedUp(k) ==
    /\ k.at = "walk up" =>
          /\ k.to \in k.seen \union k.todo
          /\ k.id \notin k.seen
          /\ \A x \in k.seen : parent[x] \in k.seen \union k.todo \union {NoIntent}
          /\ \A x, y \in k.todo : x = y
    /\ k.at = "write" /\ k.to # NoIntent =>
          \E C \in SUBSET Intents : k.to \in C /\ k.id \notin C /\ ClosedUp(C)

\* Likewise along the dependencies; what was seen from the ones before is in C,
\* although the walk has forgotten it.
WalkedDeps(k) ==
    /\ k.at = "walk deps" =>
          \E C \in SUBSET Intents :
              /\ ClosedDeps(C)
              /\ k.deps \subseteq k.left \union C \union k.seen \union k.todo
              /\ k.id \notin C \union k.seen
              /\ \A x \in k.seen : dependsOn[x] \subseteq k.seen \union k.todo
    /\ k.at = "write" =>
          \E C \in SUBSET Intents : k.deps \subseteq C /\ k.id \notin C /\ ClosedDeps(C)

Calls ==
    [op       : {"none", "submit", "parent", "dependencies", "status", "tree"},
     id       : Intents \union {NoIntent},
     to       : Intents \union {NoIntent},
     deps     : SUBSET Intents,
     value    : Statuses,
     at       : {"idle", "parent", "existence", "walk up", "walk deps", "write", "recursing"},
     todo     : SUBSET Intents,
     seen     : SUBSET Intents,
     left     : SUBSET Intents,
     outdated : BOOLEAN]

CallOK(k) ==
    /\ k \in Calls
    /\ CallShape(k)
    /\ Checked(k)
    /\ k.op = "parent" /\ ~k.outdated => WalkedUp(k)
    /\ k.op = "dependencies" /\ ~k.outdated => WalkedDeps(k)

CallsOK == DOMAIN call = Callers /\ \A c \in Callers : CallOK(call[c])

\* The columns of intent_details, and the histories.
TableOK ==
    /\ status \in [Intents -> Statuses \union {"absent"}]
    /\ parent \in [Intents -> Existing \union {NoIntent}]
    /\ dependsOn \in [Intents -> SUBSET Existing]
    /\ calls \in 0 .. MaxCalls
    /\ racedParent \in SUBSET Existing
    /\ racedDeps \in SUBSET Existing

\* The parts make up TypeOK.
LEMMA TypesSuffice == TableOK /\ CallsOK /\ call = [c \in Callers |-> call[c]] => TypeOK
BY DEF TableOK, CallsOK, CallOK, Calls, TypeOK

-----------------------------------------------------------------------------
(* A call that reads. *)

\* A caller that makes no call is in order, whatever the table holds.
LEMMA IdleOK == CallOK(Idle) /\ CallOK(Idle)'
<1>1. "todo" \in Statuses
  BY IntentsAssumption
<1>2. Idle \in Calls
  BY <1>1 DEF Idle, Calls
<1>3. QED
  BY <1>2 DEF Idle, CallOK, CallShape, Checked

\* What a call begins with is in order: nothing is checked yet but that there
\* is nothing to check.
LEMMA StartOK ==
    ASSUME TableOK, NEW c \in Callers, Start(c)
    PROVE  /\ \E k : CallOK(k) /\ call' = [call EXCEPT ![c] = k]
           /\ UNCHANGED <<sidecarVars, racedVars>>
           /\ calls' \in 0 .. MaxCalls
<1> USE DEF CallOK
<1>1. "todo" \in Statuses /\ NoIntent \notin Intents
  BY IntentsAssumption
<1>2. \A D \in Lists : D \in SUBSET Intents
  BY IntentsAssumption
<1>3. ASSUME NEW k, Begins(c, k)
      PROVE  /\ call' = [call EXCEPT ![c] = k]
             /\ UNCHANGED <<sidecarVars, racedVars>>
             /\ calls' \in 0 .. MaxCalls
  <2>1. MaxCalls \in Nat
    BY IntentsAssumption
  <2>2. QED
    BY <1>3, <2>1 DEF Begins, TableOK
<1>4. ASSUME NEW p \in Intents \union {NoIntent}, NEW D \in Lists, StartSubmit(c, p, D)
      PROVE  \E k : CallOK(k) /\ Begins(c, k)
  <2> DEFINE k == [Idle EXCEPT !.op = "submit", !.to = p, !.deps = D,
                               !.at = IF p # NoIntent THEN "parent"
                                      ELSE IF D # {} THEN "existence" ELSE "write"]
  <2>1. /\ k \in Calls /\ k.op = "submit" /\ k.to = p /\ k.deps = D
        /\ k.at = IF p # NoIntent THEN "parent" ELSE IF D # {} THEN "existence" ELSE "write"
    BY <1>1, <1>2 DEF Idle, Calls
  <2>2. Begins(c, k)
    BY <1>4 DEF StartSubmit
  <2> HIDE DEF k
  <2>3. CallOK(k)
    BY <2>1 DEF CallShape, Checked
  <2>4. QED
    BY <2>2, <2>3
<1>5. ASSUME NEW i \in Intents, NEW p \in Intents \union {NoIntent}, StartSetParent(c, i, p)
      PROVE  \E k : CallOK(k) /\ Begins(c, k)
  <2> DEFINE k == [Idle EXCEPT !.op = "parent", !.id = i, !.to = p, !.todo = {p} \ {NoIntent},
                               !.at = IF p = NoIntent THEN "write" ELSE "parent"]
  <2>1. /\ k \in Calls /\ k.op = "parent" /\ k.id = i /\ k.to = p /\ k.todo = {p} \ {NoIntent}
        /\ k.seen = {}
        /\ k.at = IF p = NoIntent THEN "write" ELSE "parent"
    BY <1>1 DEF Idle, Calls
  <2>2. Begins(c, k)
    BY <1>5 DEF StartSetParent
  <2> HIDE DEF k
  <2>3. CallOK(k)
    BY <2>1, <1>1 DEF CallShape, Checked, WalkedUp
  <2>4. QED
    BY <2>2, <2>3
<1>6. ASSUME NEW i \in Intents, NEW D \in Lists, StartSetDependencies(c, i, D)
      PROVE  \E k : CallOK(k) /\ Begins(c, k)
  <2> DEFINE k == [Idle EXCEPT !.op = "dependencies", !.id = i, !.deps = D, !.left = D,
                               !.at = IF D = {} THEN "write" ELSE "existence"]
  <2>1. /\ k \in Calls /\ k.op = "dependencies" /\ k.id = i /\ k.deps = D /\ k.left = D
        /\ k.todo = {} /\ k.seen = {}
        /\ k.at = IF D = {} THEN "write" ELSE "existence"
    BY <1>1, <1>2 DEF Idle, Calls
  <2>2. Begins(c, k)
    BY <1>6 DEF StartSetDependencies
  <2> HIDE DEF k
  <2>3. ClosedDeps({})
    BY DEF ClosedDeps
  <2>4. WalkedDeps(k)
    BY <2>1, <2>3 DEF WalkedDeps
  <2>5. CallOK(k)
    BY <2>1, <2>4 DEF CallShape, Checked
  <2>6. QED
    BY <2>2, <2>5
<1>7. ASSUME NEW i \in Intents, NEW s \in Statuses, StartSetStatus(c, i, s)
      PROVE  \E k : CallOK(k) /\ Begins(c, k)
  <2> DEFINE k == [Idle EXCEPT !.op = "status", !.id = i, !.value = s, !.at = "write"]
  <2>1. k \in Calls /\ k.op = "status" /\ k.id = i /\ k.at = "write"
    BY <1>1 DEF Idle, Calls
  <2>2. Begins(c, k)
    BY <1>7 DEF StartSetStatus
  <2> HIDE DEF k
  <2>3. CallOK(k)
    BY <2>1 DEF CallShape, Checked
  <2>4. QED
    BY <2>2, <2>3
<1>8. ASSUME NEW i \in Intents, GetTree(c, i)
      PROVE  \E k : CallOK(k) /\ Begins(c, k)
  <2> DEFINE k == [Idle EXCEPT !.op = "tree", !.id = i, !.at = "recursing"]
  <2>1. k \in Calls /\ k.op = "tree" /\ k.at = "recursing"
    BY <1>1 DEF Idle, Calls
  <2>2. Begins(c, k)
    BY <1>8 DEF GetTree
  <2> HIDE DEF k
  <2>3. CallOK(k)
    BY <2>1 DEF CallShape, Checked
  <2>4. QED
    BY <2>2, <2>3
<1>9. \E k : CallOK(k) /\ Begins(c, k)
  BY <1>4, <1>5, <1>6, <1>7, <1>8 DEF Start
<1>10. QED
  BY <1>3, <1>9

\* Raising, or coming to the end, leaves a call in order.
LEMMA ReturnOK ==
    ASSUME NEW c \in Callers, Returns(c)
    PROVE  \E k : CallOK(k) /\ call' = [call EXCEPT ![c] = k]
BY IdleOK DEF Returns

\* _assert_parent_eligible finds the parent there.
LEMMA CheckParentOK ==
    ASSUME TableOK, CallsOK, NEW c \in Callers, CheckParent(c)
    PROVE  \E k : CallOK(k) /\ call' = [call EXCEPT ![c] = k]
<1>1. CASE status[call[c].to] \in {"absent", "cancelled"}
  BY <1>1, ReturnOK DEF CheckParent
<1>2. CASE status[call[c].to] \notin {"absent", "cancelled"}
  <2> DEFINE k == [call[c] EXCEPT !.at = AfterParent(call[c])]
  <2>1. /\ call[c] \in Calls /\ CallShape(call[c]) /\ call[c].at = "parent"
        /\ Checked(call[c])
    BY DEF CallsOK, CallOK, CheckParent
  <2>2. call[c].op \in {"submit", "parent"} /\ call[c].to \in Existing
    BY <1>2, <2>1 DEF CallShape, Existing
  <2>3. \/ call[c].op = "parent" /\ AfterParent(call[c]) = "walk up"
        \/ call[c].op = "submit" /\ AfterParent(call[c]) = "existence"
        \/ call[c].op = "submit" /\ AfterParent(call[c]) = "write" /\ call[c].deps = {}
    BY <2>2 DEF AfterParent
  <2>4. /\ k \in Calls /\ k.at = AfterParent(call[c])
        /\ k.op = call[c].op /\ k.id = call[c].id /\ k.to = call[c].to
        /\ k.deps = call[c].deps /\ k.todo = call[c].todo /\ k.seen = call[c].seen
        /\ k.left = call[c].left
    BY <2>1, <2>3 DEF Calls
  <2>5. call' = [call EXCEPT ![c] = k]
    BY <1>2 DEF CheckParent, Goes
  <2> HIDE DEF k
  <2>6. CallShape(k) /\ Checked(k)
    BY <2>1, <2>2, <2>3, <2>4 DEF CallShape, Checked
  <2>7. k.op = "parent" => WalkedUp(k)
    <3>1. SUFFICES ASSUME k.op = "parent" PROVE WalkedUp(k)
      OBVIOUS
    <3>2. k.at = "walk up"
      BY <2>3, <2>4, <3>1
    <3>3. k.todo = {k.to} /\ k.seen = {}
      BY <2>1, <2>4, <3>1 DEF CallShape
    <3>4. QED
      BY <3>2, <3>3 DEF WalkedUp
  <2>8. QED
    BY <2>2, <2>4, <2>5, <2>6, <2>7 DEF CallOK
<1>3. QED
  BY <1>1, <1>2

\* _assert_dependencies_exist finds the dependencies there.
LEMMA CheckDependenciesOK ==
    ASSUME TableOK, CallsOK, NEW c \in Callers, CheckDependencies(c)
    PROVE  \E k : CallOK(k) /\ call' = [call EXCEPT ![c] = k]
<1>1. CASE ~(call[c].deps \subseteq Existing)
  BY <1>1, ReturnOK DEF CheckDependencies
<1>2. CASE call[c].deps \subseteq Existing
  <2> DEFINE k == [call[c] EXCEPT !.at = IF call[c].op = "submit" THEN "write" ELSE "walk deps"]
  <2>1. /\ call[c] \in Calls /\ CallShape(call[c]) /\ call[c].at = "existence"
        /\ Checked(call[c])
    BY DEF CallsOK, CallOK, CheckDependencies
  <2>2. \/ call[c].op = "submit" /\ call[c].to \in Existing \union {NoIntent}
        \/ /\ call[c].op = "dependencies"
           /\ call[c].todo = {} /\ call[c].seen = {} /\ call[c].left = call[c].deps
    BY <2>1 DEF CallShape, Checked
  <2>3. /\ k \in Calls
        /\ k.at = IF call[c].op = "submit" THEN "write" ELSE "walk deps"
        /\ k.op = call[c].op /\ k.id = call[c].id /\ k.to = call[c].to
        /\ k.deps = call[c].deps /\ k.todo = call[c].todo /\ k.seen = call[c].seen
        /\ k.left = call[c].left
    BY <2>1 DEF Calls
  <2>4. call' = [call EXCEPT ![c] = k]
    BY <1>2 DEF CheckDependencies, Goes
  <2> HIDE DEF k
  <2>5. CallShape(k) /\ Checked(k)
    BY <1>2, <2>1, <2>2, <2>3 DEF CallShape, Checked
  <2>6. k.op = "dependencies" => WalkedDeps(k)
    <3>1. SUFFICES ASSUME k.op = "dependencies" PROVE WalkedDeps(k)
      OBVIOUS
    <3>2. k.at = "walk deps" /\ k.seen = {} /\ k.left = k.deps
      BY <2>2, <2>3, <3>1
    <3>3. ClosedDeps({})
      BY DEF ClosedDeps
    <3>4. QED
      BY <3>2, <3>3 DEF WalkedDeps
  <2>7. k.op # "parent"
    BY <2>2, <2>3
  <2>8. QED
    BY <2>3, <2>4, <2>5, <2>6, <2>7 DEF CallOK
<1>3. QED
  BY <1>1, <1>2

\* A turn of the walk up: the walk ends at a row without a parent, and what it
\* has seen leads nowhere else.
LEMMA WalkUpOK ==
    ASSUME TableOK, CallsOK, NEW c \in Callers, WalkUp(c)
    PROVE  \E k : CallOK(k) /\ call' = [call EXCEPT ![c] = k]
<1> DEFINE old == call[c]
<1>1. /\ old \in Calls /\ CallShape(old) /\ old.at = "walk up" /\ Checked(old)
      /\ old.op = "parent" /\ old.id \in Intents
      /\ old.to \in Existing /\ old.todo \union old.seen \subseteq Existing
  BY DEF CallsOK, CallOK, WalkUp, CallShape, Checked
<1>2. ~old.outdated => WalkedUp(old)
  BY <1>1 DEF CallsOK, CallOK
<1>3. PICK cur \in old.todo :
          IF cur = old.id \/ cur \in old.seen
          THEN Returns(c)
          ELSE IF parent[cur] = NoIntent
          THEN Passes(c)
          ELSE call' = [call EXCEPT ![c].todo = {parent[cur]}, ![c].seen = @ \union {cur}]
  BY DEF WalkUp
<1>4. cur \in Existing /\ parent[cur] \in Existing \union {NoIntent} /\ Existing \subseteq Intents
  BY <1>1 DEF TableOK, Existing
<1>5. CASE cur = old.id \/ cur \in old.seen
  BY <1>3, <1>5, ReturnOK
<1>6. CASE ~(cur = old.id \/ cur \in old.seen) /\ parent[cur] = NoIntent
  <2> DEFINE k == [old EXCEPT !.at = "write", !.todo = {}, !.seen = {}, !.left = {}]
  <2>1. /\ k \in Calls /\ k.at = "write" /\ k.op = "parent" /\ k.id = old.id
        /\ k.to = old.to /\ k.outdated = old.outdated
    BY <1>1 DEF Calls
  <2>2. call' = [call EXCEPT ![c] = k]
    BY <1>3, <1>6 DEF Passes
  <2> HIDE DEF k
  <2>3. CallShape(k) /\ Checked(k)
    BY <1>1, <2>1 DEF CallShape, Checked
  <2>4. ASSUME ~k.outdated PROVE WalkedUp(k)
    <3> DEFINE C == old.seen \union {cur}
    <3>1. WalkedUp(old)
      BY <1>2, <2>1, <2>4
    <3>2. old.todo = {cur}
      BY <1>1, <3>1 DEF WalkedUp
    <3>3. k.to \in C /\ k.id \notin C
      BY <1>1, <1>6, <2>1, <3>1, <3>2 DEF WalkedUp
    <3>4. C \subseteq Existing
      BY <1>1, <1>4
    <3>5. ClosedUp(C)
      BY <1>1, <1>6, <3>1, <3>2, <3>4 DEF WalkedUp, ClosedUp
    <3>6. C \in SUBSET Intents
      BY <1>4, <3>4
    <3> HIDE DEF C
    <3>7. QED
      BY <2>1, <3>3, <3>5, <3>6 DEF WalkedUp
  <2>5. QED
    BY <2>1, <2>2, <2>3, <2>4 DEF CallOK
<1>7. CASE ~(cur = old.id \/ cur \in old.seen) /\ parent[cur] # NoIntent
  <2> DEFINE k == [old EXCEPT !.todo = {parent[cur]}, !.seen = @ \union {cur}]
  <2>1. parent[cur] \in Existing /\ parent[cur] \in Intents /\ cur \in Intents
    BY <1>4, <1>7
  <2>2. /\ k \in Calls /\ k.at = "walk up" /\ k.op = "parent" /\ k.id = old.id
        /\ k.to = old.to /\ k.outdated = old.outdated
        /\ k.todo = {parent[cur]} /\ k.seen = old.seen \union {cur}
    BY <1>1, <2>1 DEF Calls
  <2>3. call' = [call EXCEPT ![c] = k]
    BY <1>3, <1>7
  <2> HIDE DEF k
  <2>4. CallShape(k) /\ Checked(k)
    BY <1>1, <1>4, <2>1, <2>2 DEF CallShape, Checked
  <2>5. ASSUME ~k.outdated PROVE WalkedUp(k)
    <3>1. WalkedUp(old)
      BY <1>2, <2>2, <2>5
    <3>2. old.todo = {cur}
      BY <1>1, <3>1 DEF WalkedUp
    <3>3. QED
      BY <1>1, <1>7, <2>2, <3>1, <3>2 DEF WalkedUp
  <2>6. QED
    BY <2>2, <2>3, <2>4, <2>5 DEF CallOK
<1>8. QED
  BY <1>5, <1>6, <1>7

\* What a call that walks along the dependencies has been given and checked.
LEMMA WalkingDeps ==
    ASSUME CallsOK, NEW c \in Callers, call[c].at = "walk deps"
    PROVE  /\ call[c] \in Calls /\ CallShape(call[c]) /\ Checked(call[c])
           /\ call[c].op = "dependencies" /\ call[c].id \in Intents
           /\ call[c].deps \union call[c].left \union call[c].todo \union call[c].seen
                \subseteq Existing
           /\ ~call[c].outdated => WalkedDeps(call[c])
BY DEF CallsOK, CallOK, CallShape, Checked

\* The next dependency is taken: what the walk has seen is closed by then, and
\* may be forgotten.
LEMMA WalkFromNextOK ==
    ASSUME TableOK, CallsOK, NEW c \in Callers, WalkFromNext(c)
    PROVE  \E k : CallOK(k) /\ call' = [call EXCEPT ![c] = k]
<1> DEFINE old == call[c]
<1>1. /\ old \in Calls /\ CallShape(old) /\ Checked(old) /\ old.at = "walk deps"
      /\ old.op = "dependencies" /\ old.id \in Intents
      /\ old.deps \union old.left \union old.todo \union old.seen \subseteq Existing
      /\ ~old.outdated => WalkedDeps(old)
      /\ old.todo = {}
  BY WalkingDeps DEF WalkFromNext
<1>2. Existing \subseteq Intents
  BY DEF Existing
<1>3. ASSUME ~old.outdated
      PROVE  \E C \in SUBSET Intents :
                /\ ClosedDeps(C) /\ old.id \notin C
                /\ old.deps \subseteq old.left \union C
  <2>1. PICK C \in SUBSET Intents :
            /\ ClosedDeps(C)
            /\ old.deps \subseteq old.left \union C \union old.seen \union old.todo
            /\ old.id \notin C \union old.seen
            /\ \A x \in old.seen : dependsOn[x] \subseteq old.seen \union old.todo
    BY <1>1, <1>3 DEF WalkedDeps
  <2> DEFINE D == C \union old.seen
  <2>2. D \in SUBSET Intents /\ old.id \notin D /\ old.deps \subseteq old.left \union D
    BY <1>1, <1>2, <2>1
  <2>3. ClosedDeps(D)
    BY <1>1, <2>1 DEF ClosedDeps
  <2> HIDE DEF D
  <2>4. QED
    BY <2>2, <2>3
<1>4. CASE old.left = {}
  <2> DEFINE k == [old EXCEPT !.at = "write", !.todo = {}, !.seen = {}, !.left = {}]
  <2>1. /\ k \in Calls /\ k.at = "write" /\ k.op = "dependencies" /\ k.id = old.id
        /\ k.deps = old.deps /\ k.outdated = old.outdated
    BY <1>1 DEF Calls
  <2>2. call' = [call EXCEPT ![c] = k]
    BY <1>4 DEF WalkFromNext, Passes
  <2> HIDE DEF k
  <2>3. CallShape(k) /\ Checked(k)
    BY <1>1, <2>1 DEF CallShape, Checked
  <2>4. ASSUME ~k.outdated PROVE WalkedDeps(k)
    <3>1. PICK C \in SUBSET Intents : ClosedDeps(C) /\ old.id \notin C /\ old.deps \subseteq C
      BY <1>3, <1>4, <2>1, <2>4
    <3>2. QED
      BY <2>1, <3>1 DEF WalkedDeps
  <2>5. QED
    BY <2>1, <2>2, <2>3, <2>4 DEF CallOK
<1>5. CASE old.left # {}
  <2>1. PICK d \in old.left :
            IF d = old.id
            THEN Returns(c)
            ELSE call' = [call EXCEPT ![c].left = @ \ {d}, ![c].todo = {d}, ![c].seen = {}]
    BY <1>5 DEF WalkFromNext
  <2>2. CASE d = old.id
    BY <2>1, <2>2, ReturnOK
  <2>3. CASE d # old.id
    <3> DEFINE k == [old EXCEPT !.left = @ \ {d}, !.todo = {d}, !.seen = {}]
    <3>1. d \in Intents
      BY <1>1 DEF Calls
    <3>2. /\ k \in Calls /\ k.at = "walk deps" /\ k.op = "dependencies" /\ k.id = old.id
          /\ k.deps = old.deps /\ k.outdated = old.outdated
          /\ k.left = old.left \ {d} /\ k.todo = {d} /\ k.seen = {}
      BY <1>1, <3>1 DEF Calls
    <3>3. call' = [call EXCEPT ![c] = k]
      BY <2>1, <2>3
    <3> HIDE DEF k
    <3>4. CallShape(k) /\ Checked(k)
      BY <1>1, <3>2 DEF CallShape, Checked
    <3>5. ASSUME ~k.outdated PROVE WalkedDeps(k)
      <4>1. PICK C \in SUBSET Intents :
                ClosedDeps(C) /\ old.id \notin C /\ old.deps \subseteq old.left \union C
        BY <1>3, <3>2, <3>5
      <4>2. k.deps \subseteq k.left \union C \union k.seen \union k.todo
        BY <3>2, <4>1
      <4>3. QED
        BY <3>2, <4>1, <4>2 DEF WalkedDeps
    <3>6. QED
      BY <3>2, <3>3, <3>4, <3>5 DEF CallOK
  <2>4. QED
    BY <2>2, <2>3
<1>6. QED
  BY <1>4, <1>5

\* A turn of the walk along the dependencies.
LEMMA WalkDepsOK ==
    ASSUME TableOK, CallsOK, NEW c \in Callers, WalkDeps(c)
    PROVE  \E k : CallOK(k) /\ call' = [call EXCEPT ![c] = k]
<1> DEFINE old == call[c]
<1>1. /\ old \in Calls /\ CallShape(old) /\ Checked(old) /\ old.at = "walk deps"
      /\ old.op = "dependencies" /\ old.id \in Intents
      /\ old.deps \union old.left \union old.todo \union old.seen \subseteq Existing
      /\ ~old.outdated => WalkedDeps(old)
  BY WalkingDeps DEF WalkDeps
<1>2. PICK cur \in old.todo :
          IF cur = old.id
          THEN Returns(c)
          ELSE call' = [call EXCEPT ![c].todo =
                            (@ \ {cur}) \union (IF cur \in old.seen THEN {} ELSE dependsOn[cur]),
                                    ![c].seen = @ \union {cur}]
  BY DEF WalkDeps
<1>3. /\ cur \in Existing /\ Existing \subseteq Intents
      /\ dependsOn[cur] \subseteq Existing
  BY <1>1 DEF TableOK, Existing
<1>4. CASE cur = old.id
  BY <1>2, <1>4, ReturnOK
<1>5. CASE cur # old.id
  <2> DEFINE more == IF cur \in old.seen THEN {} ELSE dependsOn[cur]
             k == [old EXCEPT !.todo = (@ \ {cur}) \union more, !.seen = @ \union {cur}]
  <2>1. more \subseteq Existing /\ more \subseteq dependsOn[cur]
    BY <1>3
  <2>2. call' = [call EXCEPT ![c] = k]
    BY <1>2, <1>5
  <2>3. cur \in old.seen \/ more = dependsOn[cur]
    OBVIOUS
  <2> HIDE DEF more
  <2>4. /\ k \in Calls /\ k.at = "walk deps" /\ k.op = "dependencies" /\ k.id = old.id
        /\ k.deps = old.deps /\ k.outdated = old.outdated /\ k.left = old.left
        /\ k.todo = (old.todo \ {cur}) \union more
        /\ k.seen = old.seen \union {cur}
    BY <1>1, <1>3, <2>1 DEF Calls
  <2> HIDE DEF k
  <2>5. CallShape(k) /\ Checked(k)
    BY <1>1, <1>3, <2>1, <2>4 DEF CallShape, Checked
  <2>6. ASSUME ~k.outdated PROVE WalkedDeps(k)
    <3>1. PICK C \in SUBSET Intents :
              /\ ClosedDeps(C)
              /\ old.deps \subseteq old.left \union C \union old.seen \union old.todo
              /\ old.id \notin C \union old.seen
              /\ \A x \in old.seen : dependsOn[x] \subseteq old.seen \union old.todo
      BY <1>1, <2>4, <2>6 DEF WalkedDeps
    <3>2. k.deps \subseteq k.left \union C \union k.seen \union k.todo
      BY <2>4, <3>1
    <3>3. k.id \notin C \union k.seen
      BY <1>5, <2>4, <3>1
    <3>4. \A x \in k.seen : dependsOn[x] \subseteq k.seen \union k.todo
      BY <2>3, <2>4, <3>1
    <3>5. QED
      BY <2>4, <3>1, <3>2, <3>3, <3>4 DEF WalkedDeps
  <2>7. QED
    BY <2>2, <2>4, <2>5, <2>6 DEF CallOK
<1>6. QED
  BY <1>4, <1>5

\* A statement that reads, or a call that returns, leaves the calls in order
\* and the table as it is.
LEMMA ReadKeeps ==
    ASSUME TableOK, CallsOK, NEW c \in Callers,
           \/ Start(c) \/ CheckParent(c) \/ CheckDependencies(c) \/ WalkUp(c)
           \/ WalkFromNext(c) \/ WalkDeps(c) \/ TreeFails(c)
    PROVE  /\ TableOK' /\ CallsOK'
           /\ UNCHANGED <<sidecarVars, racedVars>>
<1>1. /\ \E k : CallOK(k) /\ call' = [call EXCEPT ![c] = k]
      /\ UNCHANGED <<sidecarVars, racedVars>>
      /\ calls' \in 0 .. MaxCalls
  <2>1. CASE Start(c)
    BY <2>1, StartOK
  <2>2. CASE CheckParent(c)
    BY <2>2, CheckParentOK DEF CheckParent, TableOK
  <2>3. CASE CheckDependencies(c)
    BY <2>3, CheckDependenciesOK DEF CheckDependencies, TableOK
  <2>4. CASE WalkUp(c)
    BY <2>4, WalkUpOK DEF WalkUp, TableOK
  <2>5. CASE WalkFromNext(c)
    BY <2>5, WalkFromNextOK DEF WalkFromNext, TableOK
  <2>6. CASE WalkDeps(c)
    BY <2>6, WalkDepsOK DEF WalkDeps, TableOK
  <2>7. CASE TreeFails(c)
    BY <2>7, ReturnOK DEF TreeFails, TableOK
  <2>8. QED
    BY <2>1, <2>2, <2>3, <2>4, <2>5, <2>6, <2>7
<1>2. UNCHANGED <<status, parent, dependsOn, racedParent, racedDeps>>
  BY <1>1 DEF sidecarVars, racedVars
<1>3. TableOK'
  BY <1>1, <1>2 DEF TableOK, Existing
<1>4. PICK k : CallOK(k) /\ call' = [call EXCEPT ![c] = k]
  BY <1>1
<1>5. \A x : CallOK(x)' = CallOK(x)
  BY <1>2 DEF CallOK, CallShape, Checked, WalkedUp, WalkedDeps, ClosedUp, ClosedDeps, Existing
<1>6. DOMAIN call' = Callers /\ \A d \in Callers : call'[d] = k \/ call'[d] = call[d]
  BY <1>4 DEF CallsOK
<1>7. CallsOK'
  BY <1>4, <1>5, <1>6 DEF CallsOK
<1>8. QED
  BY <1>1, <1>3, <1>7

-----------------------------------------------------------------------------
(* A call that writes. *)

\* What was checked of a call stays so, as no row is ever deleted.
LEMMA CheckedLasts ==
    ASSUME Existing \subseteq Existing', NEW k, Checked(k)
    PROVE  Checked(k)'
BY DEF Checked

\* A walk up is not disturbed if others do no more than cut ways.
LEMMA WalkedUpLasts ==
    ASSUME Existing \subseteq Existing', NEW k, Checked(k), WalkedUp(k),
           \A x \in Existing : parent'[x] \in {parent[x], NoIntent}
    PROVE  WalkedUp(k)'
<1>1. \A C : ClosedUp(C) => ClosedUp(C)'
  BY DEF ClosedUp
<1>2. k.at = "walk up" =>
         \A x \in k.seen : parent'[x] \in k.seen \union k.todo \union {NoIntent}
  BY DEF Checked, WalkedUp
<1>3. k.at = "write" /\ k.to # NoIntent =>
         \E C \in SUBSET Intents : k.to \in C /\ k.id \notin C /\ ClosedUp(C)'
  BY <1>1 DEF WalkedUp
<1>4. QED
  BY <1>2, <1>3 DEF WalkedUp

\* Likewise for a walk along the dependencies.
LEMMA WalkedDepsLasts ==
    ASSUME Existing \subseteq Existing', NEW k, Checked(k), WalkedDeps(k),
           \A x \in Existing : dependsOn'[x] \subseteq dependsOn[x]
    PROVE  WalkedDeps(k)'
<1>1. \A C : ClosedDeps(C) => ClosedDeps(C)'
  BY DEF ClosedDeps
<1>2. k.at = "walk deps" =>
         \E C \in SUBSET Intents :
             /\ ClosedDeps(C)'
             /\ k.deps \subseteq k.left \union C \union k.seen \union k.todo
             /\ k.id \notin C \union k.seen
             /\ \A x \in k.seen : dependsOn'[x] \subseteq k.seen \union k.todo
  <2>1. SUFFICES ASSUME k.at = "walk deps"
                 PROVE  \E C \in SUBSET Intents :
                           /\ ClosedDeps(C)'
                           /\ k.deps \subseteq k.left \union C \union k.seen \union k.todo
                           /\ k.id \notin C \union k.seen
                           /\ \A x \in k.seen : dependsOn'[x] \subseteq k.seen \union k.todo
    OBVIOUS
  <2>2. PICK C \in SUBSET Intents :
             /\ ClosedDeps(C)
             /\ k.deps \subseteq k.left \union C \union k.seen \union k.todo
             /\ k.id \notin C \union k.seen
             /\ \A x \in k.seen : dependsOn[x] \subseteq k.seen \union k.todo
    BY <2>1 DEF WalkedDeps
  <2>3. \A x \in k.seen : dependsOn'[x] \subseteq k.seen \union k.todo
    BY <2>1, <2>2 DEF Checked
  <2>4. QED
    BY <1>1, <2>2, <2>3
<1>3. k.at = "write" =>
         \E C \in SUBSET Intents : k.deps \subseteq C /\ k.id \notin C /\ ClosedDeps(C)'
  BY <1>1 DEF WalkedDeps
<1>4. QED
  BY <1>2, <1>3 DEF WalkedDeps

\* A write leaves all calls in order if it cuts ways only, or outdates the
\* walks under way.
LEMMA WriteKeepsCalls ==
    ASSUME CallsOK, Existing \subseteq Existing', NEW c \in Callers,
           DOMAIN call' = Callers, call'[c] = Idle,
           \A d \in Callers \ {c} :
              call'[d] = call[d] \/ call'[d] = [call[d] EXCEPT !.outdated = TRUE],
           \/ \A x \in Existing : parent'[x] \in {parent[x], NoIntent}
           \/ \A d \in Callers \ {c} : call[d].op = "parent" => call'[d].outdated,
           \/ \A x \in Existing : dependsOn'[x] \subseteq dependsOn[x]
           \/ \A d \in Callers \ {c} : call[d].op = "dependencies" => call'[d].outdated
    PROVE  CallsOK'
<1>1. ASSUME NEW d \in Callers \ {c}
      PROVE  CallOK(call[d])'
  <2>1. PICK k : k = call[d]
    OBVIOUS
  <2>2. PICK j : j = call'[d]
    OBVIOUS
  <2>3. k \in Calls /\ CallShape(k) /\ Checked(k) /\ CallOK(k)
    BY <2>1 DEF CallsOK, CallOK
  <2>4. CASE j = k
    <3>1. k.op = "parent" /\ ~k.outdated => WalkedUp(k)'
      BY <2>1, <2>2, <2>3, <2>4, WalkedUpLasts DEF CallOK
    <3>2. k.op = "dependencies" /\ ~k.outdated => WalkedDeps(k)'
      BY <2>1, <2>2, <2>3, <2>4, WalkedDepsLasts DEF CallOK
    <3>3. Checked(k)' /\ CallShape(k)'
      BY <2>3, CheckedLasts DEF CallShape
    <3>4. CallOK(k)'
      BY <2>3, <3>1, <3>2, <3>3 DEF CallOK
    <3>5. QED
      BY <2>2, <2>4, <3>4 DEF CallOK
  <2>5. CASE j = [k EXCEPT !.outdated = TRUE]
    <3>1. /\ j \in Calls /\ j.outdated = TRUE
          /\ j.op = k.op /\ j.id = k.id /\ j.to = k.to /\ j.deps = k.deps /\ j.at = k.at
          /\ j.todo = k.todo /\ j.seen = k.seen /\ j.left = k.left
      BY <2>3, <2>5 DEF Calls
    <3>2. CallShape(j) /\ Checked(j)
      BY <2>3, <3>1 DEF CallShape, Checked
    <3>3. Checked(j)' /\ CallShape(j)'
      BY <3>2, CheckedLasts DEF CallShape
    <3>4. CallOK(j)'
      BY <3>1, <3>3 DEF CallOK
    <3>5. QED
      BY <2>2, <3>4 DEF CallOK
  <2>6. QED
    BY <2>1, <2>2, <2>4, <2>5
<1>2. CallOK(call[c])'
  BY IdleOK DEF CallOK
<1>3. QED
  BY <1>1, <1>2 DEF CallsOK

\* What a call that is about to write has been given and checked.
LEMMA Writing ==
    ASSUME TableOK, CallsOK, NEW c \in Callers, call[c].at = "write"
    PROVE  /\ call[c] \in Calls
           /\ call[c].op \in {"parent", "dependencies", "status"} => call[c].id \in Intents
           /\ call[c].op \in {"submit", "parent"} => call[c].to \in Existing \union {NoIntent}
           /\ call[c].op \in {"submit", "dependencies"} => call[c].deps \subseteq Existing
           /\ call[c].op = "parent" /\ ~call[c].outdated => WalkedUp(call[c])
           /\ call[c].op = "dependencies" /\ ~call[c].outdated => WalkedDeps(call[c])
           /\ Existing \subseteq Intents /\ NoIntent \notin Intents
BY IntentsAssumption DEF CallsOK, CallOK, CallShape, Checked, Existing

\* A new intent has no children and nobody depends on it yet: it is in no
\* cycle.
LEMMA SubmitKeeps ==
    ASSUME TableOK, CallsOK, ParentCyclesAreRaced, DependencyCyclesAreRaced,
           NEW c \in Callers, WriteSubmit(c)
    PROVE  TableOK' /\ CallsOK' /\ ParentCyclesAreRaced' /\ DependencyCyclesAreRaced'
<1>1. PICK i \in Intents :
          /\ i \notin Existing
          /\ status' = [status EXCEPT ![i] = "todo"]
          /\ parent' = [parent EXCEPT ![i] = call[c].to]
          /\ dependsOn' = [dependsOn EXCEPT ![i] = call[c].deps]
  BY DEF WriteSubmit
<1>2. /\ call[c].to \in Existing \union {NoIntent} /\ call[c].deps \subseteq Existing
      /\ Existing \subseteq Intents /\ NoIntent \notin Intents
  BY Writing DEF WriteSubmit
<1>3. "todo" \in Statuses
  BY IntentsAssumption
<1>4. Existing' = Existing \union {i}
  BY <1>1, <1>3 DEF TableOK, Existing
<1>5. UNCHANGED <<calls, racedParent, racedDeps>> /\ call' = [call EXCEPT ![c] = Idle]
  BY DEF WriteSubmit, racedVars, Returns
<1>6. TableOK'
  <2>1. status' \in [Intents -> Statuses \union {"absent"}]
    BY <1>1, <1>3 DEF TableOK
  <2>2. parent' \in [Intents -> Existing' \union {NoIntent}]
    BY <1>1, <1>2, <1>4 DEF TableOK
  <2>3. dependsOn' \in [Intents -> SUBSET Existing']
    BY <1>1, <1>2, <1>4 DEF TableOK
  <2>4. QED
    BY <1>4, <1>5, <2>1, <2>2, <2>3 DEF TableOK
<1>7. \A x \in Existing : parent'[x] = parent[x] /\ dependsOn'[x] = dependsOn[x]
  BY <1>1, <1>2 DEF TableOK
<1>8. CallsOK'
  <2>1. /\ DOMAIN call' = Callers /\ call'[c] = Idle
        /\ \A d \in Callers \ {c} : call'[d] = call[d]
    BY <1>5 DEF CallsOK
  <2>2. QED
    BY <1>4, <1>7, <2>1, WriteKeepsCalls
<1>9. ParentCyclesAreRaced'
  <2>1. SUFFICES ASSUME NEW S \in SUBSET (Intents \ racedParent), S # {},
                        \A j \in S : parent'[j] \in S
                 PROVE  FALSE
    BY <1>5 DEF ParentCyclesAreRaced
  <2> DEFINE R == S \ {i}
  <2>2. \A j \in R : parent'[j] = parent[j] /\ parent[j] # i
    BY <1>1, <1>2 DEF TableOK
  <2>3. \A j \in R : parent[j] \in R
    BY <2>1, <2>2
  <2>4. R # {}
    BY <1>1, <1>2, <2>1 DEF TableOK
  <2>5. R \in SUBSET (Intents \ racedParent)
    BY <2>1
  <2> HIDE DEF R
  <2>6. QED
    BY <2>3, <2>4, <2>5 DEF ParentCyclesAreRaced
<1>10. DependencyCyclesAreRaced'
  <2>1. SUFFICES ASSUME NEW S \in SUBSET (Intents \ racedDeps), S # {},
                        \A j \in S : dependsOn'[j] \cap S # {}
                 PROVE  FALSE
    BY <1>5 DEF DependencyCyclesAreRaced
  <2> DEFINE R == S \ {i}
  <2>2. \A j \in R : dependsOn'[j] = dependsOn[j] /\ i \notin dependsOn[j]
    BY <1>1, <1>2 DEF TableOK
  <2>3. \A j \in R : dependsOn[j] \cap R # {}
    BY <2>1, <2>2
  <2>4. R # {}
    BY <1>1, <1>2, <2>1 DEF TableOK
  <2>5. R \in SUBSET (Intents \ racedDeps)
    BY <2>1
  <2> HIDE DEF R
  <2>6. QED
    BY <2>3, <2>4, <2>5 DEF DependencyCyclesAreRaced
<1>11. QED
  BY <1>6, <1>8, <1>9, <1>10

\* A new parent closes no cycle but on an outdated walk: a cycle through the
\* new link would go on above the parent, where the walk has been, and come
\* back to the intent, where it has not been.
LEMMA ParentKeeps ==
    ASSUME TableOK, CallsOK, ParentCyclesAreRaced, DependencyCyclesAreRaced,
           NEW c \in Callers, WriteParent(c)
    PROVE  TableOK' /\ CallsOK' /\ ParentCyclesAreRaced' /\ DependencyCyclesAreRaced'
<1>1. PICK i \in Intents, to \in Existing \union {NoIntent} : i = call[c].id /\ to = call[c].to
  BY Writing DEF WriteParent
<1>2. /\ UNCHANGED <<status, dependsOn, calls, racedDeps>>
      /\ Existing' = Existing
      /\ Existing \subseteq Intents /\ NoIntent \notin Intents
  BY Writing DEF WriteParent, Existing
<1>3. DependencyCyclesAreRaced'
  BY <1>2 DEF DependencyCyclesAreRaced
<1>4. CASE i \notin Existing
  <2>1. UNCHANGED <<parent, racedParent>> /\ call' = [call EXCEPT ![c] = Idle]
    BY <1>1, <1>4 DEF WriteParent, Returns
  <2>2. TableOK' /\ ParentCyclesAreRaced'
    BY <1>2, <2>1 DEF TableOK, ParentCyclesAreRaced
  <2>3. /\ DOMAIN call' = Callers /\ call'[c] = Idle
        /\ \A d \in Callers \ {c} : call'[d] = call[d]
    BY <2>1 DEF CallsOK
  <2>4. CallsOK'
    BY <1>2, <2>1, <2>3, WriteKeepsCalls
  <2>5. QED
    BY <1>3, <2>2, <2>4
<1>5. CASE i \in Existing
  <2>1. /\ parent' = [parent EXCEPT ![i] = to]
        /\ racedParent' = IF call[c].outdated /\ to # NoIntent
                          THEN racedParent \union {i} ELSE racedParent \ {i}
        /\ IF to = NoIntent THEN Returns(c) ELSE OutdatesOthers(c, "parent")
    BY <1>1, <1>5 DEF WriteParent
  <2>2. TableOK'
    <3>1. parent' \in [Intents -> Existing' \union {NoIntent}]
      BY <1>2, <2>1 DEF TableOK
    <3>2. racedParent' \in SUBSET Existing'
      BY <1>2, <1>5, <2>1 DEF TableOK
    <3>3. QED
      BY <1>2, <3>1, <3>2 DEF TableOK
  <2>3. CallsOK'
    <3>1. CASE to = NoIntent
      <4>1. /\ DOMAIN call' = Callers /\ call'[c] = Idle
            /\ \A d \in Callers \ {c} : call'[d] = call[d]
        BY <2>1, <3>1 DEF CallsOK, Returns
      <4>2. \A x \in Existing : parent'[x] \in {parent[x], NoIntent}
        BY <1>2, <2>1, <3>1 DEF TableOK
      <4>3. QED
        BY <1>2, <4>1, <4>2, WriteKeepsCalls
    <3>2. CASE to # NoIntent
      <4>1. /\ DOMAIN call' = Callers /\ call'[c] = Idle
            /\ \A d \in Callers \ {c} :
                  call'[d] = call[d] \/ call'[d] = [call[d] EXCEPT !.outdated = TRUE]
            /\ \A d \in Callers \ {c} :
                  call[d].op = "parent" => call'[d] = [call[d] EXCEPT !.outdated = TRUE]
        BY <2>1, <3>2 DEF OutdatesOthers
      <4>2. \A d \in Callers \ {c} : call[d].op = "parent" => call'[d].outdated
        <5>1. \A k \in Calls : [k EXCEPT !.outdated = TRUE].outdated
          BY DEF Calls
        <5>2. \A d \in Callers : call[d] \in Calls
          BY DEF CallsOK, CallOK
        <5>3. ASSUME NEW d \in Callers \ {c}, call[d].op = "parent"
              PROVE  call'[d].outdated
          <6>1. call'[d] = [call[d] EXCEPT !.outdated = TRUE]
            BY <4>1, <5>3
          <6>2. QED
            BY <5>1, <5>2, <6>1
        <5>4. QED
          BY <5>3
      <4>3. \A x \in Existing : dependsOn'[x] \subseteq dependsOn[x]
        BY <1>2
      <4>4. QED
        BY <1>2, <4>1, <4>2, <4>3, WriteKeepsCalls
    <3>3. QED
      BY <3>1, <3>2
  <2>4. ParentCyclesAreRaced'
    <3>1. SUFFICES ASSUME NEW S \in SUBSET (Intents \ racedParent'), S # {},
                          \A j \in S : parent'[j] \in S
                   PROVE  FALSE
      BY DEF ParentCyclesAreRaced
    <3>2. \A j \in S \ {i} : parent'[j] = parent[j] /\ j \notin racedParent
      BY <2>1, <3>1 DEF TableOK
    <3>3. CASE i \notin S
      <4>1. S \in SUBSET (Intents \ racedParent) /\ \A j \in S : parent[j] \in S
        BY <3>1, <3>2, <3>3
      <4>2. QED
        BY <3>1, <4>1 DEF ParentCyclesAreRaced
    <3>4. CASE i \in S
      <4>1. parent'[i] = to /\ to \in S /\ to # NoIntent
        BY <1>2, <2>1, <3>1, <3>4 DEF TableOK
      <4>2. ~call[c].outdated
        BY <2>1, <3>1, <3>4, <4>1
      <4>3. PICK C \in SUBSET Intents : to \in C /\ i \notin C /\ ClosedUp(C)
        <5>1. call[c].at = "write" /\ WalkedUp(call[c])
          BY <4>2, Writing DEF WriteParent
        <5>2. QED
          BY <1>1, <4>1, <5>1 DEF WalkedUp
      <4> DEFINE R == S \cap C
      <4>4. to \in R /\ R \in SUBSET (Intents \ racedParent)
        BY <3>2, <4>1, <4>3
      <4>5. \A j \in R : parent[j] \in R
        BY <1>2, <3>1, <3>2, <4>3 DEF ClosedUp
      <4> HIDE DEF R
      <4>6. QED
        BY <4>4, <4>5 DEF ParentCyclesAreRaced
    <3>5. QED
      BY <3>3, <3>4
  <2>5. QED
    BY <1>3, <2>2, <2>3, <2>4
<1>6. QED
  BY <1>4, <1>5

\* New dependencies close no cycle but on an outdated walk: a way back to the
\* intent would stay where the walk has been.
LEMMA DependenciesKeep ==
    ASSUME TableOK, CallsOK, ParentCyclesAreRaced, DependencyCyclesAreRaced,
           NEW c \in Callers, WriteDependencies(c)
    PROVE  TableOK' /\ CallsOK' /\ ParentCyclesAreRaced' /\ DependencyCyclesAreRaced'
<1>1. PICK i \in Intents, D \in SUBSET Existing : i = call[c].id /\ D = call[c].deps
  BY Writing DEF WriteDependencies
<1>2. /\ UNCHANGED <<status, parent, calls, racedParent>>
      /\ Existing' = Existing
      /\ Existing \subseteq Intents
  BY DEF WriteDependencies, Existing
<1>3. ParentCyclesAreRaced'
  BY <1>2 DEF ParentCyclesAreRaced
<1>4. CASE i \notin Existing
  <2>1. UNCHANGED <<dependsOn, racedDeps>> /\ call' = [call EXCEPT ![c] = Idle]
    BY <1>1, <1>4 DEF WriteDependencies, Returns
  <2>2. TableOK' /\ DependencyCyclesAreRaced'
    BY <1>2, <2>1 DEF TableOK, DependencyCyclesAreRaced
  <2>3. /\ DOMAIN call' = Callers /\ call'[c] = Idle
        /\ \A d \in Callers \ {c} : call'[d] = call[d]
    BY <2>1 DEF CallsOK
  <2>4. CallsOK'
    BY <1>2, <2>1, <2>3, WriteKeepsCalls
  <2>5. QED
    BY <1>3, <2>2, <2>4
<1>5. CASE i \in Existing
  <2>1. /\ dependsOn' = [dependsOn EXCEPT ![i] = D]
        /\ racedDeps' = IF call[c].outdated /\ D # {}
                        THEN racedDeps \union {i} ELSE racedDeps \ {i}
        /\ IF D = {} THEN Returns(c) ELSE OutdatesOthers(c, "dependencies")
    BY <1>1, <1>5 DEF WriteDependencies
  <2>2. TableOK'
    <3>1. dependsOn' \in [Intents -> SUBSET Existing']
      BY <1>2, <2>1 DEF TableOK
    <3>2. racedDeps' \in SUBSET Existing'
      BY <1>2, <1>5, <2>1 DEF TableOK
    <3>3. QED
      BY <1>2, <3>1, <3>2 DEF TableOK
  <2>3. CallsOK'
    <3>1. CASE D = {}
      <4>1. /\ DOMAIN call' = Callers /\ call'[c] = Idle
            /\ \A d \in Callers \ {c} : call'[d] = call[d]
        BY <2>1, <3>1 DEF CallsOK, Returns
      <4>2. \A x \in Existing : dependsOn'[x] \subseteq dependsOn[x]
        BY <1>2, <2>1, <3>1 DEF TableOK
      <4>3. QED
        BY <1>2, <4>1, <4>2, WriteKeepsCalls
    <3>2. CASE D # {}
      <4>1. /\ DOMAIN call' = Callers /\ call'[c] = Idle
            /\ \A d \in Callers \ {c} :
                  call'[d] = call[d] \/ call'[d] = [call[d] EXCEPT !.outdated = TRUE]
            /\ \A d \in Callers \ {c} :
                  call[d].op = "dependencies" => call'[d] = [call[d] EXCEPT !.outdated = TRUE]
        BY <2>1, <3>2 DEF OutdatesOthers
      <4>2. \A d \in Callers \ {c} : call[d].op = "dependencies" => call'[d].outdated
        <5>1. \A k \in Calls : [k EXCEPT !.outdated = TRUE].outdated
          BY DEF Calls
        <5>2. \A d \in Callers : call[d] \in Calls
          BY DEF CallsOK, CallOK
        <5>3. ASSUME NEW d \in Callers \ {c}, call[d].op = "dependencies"
              PROVE  call'[d].outdated
          <6>1. call'[d] = [call[d] EXCEPT !.outdated = TRUE]
            BY <4>1, <5>3
          <6>2. QED
            BY <5>1, <5>2, <6>1
        <5>4. QED
          BY <5>3
      <4>3. \A x \in Existing : parent'[x] \in {parent[x], NoIntent}
        BY <1>2
      <4>4. QED
        BY <1>2, <4>1, <4>2, <4>3, WriteKeepsCalls
    <3>3. QED
      BY <3>1, <3>2
  <2>4. DependencyCyclesAreRaced'
    <3>1. SUFFICES ASSUME NEW S \in SUBSET (Intents \ racedDeps'), S # {},
                          \A j \in S : dependsOn'[j] \cap S # {}
                   PROVE  FALSE
      BY DEF DependencyCyclesAreRaced
    <3>2. \A j \in S \ {i} : dependsOn'[j] = dependsOn[j] /\ j \notin racedDeps
      BY <2>1, <3>1 DEF TableOK
    <3>3. CASE i \notin S
      <4>1. S \in SUBSET (Intents \ racedDeps) /\ \A j \in S : dependsOn[j] \cap S # {}
        BY <3>1, <3>2, <3>3
      <4>2. QED
        BY <3>1, <4>1 DEF DependencyCyclesAreRaced
    <3>4. CASE i \in S
      <4>1. D \cap S # {}
        BY <1>2, <2>1, <3>1, <3>4 DEF TableOK
      <4>2. ~call[c].outdated
        BY <2>1, <3>1, <3>4, <4>1
      <4>3. PICK C \in SUBSET Intents : D \subseteq C /\ i \notin C /\ ClosedDeps(C)
        <5>1. call[c].at = "write" /\ WalkedDeps(call[c])
          BY <4>2, Writing DEF WriteDependencies
        <5>2. QED
          BY <1>1, <5>1 DEF WalkedDeps
      <4> DEFINE R == S \cap C
      <4>4. R # {} /\ R \in SUBSET (Intents \ racedDeps)
        BY <3>2, <4>1, <4>3
      <4>5. \A j \in R : dependsOn[j] \cap R # {}
        BY <3>1, <3>2, <4>3 DEF ClosedDeps
      <4> HIDE DEF R
      <4>6. QED
        BY <4>4, <4>5 DEF DependencyCyclesAreRaced
    <3>5. QED
      BY <3>3, <3>4
  <2>5. QED
    BY <1>3, <2>2, <2>3, <2>4
<1>6. QED
  BY <1>4, <1>5

\* _update_sidecar changes no link, and deletes no row.
LEMMA StatusKeeps ==
    ASSUME TableOK, CallsOK, ParentCyclesAreRaced, DependencyCyclesAreRaced,
           NEW c \in Callers, WriteStatus(c)
    PROVE  TableOK' /\ CallsOK' /\ ParentCyclesAreRaced' /\ DependencyCyclesAreRaced'
<1>1. /\ UNCHANGED <<parent, dependsOn, calls, racedParent, racedDeps>>
      /\ call' = [call EXCEPT ![c] = Idle]
  BY DEF WriteStatus, racedVars, Returns
<1>2. call[c].value \in Statuses /\ "absent" \notin Statuses
  BY IntentsAssumption DEF CallsOK, CallOK, Calls
<1>3. status' \in [Intents -> Statuses \union {"absent"}] /\ Existing' = Existing
  BY <1>2 DEF WriteStatus, TableOK, Existing
<1>4. TableOK' /\ ParentCyclesAreRaced' /\ DependencyCyclesAreRaced'
  BY <1>1, <1>3 DEF TableOK, ParentCyclesAreRaced, DependencyCyclesAreRaced
<1>5. /\ DOMAIN call' = Callers /\ call'[c] = Idle
      /\ \A d \in Callers \ {c} : call'[d] = call[d]
  BY <1>1 DEF CallsOK
<1>6. CallsOK'
  BY <1>1, <1>3, <1>5, WriteKeepsCalls
<1>7. QED
  BY <1>4, <1>6

-----------------------------------------------------------------------------
(* The theorems. *)

\* The table and the calls in order, and no cycle but raced ones.
IntentsInv ==
    /\ TableOK /\ CallsOK /\ call = [c \in Callers |-> call[c]]
    /\ ParentCyclesAreRaced /\ DependencyCyclesAreRaced

\* The inductive invariant holds along every behaviour.
LEMMA IntentsInvariant == Spec => []IntentsInv
<1>1. Init => IntentsInv
  <2> SUFFICES ASSUME Init PROVE IntentsInv
    OBVIOUS
  <2>1. TableOK
    BY IntentsAssumption DEF Init, TableOK, Existing
  <2>2. CallsOK /\ call = [c \in Callers |-> call[c]]
    BY IdleOK DEF Init, CallsOK
  <2>3. ParentCyclesAreRaced
    <3> SUFFICES ASSUME NEW S \in SUBSET Intents, S # {}, \A i \in S : parent[i] \in S
                 PROVE  FALSE
      BY DEF ParentCyclesAreRaced
    <3>1. PICK i \in S : TRUE
      OBVIOUS
    <3>2. parent[i] = NoIntent /\ NoIntent \notin S
      BY <3>1, IntentsAssumption DEF Init
    <3>3. QED
      BY <3>1, <3>2
  <2>4. DependencyCyclesAreRaced
    BY DEF Init, DependencyCyclesAreRaced
  <2>5. QED
    BY <2>1, <2>2, <2>3, <2>4 DEF IntentsInv
<1>2. IntentsInv /\ [Next]_intentVars => IntentsInv'
  <2> SUFFICES ASSUME IntentsInv, [Next]_intentVars PROVE IntentsInv'
    OBVIOUS
  <2> USE DEF IntentsInv
  <2>1. CASE UNCHANGED intentVars
    <3>1. UNCHANGED <<status, parent, dependsOn, call, calls, racedParent, racedDeps>>
      BY <2>1 DEF intentVars, sidecarVars, racedVars
    <3>2. \A x : CallOK(x)' = CallOK(x)
      BY <3>1 DEF CallOK, CallShape, Checked, WalkedUp, WalkedDeps, ClosedUp, ClosedDeps, Existing
    <3>3. CallsOK'
      BY <3>1, <3>2 DEF CallsOK
    <3>4. QED
      BY <3>1, <3>3 DEF TableOK, Existing, ParentCyclesAreRaced, DependencyCyclesAreRaced
  <2>2. CASE Next
    <3>1. PICK c \in Callers : Start(c) \/ CallRun(c) \/ TreeFails(c)
      BY <2>2 DEF Next
    <3>2. CASE \/ Start(c) \/ CheckParent(c) \/ CheckDependencies(c) \/ WalkUp(c)
               \/ WalkFromNext(c) \/ WalkDeps(c) \/ TreeFails(c)
      <4>1. TableOK' /\ CallsOK' /\ UNCHANGED <<sidecarVars, racedVars>>
        BY <3>2, ReadKeeps
      <4>2. ParentCyclesAreRaced' /\ DependencyCyclesAreRaced'
        BY <4>1 DEF sidecarVars, racedVars, ParentCyclesAreRaced, DependencyCyclesAreRaced
      <4>3. call' = [d \in Callers |-> call'[d]]
        BY <3>2 DEF Start, StartSubmit, StartSetParent, StartSetDependencies, StartSetStatus,
                    GetTree, Begins, CheckParent, CheckDependencies, WalkUp, WalkFromNext,
                    WalkDeps, TreeFails, Goes, Passes, Returns
      <4>4. QED
        BY <4>1, <4>2, <4>3
    <3>3. CASE WriteSubmit(c) \/ WriteParent(c) \/ WriteDependencies(c) \/ WriteStatus(c)
      <4>1. TableOK' /\ CallsOK' /\ ParentCyclesAreRaced' /\ DependencyCyclesAreRaced'
        BY <3>3, SubmitKeeps, ParentKeeps, DependenciesKeep, StatusKeeps
      <4>2. call' = [d \in Callers |-> call'[d]]
        BY <3>3 DEF WriteSubmit, WriteParent, WriteDependencies, WriteStatus, Returns,
                    OutdatesOthers
      <4>3. QED
        BY <4>1, <4>2
    <3>4. QED
      BY <3>1, <3>2, <3>3 DEF CallRun
  <2>3. QED
    BY <2>1, <2>2
<1>3. QED
  BY <1>1, <1>2, PTL DEF Spec

\* Every column and every call has its type; a parent and the dependencies of
\* an intent exist, whoever edits the graph meanwhile.
THEOREM TypeCorrect == Spec => []TypeOK
<1>1. IntentsInv => TypeOK
  BY TypesSuffice DEF IntentsInv
<1>2. QED
  BY <1>1, IntentsInvariant, PTL

\* set_intent_parent lets a cycle through only if another re-parenting was
\* committed during its walk (ParentCyclesAreRaced).
THEOREM NoParentCycle == Spec => []ParentCyclesAreRaced
<1>1. IntentsInv => ParentCyclesAreRaced
  BY DEF IntentsInv
<1>2. QED
  BY <1>1, IntentsInvariant, PTL

\* set_intent_dependencies, whose walk branches and forgets what it has seen
\* with every dependency, likewise (DependencyCyclesAreRaced).
THEOREM NoDependencyCycle == Spec => []DependencyCyclesAreRaced
<1>1. IntentsInv => DependencyCyclesAreRaced
  BY DEF IntentsInv
<1>2. QED
  BY <1>1, IntentsInvariant, PTL
=============================================================================
