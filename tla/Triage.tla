------------------------------- MODULE Triage -------------------------------
(***************************************************************************)
(* The triage consumer: claims the oldest pending row, has an LLM agent    *)
(* judge it, writes the label.  A claim is nothing but the label           *)
(* `triaging`: it does not say whose it is, and a triage process that      *)
(* boots takes every such row for the leftover of a dead one.              *)
(***************************************************************************)
EXTENDS SystemOfRecord

CONSTANTS
    Triagers,       \* the triage processes (one container of the compose file)
    TriagePoison    \* rows on which the agent always raises (content too long)

ASSUME TriageAssumption == TriagePoison \subseteq Records

VARIABLES
    triagePc,   \* "down", "idle", "judging" or "failing" (in the except branch)
    triageRow,  \* the row a triager has in hand
    stolen      \* history: rows whose claim a boot took from a live triager

triageVars == <<triagePc, triageRow, stolen>>

TriageTypeOK ==
    /\ triagePc \in [Triagers -> {"down", "idle", "judging", "failing"}]
    /\ triageRow \in [Triagers -> Records \union {NoRecord}]
    /\ stolen \in SUBSET Records

TriageInit ==
    /\ triagePc = [t \in Triagers |-> "down"]
    /\ triageRow = [t \in Triagers |-> NoRecord]
    /\ stolen = {}

TriageStops(t, pc) ==
    /\ triagePc' = [triagePc EXCEPT ![t] = pc]
    /\ triageRow' = [triageRow EXCEPT ![t] = NoRecord]

HeldByTriage(r) == \E t \in Triagers : triageRow[t] = r

-----------------------------------------------------------------------------

\* MUTANT: _setup without _reset_stale_triaging.
TriageBootWithoutReset(t) ==
    /\ triagePc[t] = "down"
    /\ triagePc' = [triagePc EXCEPT ![t] = "idle"]
    /\ UNCHANGED <<triageRow, stolen, storeVars>>

\* _setup: every `triaging` row becomes pending again, whoever claimed it.
TriageBoot(t) ==
    /\ triagePc[t] = "down"
    /\ triagePc' = [triagePc EXCEPT ![t] = "idle"]
    /\ class' = [r \in Records |->
                   IF class[r] = "triaging" THEN "pending_triage" ELSE class[r]]
    /\ stolen' = stolen \union {r \in RowsWith("triaging") : HeldByTriage(r)}
    /\ UNCHANGED <<triageRow, dedupKey, indexed, queueVars, graphVars, faults>>

\* MUTANT: the claim is a SELECT; the row keeps the label `pending_triage`.
TriagePeek(t) ==
    /\ triagePc[t] = "idle"
    /\ \E r \in Records :
          /\ Oldest(r, RowsWith("pending_triage"))
          /\ triageRow' = [triageRow EXCEPT ![t] = r]
    /\ triagePc' = [triagePc EXCEPT ![t] = "judging"]
    /\ UNCHANGED <<stolen, storeVars>>

\* _claim_one: UPDATE ... RETURNING on the oldest pending row.
TriageClaim(t) ==
    /\ triagePc[t] = "idle"
    /\ \E r \in Records :
          /\ Oldest(r, RowsWith("pending_triage"))
          /\ SetClassification(r, "triaging")
          /\ triageRow' = [triageRow EXCEPT ![t] = r]
    /\ triagePc' = [triagePc EXCEPT ![t] = "judging"]
    /\ UNCHANGED <<stolen, dedupKey, indexed, queueVars, graphVars, faults>>

\* The agent finishes: whatever label it passed to `classify`, which checks
\* none, or `uncertain` when it never called it, is written whatever the row
\* says by now.
TriageDecide(t) ==
    /\ triagePc[t] = "judging"
    /\ triageRow[t] \notin TriagePoison
    /\ \E label \in AgentLabels \union {"uncertain"} :
          SetClassification(triageRow[t], label)
    /\ TriageStops(t, "idle")
    /\ UNCHANGED <<stolen, dedupKey, indexed, queueVars, graphVars, faults>>

\* _process raises: the agent's LLM call, or the write of its label.
TriageFail(t) ==
    /\ triagePc[t] = "judging"
    /\ \/ triageRow[t] \in TriagePoison /\ UNCHANGED faults
       \/ triageRow[t] \notin TriagePoison /\ Fault
    /\ triagePc' = [triagePc EXCEPT ![t] = "failing"]
    /\ UNCHANGED <<triageRow, stolen, rowVars, queueVars, graphVars>>

\* MUTANT: the except branch does not put the row back.
TriageForget(t) ==
    /\ triagePc[t] = "failing"
    /\ TriageStops(t, "idle")
    /\ UNCHANGED <<stolen, storeVars>>

\* _release_claim in _handle's except branch.
TriageRelease(t) ==
    /\ triagePc[t] = "failing"
    /\ SetClassification(triageRow[t], "pending_triage")
    /\ TriageStops(t, "idle")
    /\ UNCHANGED <<stolen, dedupKey, indexed, queueVars, graphVars, faults>>

\* _release_claim raises too: the loop logs it and goes on, and the row
\* stays `triaging`.
TriageReleaseLost(t) ==
    /\ "triage release" \in LostWrites
    /\ triagePc[t] = "failing"
    /\ Fault
    /\ TriageStops(t, "idle")
    /\ UNCHANGED <<stolen, rowVars, queueVars, graphVars>>

TriageCrash(t) ==
    /\ triagePc[t] # "down"
    /\ Fault
    /\ TriageStops(t, "down")
    /\ UNCHANGED <<stolen, rowVars, queueVars, graphVars>>

\* What the process does by itself, its restart by the container runtime
\* included.
TriageRun(t) ==
    \/ TriageBoot(t)
    \/ TriageClaim(t)
    \/ TriageDecide(t)
    \/ TriageFail(t)
    \/ TriageRelease(t)
    \/ TriageReleaseLost(t)

TriageNext == \E t \in Triagers : TriageRun(t) \/ TriageCrash(t)
=============================================================================
