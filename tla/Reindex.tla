------------------------------ MODULE Reindex -------------------------------
(***************************************************************************)
(* What an operator does to a running pipeline: scripts/reindex_all.py,    *)
(* which wipes the graph and then has extraction do every row again, and   *)
(* `psc queue clear`, which deletes the unclaimed curation entries.        *)
(***************************************************************************)
EXTENDS SystemOfRecord

CONSTANT MaxOperations   \* bound on reindex runs and queue clears together

ASSUME ReindexAssumption == MaxOperations \in Nat

VARIABLES
    reindexPc,    \* "idle", or "wiped": the graph is empty, the flags stand
    operations    \* what the operator has done so far

reindexVars == <<reindexPc, operations>>

ReindexTypeOK ==
    /\ reindexPc \in {"idle", "wiped"}
    /\ operations \in 0 .. MaxOperations

ReindexInit == reindexPc = "idle" /\ operations = 0

Operate == operations < MaxOperations /\ operations' = operations + 1

\* MATCH (n) DETACH DELETE n; the vectors go too.
WipeGraph ==
    /\ reindexPc = "idle"
    /\ Operate
    /\ facts' = [r \in Records |-> "none"]
    /\ uncurated' = {}
    /\ reindexPc' = "wiped"
    /\ UNCHANGED <<rowVars, queueVars, faults>>

\* UPDATE records SET indexed = FALSE WHERE classification = 'relevant'.
\* curator_queue is left as it is.
ResetIndexed ==
    /\ reindexPc = "wiped"
    /\ indexed' = [r \in Records |-> indexed[r] /\ class[r] # "relevant"]
    /\ reindexPc' = "idle"
    /\ UNCHANGED <<operations, class, dedupKey, queueVars, graphVars, faults>>

\* `psc queue clear --confirm`.
ClearQueue ==
    /\ Operate
    /\ claim' = [r \in Records |-> IF claim[r] = "free" THEN "none" ELSE claim[r]]
    /\ queuedAt' = [r \in Records |-> IF claim[r] = "free" THEN 0 ELSE queuedAt[r]]
    /\ UNCHANGED <<reindexPc, rowVars, clock, graphVars, faults>>

ReindexNext == WipeGraph \/ ResetIndexed \/ ClearQueue
=============================================================================
