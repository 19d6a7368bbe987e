--------------------------- MODULE SystemOfRecord ---------------------------
(***************************************************************************)
(* The stores every consumer of the pipeline shares: the Postgres tables   *)
(* `records` and `curator_queue`, and the fact graph as far as the         *)
(* pipeline depends on it.  A Postgres transaction is one step.            *)
(*                                                                         *)
(* A row is named by a natural number, and rows are numbered in the order  *)
(* of their created_at; a row may become visible after a younger one.      *)
(***************************************************************************)
EXTENDS Integers

CONSTANTS
    Records,     \* every row `records` may come to hold
    SeedRows,    \* the rows a seed file is saved as
    IntentRows,  \* the rows the intents module writes
    Items,       \* the external things rows are saved for: dedup keys
    NoItem,      \* the dedup_key of a row that has none
    NoRecord,    \* "no record in hand" of a consumer
    AgentLabels, \* what a triage agent may pass to `classify`: any string
    MaxFaults,   \* bound on the crashes and failed calls of a behaviour
    LostWrites   \* which cleanup writes Postgres may refuse

ASSUME RowsAssumption ==
    /\ Records \subseteq Nat
    /\ SeedRows \subseteq Records
    /\ IntentRows \subseteq Records
    /\ SeedRows \cap IntentRows = {}
    /\ NoRecord \notin Records
    /\ NoItem \notin Items

\* "NULL" and "absent" are no strings of the column, but its having none.
ASSUME LabelsAssumption == AgentLabels \cap {"NULL", "absent"} = {}

ASSUME FaultsAssumption ==
    /\ MaxFaults \in Nat
    /\ LostWrites \subseteq {"triage release", "enqueue", "curation release"}

VARIABLES
    class,      \* records.classification; "absent" before the row exists
    dedupKey,   \* records.dedup_key
    indexed,    \* records.indexed
    claim,      \* curator_queue: "none" no entry, "free", "held", "overdue"
    queuedAt,   \* curator_queue.queued_at, on the scale of clock
    clock,      \* now() for queued_at: one tick per insertion
    facts,      \* how much of the record's extraction the graph holds
    uncurated,  \* history: rows with facts no supersession scan has read
    faults      \* crashes and failed calls so far

rowVars   == <<class, dedupKey, indexed>>
queueVars == <<claim, queuedAt, clock>>
graphVars == <<facts, uncurated>>
storeVars == <<rowVars, queueVars, graphVars, faults>>

Decided == {"relevant", "noise", "uncertain"}
Labels  == Decided \union {"pending_triage", "triaging"} \union AgentLabels
Classes == Labels \union {"NULL", "absent"}

StoreTypeOK ==
    /\ class \in [Records -> Classes]
    /\ dedupKey \in [Records -> Items \union {NoItem}]
    /\ indexed \in [Records -> BOOLEAN]
    /\ claim \in [Records -> {"none", "free", "held", "overdue"}]
    /\ queuedAt \in [Records -> Nat]
    /\ clock \in Nat
    /\ facts \in [Records -> {"none", "partial", "full"}]
    /\ uncurated \in SUBSET Records
    /\ faults \in 0 .. MaxFaults

StoreInit ==
    /\ class = [r \in Records |-> "absent"]
    /\ dedupKey = [r \in Records |-> NoItem]
    /\ indexed = [r \in Records |-> FALSE]
    /\ claim = [r \in Records |-> "none"]
    /\ queuedAt = [r \in Records |-> 0]
    /\ clock = 1
    /\ facts = [r \in Records |-> "none"]
    /\ uncurated = {}
    /\ faults = 0

-----------------------------------------------------------------------------

RowsWith(label) == {r \in Records : class[r] = label}

\* The first row of S in ORDER BY created_at.
Oldest(r, S) == r \in S /\ \A s \in S : r <= s

\* One more crash or failed call; MaxFaults bounds them.
Fault == faults < MaxFaults /\ faults' = faults + 1

\* store.set_classification: an UPDATE by id that looks at nothing.
SetClassification(r, label) == class' = [class EXCEPT ![r] = label]

\* Extraction._mark_indexed.
MarkIndexed(r) == indexed' = [indexed EXCEPT ![r] = TRUE]

\* store.enqueue_for_curation: ON CONFLICT (record_id) DO NOTHING.
EnqueueForCuration(r) ==
    IF claim[r] = "none"
    THEN /\ claim' = [claim EXCEPT ![r] = "free"]
         /\ queuedAt' = [queuedAt EXCEPT ![r] = clock]
         /\ clock' = clock + 1
    ELSE UNCHANGED queueVars
=============================================================================
