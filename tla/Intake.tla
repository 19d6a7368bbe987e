------------------------------- MODULE Intake -------------------------------
(***************************************************************************)
(* How rows get into `records`.  An ingester (an expert's polling thread,  *)
(* an MCP submit_record call, `psc expert ingest --record`) saves an item  *)
(* through PearscarfStorage.save_record: store.save_record looks for the   *)
(* dedup key and inserts, in one READ COMMITTED transaction, and a second  *)
(* transaction writes the classification.  The file ingester then marks    *)
(* the row relevant in a third.  Items stay fetchable: Gmail lists an      *)
(* unread mail at every poll, an MCP client may submit again.              *)
(***************************************************************************)
EXTENDS SystemOfRecord

CONSTANTS
    Ingesters,
    FileIngesters,  \* the ones that are ParseRecordFileTool calls
    Handles,        \* the items an ingester is given
    Policy          \* relevancy_check of the expert an item belongs to

ASSUME IntakeAssumption ==
    /\ FileIngesters \subseteq Ingesters
    /\ Handles \in [Ingesters -> SUBSET Items]
    /\ Policy \in [Items -> {"skip", "required"}]

VARIABLES
    savePc,    \* where the save call of an ingester is
    saveItem,  \* the item it saves
    saveRow    \* the row it inserted

intakeVars == <<savePc, saveItem, saveRow>>

IntakeTypeOK ==
    /\ savePc \in [Ingesters -> {"idle", "checked", "inserted", "labelled"}]
    /\ saveItem \in [Ingesters -> Items \union {NoItem}]
    /\ saveRow \in [Ingesters -> Records \union {NoRecord}]

IntakeInit ==
    /\ savePc = [g \in Ingesters |-> "idle"]
    /\ saveItem = [g \in Ingesters |-> NoItem]
    /\ saveRow = [g \in Ingesters |-> NoRecord]

SaveReturns(g) ==
    /\ savePc' = [savePc EXCEPT ![g] = "idle"]
    /\ saveItem' = [saveItem EXCEPT ![g] = NoItem]
    /\ saveRow' = [saveRow EXCEPT ![g] = NoRecord]

-----------------------------------------------------------------------------

\* MUTANT: the SELECT that looks for the dedup key is gone.
SaveWithoutLookup(g, k) ==
    /\ savePc[g] = "idle"
    /\ k \in Handles[g]
    /\ savePc' = [savePc EXCEPT ![g] = "checked"]
    /\ saveItem' = [saveItem EXCEPT ![g] = k]
    /\ UNCHANGED <<saveRow, storeVars>>

\* The SELECT on dedup_key finds nothing.  When it finds a row the call
\* returns None and nothing changes.
SaveCheck(g, k) ==
    /\ savePc[g] = "idle"
    /\ k \in Handles[g]
    /\ \A r \in Records : dedupKey[r] # k
    /\ savePc' = [savePc EXCEPT ![g] = "checked"]
    /\ saveItem' = [saveItem EXCEPT ![g] = k]
    /\ UNCHANGED <<saveRow, storeVars>>

\* The INSERT, without a classification, and the commit.
SaveInsert(g, r) ==
    /\ savePc[g] = "checked"
    /\ class[r] = "absent"
    /\ r \notin SeedRows \union IntentRows
    /\ class' = [class EXCEPT ![r] = "NULL"]
    /\ dedupKey' = [dedupKey EXCEPT ![r] = saveItem[g]]
    /\ savePc' = [savePc EXCEPT ![g] = "inserted"]
    /\ saveRow' = [saveRow EXCEPT ![g] = r]
    /\ UNCHANGED <<saveItem, indexed, queueVars, graphVars, faults>>

\* MUTANT: the manifest's policy is ignored.
LabelsWithoutPolicy(k) == {"pending_triage", "noise"}

\* MUTANT: a label no consumer polls for.
LabelsMisspelt(k) ==
    IF Policy[k] = "skip" THEN {"relevant"} ELSE {"pending", "noise"}

\* What save_record labels an item: the expert's own verdict ("noise", from
\* Gmail's hard filter) or what the manifest's policy says.
LabelsOnSave(k) ==
    IF Policy[k] = "skip" THEN {"relevant"} ELSE {"pending_triage", "noise"}

\* The second transaction of PearscarfStorage.save_record.
SaveClassify(g) ==
    /\ savePc[g] = "inserted"
    /\ \E label \in LabelsOnSave(saveItem[g]) : SetClassification(saveRow[g], label)
    /\ IF g \in FileIngesters
       THEN /\ savePc' = [savePc EXCEPT ![g] = "labelled"]
            /\ UNCHANGED <<saveItem, saveRow>>
       ELSE SaveReturns(g)
    /\ UNCHANGED <<dedupKey, indexed, queueVars, graphVars, faults>>

\* ParseRecordFileTool: store.mark_relevant on every row it saved.
SaveMarkRelevant(g) ==
    /\ savePc[g] = "labelled"
    /\ SetClassification(saveRow[g], "relevant")
    /\ SaveReturns(g)
    /\ UNCHANGED <<dedupKey, indexed, queueVars, graphVars, faults>>

\* The ingester dies, or a call of the save raises and the consumer loop
\* moves on: what was committed stays.
SaveAborts(g) ==
    /\ savePc[g] # "idle"
    /\ Fault
    /\ SaveReturns(g)
    /\ UNCHANGED <<rowVars, queueVars, graphVars>>

\* store.save_ingest: a seed is relevant from its INSERT on.
SaveSeed(r) ==
    /\ r \in SeedRows
    /\ class[r] = "absent"
    /\ class' = [class EXCEPT ![r] = "relevant"]
    /\ UNCHANGED <<intakeVars, dedupKey, indexed, queueVars, graphVars, faults>>

\* intents.submit_intent: relevant and indexed in one INSERT, so that
\* extraction passes the row by.
SubmitIntent(r) ==
    /\ r \in IntentRows
    /\ class[r] = "absent"
    /\ class' = [class EXCEPT ![r] = "relevant"]
    /\ indexed' = [indexed EXCEPT ![r] = TRUE]
    /\ UNCHANGED <<intakeVars, dedupKey, queueVars, graphVars, faults>>

SaveRun(g) ==
    \/ \E r \in Records : SaveInsert(g, r)
    \/ SaveClassify(g)
    \/ SaveMarkRelevant(g)

IntakeNext ==
    \/ \E g \in Ingesters :
          \/ \E k \in Items : SaveCheck(g, k)
          \/ \E r \in Records : SaveInsert(g, r)
          \/ SaveClassify(g)
          \/ SaveMarkRelevant(g)
          \/ SaveAborts(g)
    \/ \E r \in Records : SaveSeed(r) \/ SubmitIntent(r)
=============================================================================
