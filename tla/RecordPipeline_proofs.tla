------------------------ MODULE RecordPipeline_proofs -----------------------
(***************************************************************************)
(* Theorems about RecordPipeline, for any number of rows, items and        *)
(* processes.                                                              *)
(***************************************************************************)
EXTENDS RecordPipeline, TLAPS

USE DEF storeVars, rowVars, queueVars, graphVars

-----------------------------------------------------------------------------
(* Type correctness: one lemma for every component. *)

\* A crash or failed call stays within the bound.
LEMMA FaultType ==
    ASSUME faults \in 0 .. MaxFaults, Fault
    PROVE  faults' \in 0 .. MaxFaults
<1>1. MaxFaults \in Nat
  BY FaultsAssumption
<1>2. QED
  BY <1>1 DEF Fault

\* The steps of the ingesters keep every variable in its type.
LEMMA IntakeKeepsTypes ==
    ASSUME TypeOK, IntakeNext,
           UNCHANGED <<triageVars, extractionVars, curationVars, reindexVars>>
    PROVE  TypeOK'
<1> USE RowsAssumption, IntakeAssumption
    DEF TypeOK, StoreTypeOK, IntakeTypeOK, TriageTypeOK, ExtractionTypeOK,
        CurationTypeOK, ReindexTypeOK, triageVars, extractionVars,
        curationVars, reindexVars, intakeVars, Classes, Labels, Decided
<1>1. ASSUME NEW g \in Ingesters, NEW k \in Items, SaveCheck(g, k)
      PROVE  TypeOK'
  BY <1>1 DEF SaveCheck
<1>2. ASSUME NEW g \in Ingesters, NEW r \in Records, SaveInsert(g, r)
      PROVE  TypeOK'
  BY <1>2 DEF SaveInsert
<1>3. ASSUME NEW g \in Ingesters, SaveClassify(g)
      PROVE  TypeOK'
  <2>1. PICK label \in Labels : class' = [class EXCEPT ![saveRow[g]] = label]
    BY <1>3 DEF SaveClassify, SetClassification, LabelsOnSave
  <2>2. class' \in [Records -> Classes]
    BY <2>1
  <2>3. QED
    BY <1>3, <2>2 DEF SaveClassify, SaveReturns
<1>4. ASSUME NEW g \in Ingesters, SaveMarkRelevant(g)
      PROVE  TypeOK'
  BY <1>4 DEF SaveMarkRelevant, SetClassification, SaveReturns
<1>5. ASSUME NEW g \in Ingesters, SaveAborts(g)
      PROVE  TypeOK'
  BY <1>5, FaultType DEF SaveAborts, SaveReturns
<1>6. ASSUME NEW r \in Records, SaveSeed(r)
      PROVE  TypeOK'
  BY <1>6 DEF SaveSeed
<1>7. ASSUME NEW r \in Records, SubmitIntent(r)
      PROVE  TypeOK'
  BY <1>7 DEF SubmitIntent
<1>8. QED
  BY <1>1, <1>2, <1>3, <1>4, <1>5, <1>6, <1>7 DEF IntakeNext

\* The steps of the triage processes keep every variable in its type.
LEMMA TriageKeepsTypes ==
    ASSUME TypeOK, TriageNext,
           UNCHANGED <<intakeVars, extractionVars, curationVars, reindexVars>>
    PROVE  TypeOK'
<1> USE RowsAssumption
    DEF TypeOK, StoreTypeOK, IntakeTypeOK, TriageTypeOK, ExtractionTypeOK,
        CurationTypeOK, ReindexTypeOK, triageVars, extractionVars,
        curationVars, reindexVars, intakeVars, Classes, Labels, Decided
<1> PICK t \in Triagers : TriageRun(t) \/ TriageCrash(t)
  BY DEF TriageNext
<1>1. CASE TriageBoot(t)
  BY <1>1 DEF TriageBoot, RowsWith
<1>2. CASE TriageClaim(t)
  BY <1>2 DEF TriageClaim, SetClassification
<1>3. CASE TriageDecide(t)
  <2>1. PICK label \in AgentLabels \union {"uncertain"} :
            class' = [class EXCEPT ![triageRow[t]] = label]
    BY <1>3 DEF TriageDecide, SetClassification
  <2>2. class' \in [Records -> Classes]
    BY <2>1
  <2>3. QED
    BY <1>3, <2>2 DEF TriageDecide, TriageStops
<1>4. CASE TriageFail(t)
  BY <1>4, FaultType DEF TriageFail
<1>5. CASE TriageRelease(t)
  BY <1>5 DEF TriageRelease, SetClassification, TriageStops
<1>6. CASE TriageReleaseLost(t)
  BY <1>6, FaultType DEF TriageReleaseLost, TriageStops
<1>7. CASE TriageCrash(t)
  BY <1>7, FaultType DEF TriageCrash, TriageStops
<1>8. QED
  BY <1>1, <1>2, <1>3, <1>4, <1>5, <1>6, <1>7 DEF TriageRun

\* A working extractor has a row in hand.  TypeOK is not inductive without
\* it: a commit adds the row in hand to `uncurated`.
RowInHand ==
    \A e \in Extractors :
        extractPc[e] \in {"agent", "commit", "mark", "enqueue"}
            => extractRow[e] \in Records

\* The steps of the extraction processes keep every variable in its type.
LEMMA ExtractionKeepsTypes ==
    ASSUME TypeOK, RowInHand, ExtractionNext,
           UNCHANGED <<intakeVars, triageVars, curationVars, reindexVars>>
    PROVE  TypeOK'
<1> USE RowsAssumption
    DEF TypeOK, StoreTypeOK, IntakeTypeOK, TriageTypeOK, ExtractionTypeOK,
        CurationTypeOK, ReindexTypeOK, triageVars, extractionVars,
        curationVars, reindexVars, intakeVars, ExtractorGoes, ExtractorDone
<1> PICK e \in Extractors : ExtractRun(e) \/ ExtractCrash(e)
  BY DEF ExtractionNext
<1>1. CASE ExtractBoot(e)
  BY <1>1 DEF ExtractBoot
<1>2. CASE ExtractPoll(e)
  BY <1>2 DEF ExtractPoll, TakeOldestOf, Unindexed
<1>3. CASE ExtractNext(e)
  BY <1>3 DEF ExtractNext, TakeOldestOf
<1>4. CASE ExtractNothing(e)
  BY <1>4 DEF ExtractNothing, MarkIndexed
<1>5. CASE ExtractSaved(e)
  BY <1>5 DEF ExtractSaved
<1>6. CASE ExtractCommitSome(e)
  <2>1. facts' \in [Records -> {"none", "partial", "full"}]
    BY <1>6 DEF ExtractCommitSome
  <2>2. uncurated' \subseteq Records
    BY <1>6, ZenonT(60) DEF ExtractCommitSome, RowInHand
  <2>3. QED
    BY <1>6, <2>1, <2>2 DEF ExtractCommitSome
<1>7. CASE ExtractCommit(e)
  <2>1. facts' \in [Records -> {"none", "partial", "full"}]
    BY <1>7 DEF ExtractCommit
  <2>2. uncurated' \subseteq Records
    BY <1>7 DEF ExtractCommit, RowInHand
  <2>3. QED
    BY <1>7, <2>1, <2>2 DEF ExtractCommit
<1>8. CASE ExtractFail(e)
  BY <1>8, FaultType DEF ExtractFail
<1>9. CASE ExtractMark(e)
  BY <1>9 DEF ExtractMark, MarkIndexed
<1>10. CASE ExtractEnqueue(e)
  BY <1>10 DEF ExtractEnqueue, EnqueueForCuration
<1>11. CASE ExtractEnqueueLost(e)
  BY <1>11, FaultType DEF ExtractEnqueueLost
<1>12. CASE ExtractCrash(e)
  BY <1>12, FaultType DEF ExtractCrash
<1>13. QED
  BY <1>1, <1>2, <1>3, <1>4, <1>5, <1>6, <1>7, <1>8, <1>9, <1>10, <1>11, <1>12
  DEF ExtractRun

\* The steps of the curation processes, and the ageing of claims, keep every
\* variable in its type.
LEMMA CurationKeepsTypes ==
    ASSUME TypeOK, CurationNext,
           UNCHANGED <<intakeVars, triageVars, extractionVars, reindexVars>>
    PROVE  TypeOK'
<1> USE RowsAssumption
    DEF TypeOK, StoreTypeOK, IntakeTypeOK, TriageTypeOK, ExtractionTypeOK,
        CurationTypeOK, ReindexTypeOK, triageVars, extractionVars,
        curationVars, reindexVars, intakeVars, CuratorGoes, CuratorStops,
        SetClaim, RemoveEntry
<1>1. ASSUME NEW r \in Records, ClaimAges(r)
      PROVE  TypeOK'
  BY <1>1 DEF ClaimAges
<1>2. ASSUME NEW c \in Curators, CurateBoot(c)
      PROVE  TypeOK'
  BY <1>2 DEF CurateBoot
<1>3. ASSUME NEW c \in Curators, CurateSweep(c)
      PROVE  TypeOK'
  BY <1>3 DEF CurateSweep
<1>4. ASSUME NEW c \in Curators, CurateClaim(c)
      PROVE  TypeOK'
  BY <1>4 DEF CurateClaim
<1>5. ASSUME NEW c \in Curators, CurateNoWork(c)
      PROVE  TypeOK'
  BY <1>5 DEF CurateNoWork
<1>6. ASSUME NEW c \in Curators, CurateScan(c)
      PROVE  TypeOK'
  BY <1>6 DEF CurateScan
<1>7. ASSUME NEW c \in Curators, CurateDelete(c)
      PROVE  TypeOK'
  BY <1>7 DEF CurateDelete
<1>8. ASSUME NEW c \in Curators, CurateFail(c)
      PROVE  TypeOK'
  BY <1>8, FaultType DEF CurateFail
<1>9. ASSUME NEW c \in Curators, CurateRelease(c)
      PROVE  TypeOK'
  BY <1>9 DEF CurateRelease
<1>10. ASSUME NEW c \in Curators, CurateReleaseLost(c)
       PROVE  TypeOK'
  BY <1>10, FaultType DEF CurateReleaseLost
<1>11. ASSUME NEW c \in Curators, CurateCrash(c)
       PROVE  TypeOK'
  BY <1>11, FaultType DEF CurateCrash
<1>12. QED
  BY <1>1, <1>2, <1>3, <1>4, <1>5, <1>6, <1>7, <1>8, <1>9, <1>10, <1>11
  DEF CurationNext, CurateRun

\* What the operator does keeps every variable in its type.
LEMMA ReindexKeepsTypes ==
    ASSUME TypeOK, ReindexNext,
           UNCHANGED <<intakeVars, triageVars, extractionVars, curationVars>>
    PROVE  TypeOK'
<1> USE RowsAssumption, ReindexAssumption
    DEF TypeOK, StoreTypeOK, IntakeTypeOK, TriageTypeOK, ExtractionTypeOK,
        CurationTypeOK, ReindexTypeOK, triageVars, extractionVars,
        curationVars, reindexVars, intakeVars, Operate
<1>1. CASE WipeGraph
  BY <1>1 DEF WipeGraph
<1>2. CASE ResetIndexed
  BY <1>2 DEF ResetIndexed
<1>3. CASE ClearQueue
  BY <1>3 DEF ClearQueue
<1>4. QED
  BY <1>1, <1>2, <1>3 DEF ReindexNext

\* A row stays in hand while an extractor works on it.
LEMMA StepInHand == TypeOK /\ RowInHand /\ [Next]_vars => RowInHand'
<1> SUFFICES ASSUME TypeOK, RowInHand, [Next]_vars PROVE RowInHand'
  OBVIOUS
<1> USE DEF RowInHand, extractionVars, ExtractorGoes, ExtractorDone
<1>1. CASE UNCHANGED extractionVars
  BY <1>1
<1>2. ASSUME NEW e \in Extractors, ExtractRun(e) \/ ExtractCrash(e)
      PROVE  RowInHand'
  <2> USE DEF TypeOK, ExtractionTypeOK
  <2>1. CASE ExtractPoll(e) \/ ExtractNext(e)
    <3>1. PICK r \in Records : extractRow' = [extractRow EXCEPT ![e] = r]
      BY <2>1 DEF ExtractPoll, ExtractNext, TakeOldestOf, Unindexed
    <3>2. extractPc' = [extractPc EXCEPT ![e] = "agent"]
      BY <2>1 DEF ExtractPoll, ExtractNext
    <3>3. QED
      BY <3>1, <3>2
  <2>2. CASE ExtractSaved(e) \/ ExtractCommit(e) \/ ExtractMark(e)
    BY <2>2 DEF ExtractSaved, ExtractCommit, ExtractMark
  <2>3. CASE ExtractBoot(e) \/ ExtractCommitSome(e) \/ ExtractCrash(e)
    BY <2>3 DEF ExtractBoot, ExtractCommitSome, ExtractCrash
  <2>4. CASE \/ ExtractNothing(e) \/ ExtractFail(e)
             \/ ExtractEnqueue(e) \/ ExtractEnqueueLost(e)
    BY <2>4 DEF ExtractNothing, ExtractFail, ExtractEnqueue, ExtractEnqueueLost
  <2>5. QED
    BY <1>2, <2>1, <2>2, <2>3, <2>4 DEF ExtractRun
<1>3. QED
  BY <1>1, <1>2 DEF Next, ExtractionNext, vars

\* The initial state is well typed.
LEMMA InitTypes == Init => TypeOK /\ RowInHand
<1> SUFFICES ASSUME Init PROVE TypeOK /\ RowInHand
  OBVIOUS
<1>1. StoreTypeOK
  <2>1. MaxFaults \in Nat
    BY FaultsAssumption
  <2>2. QED
    BY <2>1 DEF Init, StoreInit, StoreTypeOK, Classes
<1>2. IntakeTypeOK /\ TriageTypeOK
  BY DEF Init, IntakeInit, TriageInit, IntakeTypeOK, TriageTypeOK
<1>3. ExtractionTypeOK /\ RowInHand
  BY DEF Init, ExtractionInit, ExtractionTypeOK, RowInHand
<1>4. CurationTypeOK /\ ReindexTypeOK
  BY ReindexAssumption
  DEF Init, CurationInit, ReindexInit, CurationTypeOK, ReindexTypeOK
<1>5. QED
  BY <1>1, <1>2, <1>3, <1>4 DEF TypeOK

\* Every step keeps the types.
LEMMA StepTypes == TypeOK /\ RowInHand /\ [Next]_vars => TypeOK'
<1> SUFFICES ASSUME TypeOK, RowInHand, [Next]_vars PROVE TypeOK'
  OBVIOUS
<1>1. CASE Next
  BY <1>1, IntakeKeepsTypes, TriageKeepsTypes, ExtractionKeepsTypes,
     CurationKeepsTypes, ReindexKeepsTypes
  DEF Next
<1>2. CASE UNCHANGED vars
  BY <1>2 DEF vars, TypeOK, StoreTypeOK, IntakeTypeOK, TriageTypeOK,
     ExtractionTypeOK, CurationTypeOK, ReindexTypeOK, triageVars,
     extractionVars, curationVars, reindexVars, intakeVars
<1>3. QED
  BY <1>1, <1>2

\* Every variable of the pipeline stays in its type, whatever fails.
THEOREM TypeCorrect == Spec => []TypeOK
<1>1. TypeOK /\ RowInHand /\ [Next]_vars => TypeOK' /\ RowInHand'
  BY StepTypes, StepInHand
<1>2. QED
  BY InitTypes, <1>1, PTL DEF Spec

-----------------------------------------------------------------------------
(* One row for each item *)

\* An item has one ingester: it is polled for, or read from files, or
\* submitted.  (Run `duplicate` shows what happens when it has two.)
OneIngesterPerItem ==
    \A g, h \in Ingesters : g # h => Handles[g] \cap Handles[h] = {}

\* OneRowPerItem is inductive only together with what a passed check is worth
\* until the INSERT: the item still has no row.
CheckedIsNew ==
    \A g \in Ingesters :
        savePc[g] = "checked" =>
            /\ saveItem[g] \in Handles[g]
            /\ \A r \in Records : dedupKey[r] # saveItem[g]

\* Only the INSERT of an ingester writes a dedup key.
LEMMA KeysFromInsert ==
    ASSUME [Next]_vars
    PROVE  \/ UNCHANGED dedupKey
           \/ \E g \in Ingesters, r \in Records : SaveInsert(g, r)
<1>1. CASE UNCHANGED vars
  BY <1>1 DEF vars
<1>2. CASE IntakeNext
  BY <1>2 DEF IntakeNext, SaveCheck, SaveClassify, SaveMarkRelevant,
     SaveAborts, SaveSeed, SubmitIntent
<1>3. CASE TriageNext
  BY <1>3 DEF TriageNext, TriageRun, TriageBoot, TriageClaim, TriageDecide,
     TriageFail, TriageRelease, TriageReleaseLost, TriageCrash
<1>4. CASE ExtractionNext
  BY <1>4 DEF ExtractionNext, ExtractRun, ExtractBoot, ExtractPoll,
     ExtractNext, ExtractNothing, ExtractSaved, ExtractCommitSome,
     ExtractCommit, ExtractFail, ExtractMark, ExtractEnqueue,
     ExtractEnqueueLost, ExtractCrash
<1>5. CASE CurationNext
  BY <1>5 DEF CurationNext, CurateRun, ClaimAges, CurateBoot, CurateSweep,
     CurateClaim, CurateNoWork, CurateScan, CurateDelete, CurateFail,
     CurateRelease, CurateReleaseLost, CurateCrash
<1>6. CASE ReindexNext
  BY <1>6 DEF ReindexNext, WipeGraph, ResetIndexed, ClearQueue
<1>7. QED
  BY <1>1, <1>2, <1>3, <1>4, <1>5, <1>6 DEF Next

\* The check of an ingester is passed by its SELECT alone.
LEMMA ChecksFromSelect ==
    ASSUME TypeOK, [Next]_vars, NEW g \in Ingesters, savePc'[g] = "checked"
    PROVE  \/ savePc[g] = "checked" /\ saveItem'[g] = saveItem[g]
           \/ saveItem'[g] \in Items /\ SaveCheck(g, saveItem'[g])
<1> USE DEF TypeOK, IntakeTypeOK, intakeVars
<1>1. CASE UNCHANGED intakeVars
  BY <1>1
<1>2. ASSUME NEW h \in Ingesters, NEW k \in Items, SaveCheck(h, k)
      PROVE  \/ savePc[g] = "checked" /\ saveItem'[g] = saveItem[g]
             \/ saveItem'[g] \in Items /\ SaveCheck(g, saveItem'[g])
  <2>1. CASE h = g
    <3>1. saveItem'[g] = k
      BY <1>2, <2>1 DEF SaveCheck
    <3>2. QED
      BY <1>2, <2>1, <3>1
  <2>2. CASE h # g
    BY <1>2, <2>2 DEF SaveCheck
  <2>3. QED
    BY <2>1, <2>2
<1>3. ASSUME NEW h \in Ingesters, NEW r \in Records, SaveInsert(h, r)
      PROVE  savePc[g] = "checked" /\ saveItem'[g] = saveItem[g]
  BY <1>3 DEF SaveInsert
<1>4. ASSUME NEW h \in Ingesters,
             SaveClassify(h) \/ SaveMarkRelevant(h) \/ SaveAborts(h)
      PROVE  savePc[g] = "checked" /\ saveItem'[g] = saveItem[g]
  BY <1>4 DEF SaveClassify, SaveMarkRelevant, SaveAborts, SaveReturns
<1>5. ASSUME NEW r \in Records, SaveSeed(r) \/ SubmitIntent(r)
      PROVE  UNCHANGED intakeVars
  BY <1>5 DEF SaveSeed, SubmitIntent
<1>6. QED
  BY <1>1, <1>2, <1>3, <1>4, <1>5 DEF Next, IntakeNext, vars

\* Every step keeps one row for each item.
LEMMA StepOneRow ==
    ASSUME OneIngesterPerItem, TypeOK, CheckedIsNew, OneRowPerItem, [Next]_vars
    PROVE  CheckedIsNew' /\ OneRowPerItem'
<1> USE IntakeAssumption, RowsAssumption
    DEF TypeOK, StoreTypeOK, IntakeTypeOK, CheckedIsNew, OneRowPerItem
<1>1. CASE UNCHANGED dedupKey
  <2>1. OneRowPerItem'
    BY <1>1
  <2>2. ASSUME NEW g \in Ingesters, savePc'[g] = "checked"
        PROVE  /\ saveItem'[g] \in Handles[g]
               /\ \A r \in Records : dedupKey'[r] # saveItem'[g]
    BY <1>1, <2>2, ChecksFromSelect DEF SaveCheck
  <2>3. QED
    BY <2>1, <2>2
<1>2. ASSUME NEW g \in Ingesters, NEW r \in Records, SaveInsert(g, r)
      PROVE  CheckedIsNew' /\ OneRowPerItem'
  <2>1. /\ savePc[g] = "checked"
        /\ dedupKey' = [dedupKey EXCEPT ![r] = saveItem[g]]
        /\ savePc' = [savePc EXCEPT ![g] = "inserted"]
        /\ saveItem' = saveItem
    BY <1>2 DEF SaveInsert
  <2>2. saveItem[g] \in Handles[g] /\ \A s \in Records : dedupKey[s] # saveItem[g]
    BY <2>1
  <2>3. OneRowPerItem'
    BY <2>1, <2>2
  <2>4. ASSUME NEW h \in Ingesters, savePc'[h] = "checked"
        PROVE  /\ saveItem[h] \in Handles[h]
               /\ \A s \in Records : dedupKey'[s] # saveItem[h]
    <3>1. h # g /\ savePc[h] = "checked"
      BY <2>1, <2>4
    <3>2. saveItem[h] # saveItem[g]
      BY <2>2, <3>1 DEF OneIngesterPerItem
    <3>3. QED
      BY <2>1, <3>1, <3>2
  <2>5. QED
    BY <2>1, <2>3, <2>4
<1>3. QED
  BY <1>1, <1>2, KeysFromInsert

\* If an item has one ingester it never has two rows, however often it is
\* fetched again and wherever the saves before crashed.
THEOREM ItemsSavedOnce ==
    ASSUME OneIngesterPerItem
    PROVE  Spec => []OneRowPerItem
<1>1. Init => CheckedIsNew /\ OneRowPerItem
  BY DEF Init, StoreInit, IntakeInit, CheckedIsNew, OneRowPerItem
<1>2. TypeOK /\ CheckedIsNew /\ OneRowPerItem /\ [Next]_vars
      => CheckedIsNew' /\ OneRowPerItem'
  BY StepOneRow
<1>3. QED
  BY <1>1, <1>2, TypeCorrect, PTL DEF Spec
=============================================================================
