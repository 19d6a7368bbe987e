-------------------------- MODULE Verdicts_proofs ---------------------------
(***************************************************************************)
(* The way of a record through the pipeline, for any number of rows, items *)
(* and ingesters.  A verdict is final, and what is indexed has the verdict *)
(* `relevant`, provided files are only ingested for experts whose policy   *)
(* is `skip` (run `manual` shows what happens when they are not).  What is *)
(* queued is in the graph, and what leaves the queue was curated.  Taken   *)
(* together, the pipeline implements RecordLifecycle.                      *)
(***************************************************************************)
EXTENDS Claims_proofs

\* Files are ingested for experts whose policy is `skip` only.
FilesAreTrusted ==
    \A g \in FileIngesters : \A k \in Handles[g] : Policy[k] = "skip"

\* The row a triager has in hand carries its claim, unless it was stolen.
ClaimedIsTriaging ==
    \A t \in Triagers :
        triageRow[t] \in Records \ stolen => class[triageRow[t]] = "triaging"

\* A row an ingester has labelled and is about to mark relevant is relevant
\* already, and nobody else's.
LabelledIsRelevant ==
    /\ \A g \in Ingesters : savePc[g] # "idle" => saveItem[g] \in Handles[g]
    /\ \A g \in Ingesters :
          savePc[g] = "labelled" =>
              /\ g \in FileIngesters
              /\ class[saveRow[g]] = "relevant"
              /\ saveRow[g] \notin stolen
              /\ \A t \in Triagers : triageRow[t] # saveRow[g]

\* A row without a label was never claimed.
UnlabelledIsNew ==
    \A r \in Records : class[r] \in {"absent", "NULL"} => r \notin stolen

Verdicts == ClaimedIsTriaging /\ LabelledIsRelevant /\ UnlabelledIsNew

\* What an extractor has read, in hand or in its buffer, is still relevant
\* when it gets to it.
ExtractingRelevant ==
    \A r \in Records, e \in Extractors :
        r = extractRow[e] \/ r \in batch[e] => class[r] = "relevant" \/ r \in stolen

\* The step the verdicts allow: a decided row that was not stolen keeps its
\* label.
Sticks ==
    \A r \in Records : class[r] \notin Open /\ r \notin stolen => class'[r] = class[r]

\* An ingester's step keeps the invariant and overwrites no verdict.
LEMMA IntakeKeepsVerdicts ==
    ASSUME FilesAreTrusted, TypeOK, SavingRows, TriageClaims, Verdicts,
           IntakeNext, UNCHANGED triageVars
    PROVE  Verdicts' /\ Sticks
<1> USE RowsAssumption, LabelsAssumption
    DEF Verdicts, ClaimedIsTriaging, LabelledIsRelevant, UnlabelledIsNew,
        Sticks, Open, SavingRows, TriageClaims, TypeOK, StoreTypeOK, IntakeTypeOK,
        TriageTypeOK, triageVars, Labels, Decided, SaveReturns,
        SetClassification
<1>1. ASSUME NEW g \in Ingesters, NEW k \in Items, SaveCheck(g, k)
      PROVE  Verdicts' /\ Sticks
  BY <1>1 DEF SaveCheck, storeVars, rowVars
<1>2. ASSUME NEW g \in Ingesters, NEW r \in Records, SaveInsert(g, r)
      PROVE  Verdicts' /\ Sticks
  <2>1. \A h \in Ingesters : saveRow[h] # r
    BY <1>2 DEF SaveInsert
  <2>2. \A t \in Triagers : triageRow[t] # r
    BY <1>2 DEF SaveInsert
  <2>3. QED
    BY <1>2, <2>1, <2>2 DEF SaveInsert
<1>3. ASSUME NEW g \in Ingesters, SaveClassify(g)
      PROVE  Verdicts' /\ Sticks
  <2>1. saveRow[g] \in Records /\ class[saveRow[g]] = "NULL"
    BY <1>3 DEF SaveClassify
  <2>2. PICK label \in LabelsOnSave(saveItem[g]) :
            class' = [class EXCEPT ![saveRow[g]] = label]
    BY <1>3 DEF SaveClassify
  <2>3. g \in FileIngesters => label = "relevant"
    BY <1>3, <2>2 DEF SaveClassify, LabelsOnSave, FilesAreTrusted
  <2>4. /\ \A t \in Triagers : triageRow[t] # saveRow[g]
        /\ \A h \in Ingesters : saveRow[h] = saveRow[g] => h = g
    BY <2>1
  <2>5. ClaimedIsTriaging' /\ UnlabelledIsNew' /\ Sticks
    BY <2>1, <2>2, <2>4 DEF LabelsOnSave
  <2>6. LabelledIsRelevant'
    <3>1. CASE g \in FileIngesters
      <4>1. /\ savePc' = [savePc EXCEPT ![g] = "labelled"]
            /\ UNCHANGED <<saveItem, saveRow, stolen, triageRow>>
        BY <1>3, <3>1 DEF SaveClassify
      <4>2. class'[saveRow[g]] = "relevant" /\ saveRow[g] \notin stolen
        <5>1. class'[saveRow[g]] = label
          BY <2>1, <2>2
        <5>2. saveRow[g] \notin stolen
          BY <2>1
        <5>3. QED
          BY <2>3, <3>1, <5>1, <5>2
      <4>3. \A h \in Ingesters \ {g} :
                savePc[h] = "labelled" => class'[saveRow[h]] = "relevant"
        BY <2>1, <2>2, <2>4
      <4>4. QED
        BY <1>3, <2>4, <3>1, <4>1, <4>2, <4>3 DEF SaveClassify
    <3>2. CASE g \notin FileIngesters
      BY <1>3, <2>1, <2>2, <2>4, <3>2 DEF SaveClassify
    <3>3. QED
      BY <3>1, <3>2
  <2>7. QED
    BY <2>5, <2>6
<1>4. ASSUME NEW g \in Ingesters, SaveMarkRelevant(g)
      PROVE  Verdicts' /\ Sticks
  <2>1. saveRow[g] \in Records /\ class[saveRow[g]] = "relevant"
    BY <1>4 DEF SaveMarkRelevant
  <2>2. class' = class
    BY <1>4, <2>1 DEF SaveMarkRelevant
  <2>3. QED
    BY <1>4, <2>2 DEF SaveMarkRelevant
<1>5. ASSUME NEW g \in Ingesters, SaveAborts(g)
      PROVE  Verdicts' /\ Sticks
  BY <1>5 DEF SaveAborts, rowVars
<1>6. ASSUME NEW r \in Records, SaveSeed(r) \/ SubmitIntent(r)
      PROVE  Verdicts' /\ Sticks
  <2>1. class[r] = "absent" /\ class' = [class EXCEPT ![r] = "relevant"]
    BY <1>6 DEF SaveSeed, SubmitIntent
  <2>2. UNCHANGED intakeVars
    BY <1>6 DEF SaveSeed, SubmitIntent
  <2>3. QED
    BY <2>1, <2>2 DEF intakeVars
<1>7. QED
  BY <1>1, <1>2, <1>3, <1>4, <1>5, <1>6 DEF IntakeNext

\* A triager's step keeps the invariant and overwrites no verdict.
LEMMA TriageKeepsVerdicts ==
    ASSUME TypeOK, SavingRows, TriageClaims, Verdicts, TriageNext,
           UNCHANGED intakeVars
    PROVE  Verdicts' /\ Sticks
<1> USE RowsAssumption, LabelsAssumption
    DEF Verdicts, ClaimedIsTriaging, LabelledIsRelevant, UnlabelledIsNew,
        Sticks, Open, SavingRows, TriageClaims, JudgedByOne, TypeOK, StoreTypeOK,
        IntakeTypeOK, TriageTypeOK, intakeVars, Labels, Decided, TriageStops,
        SetClassification
<1> PICK t \in Triagers : TriageRun(t) \/ TriageCrash(t)
  BY DEF TriageNext
<1>1. CASE TriageBoot(t)
  <2>1. \A r \in Records : class'[r] = IF class[r] = "triaging"
                                       THEN "pending_triage" ELSE class[r]
    BY <1>1 DEF TriageBoot
  <2>2. \A u \in Triagers : triageRow[u] \in Records
              /\ class[triageRow[u]] = "triaging" => triageRow[u] \in stolen'
    BY <1>1 DEF TriageBoot, RowsWith, HeldByTriage
  <2>3. stolen \subseteq stolen' /\ \A r \in stolen' \ stolen : class[r] = "triaging"
    BY <1>1 DEF TriageBoot, RowsWith
  <2>4. triageRow' = triageRow
    BY <1>1 DEF TriageBoot
  <2>5. ClaimedIsTriaging'
    BY <2>1, <2>2, <2>3, <2>4
  <2>6. UnlabelledIsNew'
    BY <2>1, <2>3
  <2>7. Sticks
    BY <2>1
  <2>8. ASSUME NEW g \in Ingesters, savePc[g] = "labelled"
        PROVE  class'[saveRow[g]] = "relevant" /\ saveRow[g] \notin stolen'
    <3>1. saveRow[g] \in Records /\ class[saveRow[g]] = "relevant"
      BY <2>8
    <3>2. QED
      BY <2>1, <2>3, <2>8, <3>1
  <2>9. LabelledIsRelevant'
    BY <2>4, <2>8
  <2>10. QED
    BY <2>5, <2>6, <2>7, <2>9
<1>2. CASE TriageClaim(t)
  <2> PICK r \in Records : /\ class[r] = "pending_triage"
                           /\ class' = [class EXCEPT ![r] = "triaging"]
                           /\ triageRow' = [triageRow EXCEPT ![t] = r]
    BY <1>2 DEF TriageClaim, Oldest, RowsWith
  <2>1. QED
    BY <1>2 DEF TriageClaim
<1>3. CASE TriageDecide(t)
  <2>1. PICK label \in AgentLabels \union {"uncertain"} :
            class' = [class EXCEPT ![triageRow[t]] = label]
    BY <1>3 DEF TriageDecide
  <2>2. QED
    BY <1>3, <2>1 DEF TriageDecide
<1>4. CASE TriageFail(t)
  BY <1>4 DEF TriageFail, rowVars
<1>5. CASE TriageRelease(t)
  BY <1>5 DEF TriageRelease
<1>6. CASE TriageReleaseLost(t) \/ TriageCrash(t)
  <2>1. /\ UNCHANGED <<class, stolen>>
        /\ triageRow' = [triageRow EXCEPT ![t] = NoRecord]
    BY <1>6 DEF TriageReleaseLost, TriageCrash, rowVars
  <2>2. QED
    BY <2>1
<1>7. QED
  BY <1>1, <1>2, <1>3, <1>4, <1>5, <1>6 DEF TriageRun

\* Every step keeps the invariant and overwrites no verdict.
LEMMA StepVerdicts ==
    ASSUME FilesAreTrusted, TypeOK, SavingRows, TriageClaims, Verdicts,
           [Next]_vars
    PROVE  Verdicts' /\ Sticks
<1>1. CASE UNCHANGED <<class, intakeVars, triageVars>>
  BY <1>1
  DEF intakeVars, triageVars, Verdicts, ClaimedIsTriaging, LabelledIsRelevant,
      UnlabelledIsNew, Sticks
<1>2. CASE IntakeNext /\ UNCHANGED triageVars
  BY <1>2, IntakeKeepsVerdicts
<1>3. CASE TriageNext /\ UNCHANGED intakeVars
  BY <1>3, TriageKeepsVerdicts
<1>4. QED
  BY <1>1, <1>2, <1>3, OthersLeaveLabels DEF Next, vars, storeVars, rowVars

\* The verdict invariant holds throughout.
LEMMA VerdictsHold ==
    ASSUME FilesAreTrusted
    PROVE  Spec => []Verdicts
<1>1. Init => Verdicts
  BY RowsAssumption
  DEF Init, StoreInit, IntakeInit, TriageInit, Verdicts, ClaimedIsTriaging,
      LabelledIsRelevant, UnlabelledIsNew
<1>2. TypeOK /\ SavingRows /\ TriageClaims /\ Verdicts /\ [Next]_vars => Verdicts'
  BY StepVerdicts
<1>3. QED
  BY <1>1, <1>2, TypeCorrect, TriageClaimsHold, PTL DEF Spec

\* A verdict, once written, stays, however many triagers race, crash and boot,
\* except on the rows a boot took from a live triager.
THEOREM VerdictsAreFinal ==
    ASSUME FilesAreTrusted
    PROVE  Spec => DecisionsStick
<1>1. TypeOK /\ SavingRows /\ TriageClaims /\ Verdicts /\ [Next]_vars => [Sticks]_vars
  BY StepVerdicts
<1>2. QED
  BY <1>1, VerdictsHold, TypeCorrect, TriageClaimsHold, PTL
  DEF Spec, DecisionsStick, Sticks

-----------------------------------------------------------------------------
(* What is indexed is relevant *)

\* The rows extraction may work on.
Extractable == {r \in Records : class[r] = "relevant" \/ r \in stolen}

\* Stolen rows stay stolen, and only an intent is indexed outside extraction.
LEMMA OthersIndexNothing ==
    ASSUME TypeOK, IntakeNext \/ TriageNext \/ CurationNext \/ ReindexNext
    PROVE  \A r \in Records : indexed'[r] => indexed[r] \/ class'[r] = "relevant"
<1> USE DEF TypeOK, StoreTypeOK, rowVars
<1>1. CASE IntakeNext
  BY <1>1 DEF IntakeNext, SaveCheck, SaveInsert, SaveClassify, SaveMarkRelevant,
     SaveAborts, SaveSeed, SubmitIntent, storeVars
<1>2. CASE TriageNext
  BY <1>2 DEF TriageNext, TriageRun, TriageBoot, TriageClaim, TriageDecide,
     TriageFail, TriageRelease, TriageReleaseLost, TriageCrash
<1>3. CASE CurationNext
  BY <1>3 DEF CurationNext, CurateRun, ClaimAges, CurateBoot, CurateSweep,
     CurateClaim, CurateNoWork, CurateScan, CurateDelete, CurateFail,
     CurateRelease, CurateReleaseLost, CurateCrash, storeVars
<1>4. CASE ReindexNext
  BY <1>4 DEF ReindexNext, WipeGraph, ResetIndexed, ClearQueue
<1>5. QED
  BY <1>1, <1>2, <1>3, <1>4

\* An extractor's step keeps to extractable rows.
LEMMA ExtractionKeepsRelevant ==
    ASSUME TypeOK, RowInHand, ExtractingRelevant, OnlyRelevantIndexed,
           ExtractionNext, UNCHANGED <<class, stolen>>
    PROVE  ExtractingRelevant' /\ OnlyRelevantIndexed'
<1> USE RowsAssumption, LabelsAssumption
    DEF TypeOK, StoreTypeOK, ExtractionTypeOK, RowInHand, ExtractingRelevant,
        OnlyRelevantIndexed, ExtractorGoes, ExtractorDone, MarkIndexed, rowVars
<1> PICK e \in Extractors : ExtractRun(e) \/ ExtractCrash(e)
  BY DEF ExtractionNext
<1>1. CASE ExtractPoll(e) \/ ExtractNext(e)
  <2>1. PICK r \in Extractable :
           /\ extractRow' = [extractRow EXCEPT ![e] = r]
           /\ \E S \in SUBSET Extractable : batch' = [batch EXCEPT ![e] = S \ {r}]
    <3>1. CASE ExtractPoll(e)
      <4>1. Unindexed \in SUBSET Extractable
        BY DEF Unindexed, Extractable
      <4>2. QED
        BY <3>1, <4>1 DEF ExtractPoll, TakeOldestOf
    <3>2. CASE ExtractNext(e)
      <4>1. batch[e] \in SUBSET Extractable
        BY DEF Extractable
      <4>2. QED
        BY <3>2, <4>1 DEF ExtractNext, TakeOldestOf
    <3>3. QED
      BY <1>1, <3>1, <3>2
  <2>2. UNCHANGED indexed
    BY <1>1 DEF ExtractPoll, ExtractNext, storeVars
  <2>3. QED
    BY <2>1, <2>2 DEF Extractable
<1>2. CASE ExtractNothing(e) \/ ExtractMark(e)
  <2>1. extractRow[e] \in Records
    BY <1>2 DEF ExtractNothing, ExtractMark
  <2>2. indexed' = [indexed EXCEPT ![extractRow[e]] = TRUE]
    BY <1>2 DEF ExtractNothing, ExtractMark
  <2>3. OnlyRelevantIndexed'
    BY <2>1, <2>2
  <2>4. ExtractingRelevant'
    BY <1>2 DEF ExtractNothing, ExtractMark
  <2>5. QED
    BY <2>3, <2>4
<1>3. CASE \/ ExtractBoot(e) \/ ExtractSaved(e)
           \/ ExtractCommitSome(e) \/ ExtractCommit(e)
  BY <1>3 DEF ExtractBoot, ExtractSaved, ExtractCommitSome, ExtractCommit,
     storeVars, extractionVars
<1>4. CASE \/ ExtractFail(e) \/ ExtractEnqueue(e) \/ ExtractEnqueueLost(e)
           \/ ExtractCrash(e)
  BY <1>4 DEF ExtractFail, ExtractEnqueue, ExtractEnqueueLost, ExtractCrash
<1>5. QED
  BY <1>1, <1>2, <1>3, <1>4 DEF ExtractRun

\* A working extractor has a row in hand throughout.
LEMMA RowsInHand == Spec => []RowInHand
<1>1. TypeOK /\ RowInHand /\ [Next]_vars => RowInHand'
  BY StepInHand
<1>2. QED
  BY <1>1, InitTypes, TypeCorrect, PTL DEF Spec

\* What extractors have read stays relevant, and what is indexed is.
LEMMA ExtractionRelevant ==
    ASSUME FilesAreTrusted
    PROVE  Spec => [](ExtractingRelevant /\ OnlyRelevantIndexed)
<1>1. Init => ExtractingRelevant /\ OnlyRelevantIndexed
  BY RowsAssumption
  DEF Init, StoreInit, ExtractionInit, ExtractingRelevant, OnlyRelevantIndexed
<1>2. ASSUME TypeOK, RowInHand, SavingRows, TriageClaims, Verdicts,
             ExtractingRelevant, OnlyRelevantIndexed, [Next]_vars
      PROVE  ExtractingRelevant' /\ OnlyRelevantIndexed'
  <2>1. Sticks
    BY <1>2, StepVerdicts
  <2>2. CASE ExtractionNext /\ UNCHANGED triageVars
    BY <1>2, <2>2, ExtractionKeepsRelevant, OthersLeaveLabels DEF triageVars
  <2>3. CASE /\ IntakeNext \/ TriageNext \/ CurationNext \/ ReindexNext
             /\ UNCHANGED extractionVars
             /\ stolen \subseteq stolen'
    <3>1. Extractable \subseteq Extractable'
      BY <2>1, <2>3 DEF Sticks, Open, Extractable
    <3>2. QED
      BY <1>2, <2>3, <3>1, OthersIndexNothing
      DEF Extractable, ExtractingRelevant, OnlyRelevantIndexed, extractionVars
  <2>4. CASE UNCHANGED vars
    BY <1>2, <2>4
    DEF vars, storeVars, rowVars, triageVars, extractionVars,
        ExtractingRelevant, OnlyRelevantIndexed
  <2>5. TriageNext => stolen \subseteq stolen'
    BY DEF TriageNext, TriageRun, TriageBoot, TriageClaim, TriageDecide,
       TriageFail, TriageRelease, TriageReleaseLost, TriageCrash
  <2>6. QED
    BY <1>2, <2>2, <2>3, <2>4, <2>5 DEF Next, triageVars
<1>3. QED
  BY <1>1, <1>2, RowsInHand, VerdictsHold, TypeCorrect, TriageClaimsHold, PTL
  DEF Spec

\* Only rows with the verdict `relevant` are ever indexed, except those a boot
\* took from a live triager: extraction's stale read of the verdict does no
\* harm.
THEOREM IndexedIsRelevant ==
    ASSUME FilesAreTrusted
    PROVE  Spec => []OnlyRelevantIndexed
BY ExtractionRelevant, PTL

-----------------------------------------------------------------------------
(* What is queued is in the graph *)

\* QueuedIsCommitted is inductive only together with what an extractor has
\* done before it enqueues a row: its facts are written and it is indexed.
Committed ==
    /\ reindexPc = "idle"
    /\ \A e \in Extractors :
          extractPc[e] \in {"mark", "enqueue"} => facts[extractRow[e]] = "full"
    /\ \A e \in Extractors :
          extractPc[e] = "enqueue" => indexed[extractRow[e]]
    /\ QueuedIsCommitted

\* Nothing but an extractor's enqueueing puts an entry into the queue.
LEMMA OthersQueueNothing ==
    ASSUME TypeOK, IntakeNext \/ TriageNext \/ CurationNext \/ ClearQueue
    PROVE  \A r \in Records : claim'[r] # "none" => claim[r] # "none"
<1> USE DEF TypeOK, StoreTypeOK, storeVars, queueVars
<1>1. CASE IntakeNext
  BY <1>1 DEF IntakeNext, SaveCheck, SaveInsert, SaveClassify, SaveMarkRelevant,
     SaveAborts, SaveSeed, SubmitIntent
<1>2. CASE TriageNext
  BY <1>2 DEF TriageNext, TriageRun, TriageBoot, TriageClaim, TriageDecide,
     TriageFail, TriageRelease, TriageReleaseLost, TriageCrash
<1>3. CASE CurationNext
  BY <1>3 DEF CurationNext, CurateRun, ClaimAges, CurateBoot, CurateSweep,
     CurateClaim, CurateNoWork, CurateScan, CurateDelete, CurateFail,
     CurateRelease, CurateReleaseLost, CurateCrash, NextInLine, FreeEntries,
     SetClaim, RemoveEntry
<1>4. CASE ClearQueue
  BY <1>4 DEF ClearQueue
<1>5. QED
  BY <1>1, <1>2, <1>3, <1>4

\* Nothing but the operator's reindexing takes facts out of the graph or an
\* `indexed` away.
LEMMA OthersKeepCommits ==
    ASSUME TypeOK, IntakeNext \/ TriageNext \/ CurationNext \/ ClearQueue
    PROVE  /\ UNCHANGED facts
           /\ \A r \in Records : indexed[r] => indexed'[r]
<1> USE DEF TypeOK, StoreTypeOK, storeVars, rowVars, graphVars
<1>1. CASE IntakeNext
  BY <1>1 DEF IntakeNext, SaveCheck, SaveInsert, SaveClassify, SaveMarkRelevant,
     SaveAborts, SaveSeed, SubmitIntent
<1>2. CASE TriageNext
  BY <1>2 DEF TriageNext, TriageRun, TriageBoot, TriageClaim, TriageDecide,
     TriageFail, TriageRelease, TriageReleaseLost, TriageCrash
<1>3. CASE CurationNext
  BY <1>3 DEF CurationNext, CurateRun, ClaimAges, CurateBoot, CurateSweep,
     CurateClaim, CurateNoWork, CurateScan, CurateDelete, CurateFail,
     CurateRelease, CurateReleaseLost, CurateCrash
<1>4. CASE ClearQueue
  BY <1>4 DEF ClearQueue
<1>5. QED
  BY <1>1, <1>2, <1>3, <1>4

\* An extractor's step keeps the invariant.
LEMMA ExtractionKeepsCommitted ==
    ASSUME TypeOK, RowInHand, Committed, ExtractionNext, UNCHANGED reindexPc
    PROVE  Committed'
<1> USE RowsAssumption, LabelsAssumption
    DEF TypeOK, StoreTypeOK, ExtractionTypeOK, RowInHand, Committed,
        QueuedIsCommitted, ExtractorGoes, ExtractorDone, MarkIndexed,
        storeVars, rowVars, queueVars, graphVars
<1> PICK e \in Extractors : ExtractRun(e) \/ ExtractCrash(e)
  BY DEF ExtractionNext
<1>1. CASE ExtractPoll(e) \/ ExtractNext(e)
  <2>1. PICK r : extractRow' = [extractRow EXCEPT ![e] = r]
    BY <1>1 DEF ExtractPoll, ExtractNext, TakeOldestOf
  <2>2. QED
    BY <1>1, <2>1 DEF ExtractPoll, ExtractNext
<1>2. CASE ExtractBoot(e) \/ ExtractSaved(e)
  BY <1>2 DEF ExtractBoot, ExtractSaved
<1>3. CASE ExtractNothing(e)
  BY <1>3 DEF ExtractNothing
<1>4. CASE ExtractCommitSome(e)
  BY <1>4 DEF ExtractCommitSome, extractionVars
<1>5. CASE ExtractCommit(e)
  BY <1>5 DEF ExtractCommit
<1>6. CASE ExtractMark(e)
  BY <1>6 DEF ExtractMark
<1>7. CASE ExtractEnqueue(e)
  <2>1. /\ facts[extractRow[e]] = "full" /\ indexed[extractRow[e]]
        /\ \A r \in Records : claim'[r] = claim[r] \/ r = extractRow[e]
    BY <1>7 DEF ExtractEnqueue, EnqueueForCuration
  <2>2. QED
    BY <1>7, <2>1 DEF ExtractEnqueue
<1>8. CASE ExtractFail(e) \/ ExtractEnqueueLost(e) \/ ExtractCrash(e)
  BY <1>8 DEF ExtractFail, ExtractEnqueueLost, ExtractCrash
<1>9. QED
  BY <1>1, <1>2, <1>3, <1>4, <1>5, <1>6, <1>7, <1>8 DEF ExtractRun

\* Every step but the wiping of the graph keeps the invariant.
LEMMA StepCommitted ==
    ASSUME TypeOK, RowInHand, Committed, [Next]_vars, [~ WipeGraph]_vars
    PROVE  Committed'
<1> USE DEF Committed, QueuedIsCommitted
<1>1. CASE UNCHANGED vars
  BY <1>1
  DEF vars, storeVars, rowVars, queueVars, graphVars, extractionVars, reindexVars
<1>2. CASE ExtractionNext /\ UNCHANGED reindexVars
  BY <1>2, ExtractionKeepsCommitted DEF reindexVars
<1>3. CASE /\ IntakeNext \/ TriageNext \/ CurationNext \/ ClearQueue
           /\ UNCHANGED <<reindexPc, extractionVars>>
  <2>1. UNCHANGED <<reindexPc, extractPc, extractRow>>
    BY <1>3 DEF extractionVars
  <2>2. QED
    BY <1>3, <2>1, OthersQueueNothing, OthersKeepCommits
    DEF TypeOK, ExtractionTypeOK, RowInHand
<1>4. ReindexNext /\ ~ WipeGraph => ClearQueue /\ UNCHANGED reindexPc
  BY DEF ReindexNext, ResetIndexed, ClearQueue
<1>5. QED
  BY <1>1, <1>2, <1>3, <1>4 DEF Next, reindexVars

\* Unless the graph is wiped, what waits for curation or is being curated is
\* indexed and entirely in the graph, with any number of extractors on the
\* same row, wherever they fail, and with entries cleared from the queue.
THEOREM QueuedAreCommitted == Spec /\ [][~ WipeGraph]_vars => []QueuedIsCommitted
<1>1. Init => Committed
  BY DEF Init, StoreInit, ExtractionInit, ReindexInit, Committed,
     QueuedIsCommitted
<1>2. TypeOK /\ RowInHand /\ Committed /\ [Next]_vars /\ [~ WipeGraph]_vars
      => Committed'
  BY StepCommitted
<1>3. Committed => QueuedIsCommitted
  BY DEF Committed
<1>4. QED
  BY <1>1, <1>2, <1>3, TypeCorrect, RowsInHand, PTL DEF Spec

-----------------------------------------------------------------------------
(* What leaves the queue is curated *)

\* One extraction process, as in the compose file.
OneExtractor == \A e, f \in Extractors : e = f

\* A row is in curation from its enqueueing until the last curator that
\* claimed it is done, whoever deletes the entry meanwhile.
InCuration(r) == claim[r] # "none" \/ \E c \in Curators : curateRow[c] = r

\* A row is extracted once: what one extractor has read and not finished is
\* not indexed, and is not in curation either, since only its own enqueueing
\* puts it there.
DoneOnce ==
    /\ \A e \in Extractors :
          extractPc[e] \in {"down", "idle"} => extractRow[e] \notin Records
    /\ \A e \in Extractors :
          extractPc[e] \in {"agent", "commit", "mark"} => ~ indexed[extractRow[e]]
    /\ \A e \in Extractors : \A r \in batch[e] : ~ indexed[r] /\ extractRow[e] # r
    /\ \A r \in uncurated : class[r] # "absent"
    /\ \A r \in Records : \A e \in Extractors :
          r = extractRow[e] \/ r \in batch[e] => class[r] # "absent"
    /\ \A r \in Records : InCuration(r) =>
          indexed[r] /\ \A e \in Extractors : extractRow[e] # r

\* A record in a curator's hands whose entry is gone, or that was scanned, has
\* no facts left that no scan has read; a row about to be enqueued has some.
Scanned ==
    /\ \A r \in Records : \A c \in Curators :
          curateRow[c] = r =>
              \/ curatePc[c] \in {"scanning", "failing"} /\ claim[r] # "none"
              \/ r \notin uncurated
    /\ \A e \in Extractors :
          extractPc[e] \in {"mark", "enqueue"} => extractRow[e] \in uncurated

\* Rows do not vanish, and an ingester or a triager indexes a row only when
\* it inserts it.
LEMMA IntakeTriageLeaveRows ==
    ASSUME TypeOK, IntakeNext \/ TriageNext
    PROVE  /\ \A r \in Records : class'[r] = "absent" => class[r] = "absent"
           /\ \A r \in Records : indexed'[r] => indexed[r] \/ class[r] = "absent"
           /\ \A r \in Records : indexed[r] => indexed'[r]
           /\ UNCHANGED <<claim, facts, uncurated>>
<1> USE DEF TypeOK, StoreTypeOK, storeVars, rowVars, queueVars, graphVars,
            SetClassification, Decided
<1>1. ASSUME NEW g \in Ingesters, SaveClassify(g)
      PROVE  \A r \in Records : class'[r] = "absent" => class[r] = "absent"
  <2>1. PICK label \in LabelsOnSave(saveItem[g]) :
            class' = [class EXCEPT ![saveRow[g]] = label]
    BY <1>1 DEF SaveClassify
  <2>2. QED
    BY <2>1 DEF LabelsOnSave
<1>2. ASSUME NEW t \in Triagers, TriageDecide(t)
      PROVE  \A r \in Records : class'[r] = "absent" => class[r] = "absent"
  <2>1. PICK label \in AgentLabels \union {"uncertain"} :
            class' = [class EXCEPT ![triageRow[t]] = label]
    BY <1>2 DEF TriageDecide
  <2>2. QED
    BY <2>1, LabelsAssumption
<1>3. IntakeNext => \A r \in Records : class'[r] = "absent" => class[r] = "absent"
  BY <1>1 DEF IntakeNext, SaveCheck, SaveInsert, SaveMarkRelevant, SaveAborts,
     SaveSeed, SubmitIntent
<1>4. TriageNext => \A r \in Records : class'[r] = "absent" => class[r] = "absent"
  BY <1>2 DEF TriageNext, TriageRun, TriageBoot, TriageClaim, TriageFail,
     TriageRelease, TriageReleaseLost, TriageCrash
<1>5. CASE IntakeNext
  BY <1>3, <1>5 DEF IntakeNext, SaveCheck, SaveInsert, SaveClassify,
     SaveMarkRelevant, SaveAborts, SaveSeed, SubmitIntent
<1>6. CASE TriageNext
  BY <1>4, <1>6 DEF TriageNext, TriageRun, TriageBoot, TriageClaim,
     TriageDecide, TriageFail, TriageRelease, TriageReleaseLost, TriageCrash
<1>7. QED
  BY <1>5, <1>6

\* A curator's step, or the clock's, leaves the rows and their facts alone,
\* takes no record into curation that was not in its queue, and only ever
\* ticks off facts.
LEMMA CurationLeavesRows ==
    ASSUME TypeOK, CurationNext
    PROVE  /\ UNCHANGED <<class, indexed, facts>>
           /\ uncurated' \subseteq uncurated
           /\ \A r \in Records : InCuration(r)' => InCuration(r)
<1> USE DEF TypeOK, StoreTypeOK, CurationTypeOK, storeVars, rowVars, queueVars,
            graphVars, InCuration, CuratorGoes, CuratorStops, SetClaim,
            RemoveEntry
<1>1. ASSUME NEW r \in Records, ClaimAges(r)
      PROVE  /\ UNCHANGED <<class, indexed, facts, uncurated>>
             /\ \A s \in Records : InCuration(s)' => InCuration(s)
  BY <1>1 DEF ClaimAges
<1>2. ASSUME NEW c \in Curators, CurateClaim(c)
      PROVE  /\ UNCHANGED <<class, indexed, facts, uncurated>>
             /\ \A s \in Records : InCuration(s)' => InCuration(s)
  BY <1>2 DEF CurateClaim, NextInLine, FreeEntries
<1>3. ASSUME NEW c \in Curators, CurateBoot(c) \/ CurateSweep(c) \/ CurateNoWork(c)
      PROVE  /\ UNCHANGED <<class, indexed, facts, uncurated>>
             /\ \A s \in Records : InCuration(s)' => InCuration(s)
  BY <1>3 DEF CurateBoot, CurateSweep, CurateNoWork
<1>4. ASSUME NEW c \in Curators, CurateScan(c)
      PROVE  /\ UNCHANGED <<class, indexed, facts>>
             /\ uncurated' \subseteq uncurated
             /\ \A s \in Records : InCuration(s)' => InCuration(s)
  BY <1>4 DEF CurateScan
<1>5. ASSUME NEW c \in Curators,
             \/ CurateDelete(c) \/ CurateFail(c) \/ CurateRelease(c)
             \/ CurateReleaseLost(c) \/ CurateCrash(c)
      PROVE  /\ UNCHANGED <<class, indexed, facts, uncurated>>
             /\ \A s \in Records : InCuration(s)' => InCuration(s)
  <2>1. UNCHANGED <<class, indexed, facts, uncurated>>
    BY <1>5 DEF CurateDelete, CurateFail, CurateRelease, CurateReleaseLost,
       CurateCrash
  <2>2. /\ \A s \in Records : claim'[s] # "none" => claim[s] # "none"
        /\ \/ curateRow' = curateRow
           \/ curateRow' = [curateRow EXCEPT ![c] = NoRecord]
    BY <1>5 DEF CurateDelete, CurateFail, CurateRelease, CurateReleaseLost,
       CurateCrash
  <2>3. \A s \in Records, d \in Curators : curateRow'[d] = s => curateRow[d] = s
    BY <2>2, RowsAssumption
  <2>4. QED
    BY <2>1, <2>2, <2>3
<1>6. QED
  BY <1>1, <1>2, <1>3, <1>4, <1>5 DEF CurationNext, CurateRun

\* An extractor's step extracts no row again.
LEMMA ExtractionKeepsDoneOnce ==
    ASSUME OneExtractor, TypeOK, RowInHand, Committed, DoneOnce,
           ExtractionNext, UNCHANGED curationVars
    PROVE  DoneOnce'
<1> USE RowsAssumption, LabelsAssumption
    DEF TypeOK, StoreTypeOK, ExtractionTypeOK, RowInHand, DoneOnce,
        ExtractorGoes, ExtractorDone, MarkIndexed, storeVars, rowVars,
        queueVars, graphVars
<1> PICK e \in Extractors : ExtractRun(e) \/ ExtractCrash(e)
  BY DEF ExtractionNext
<1>a. UNCHANGED class
  BY OthersLeaveLabels
<1>b. \A f \in Extractors : f = e
  BY DEF OneExtractor
<1>c. UNCHANGED curateRow
  BY DEF curationVars
<1>d. \A r \in Records : claim' = claim => InCuration(r)' = InCuration(r)
  BY <1>c DEF InCuration
<1>1. CASE ExtractPoll(e) \/ ExtractNext(e)
  <2>1. UNCHANGED <<class, indexed, claim, uncurated>>
    BY <1>1 DEF ExtractPoll, ExtractNext
  <2>2. PICK S \in SUBSET Records :
           /\ TakeOldestOf(e, S)
           /\ \A r \in S : ~ indexed[r] /\ class[r] # "absent"
    BY <1>1 DEF ExtractPoll, ExtractNext, Unindexed
  <2>3. PICK r \in S : /\ extractRow' = [extractRow EXCEPT ![e] = r]
                       /\ batch' = [batch EXCEPT ![e] = S \ {r}]
    BY <2>2 DEF TakeOldestOf
  <2>4. extractPc' = [extractPc EXCEPT ![e] = "agent"]
    BY <1>1 DEF ExtractPoll, ExtractNext
  <2>5. extractRow'[e] = r /\ batch'[e] = S \ {r} /\ extractPc'[e] = "agent"
    BY <2>3, <2>4
  <2>6. \A s \in Records : InCuration(s)' => indexed'[s] /\ extractRow'[e] # s
    BY <1>d, <2>1, <2>2, <2>5
  <2>7. /\ r \in Records /\ ~ indexed'[r] /\ class'[r] # "absent"
        /\ \A s \in S \ {r} : ~ indexed'[s] /\ class'[s] # "absent" /\ s # r
        /\ \A s \in uncurated' : class'[s] # "absent"
    BY <2>1, <2>2
  <2> HIDE DEF DoneOnce
  <2>8. QED
    BY <1>b, <2>5, <2>6, <2>7, ZenonT(60) DEF DoneOnce
<1>2. CASE ExtractBoot(e) \/ ExtractSaved(e)
  <2>1. /\ UNCHANGED <<extractRow, batch, indexed, uncurated, claim>>
        /\ \/ extractPc[e] = "down" /\ extractPc' = [extractPc EXCEPT ![e] = "idle"]
           \/ extractPc[e] = "agent" /\ extractPc' = [extractPc EXCEPT ![e] = "commit"]
    BY <1>2 DEF ExtractBoot, ExtractSaved
  <2>2. \/ extractPc'[e] = "idle" /\ extractRow'[e] \notin Records
        \/ extractPc'[e] = "commit" /\ ~ indexed'[extractRow'[e]]
    BY <2>1
  <2>3. \A r \in Records :
            InCuration(r)' => indexed'[r] /\ extractRow'[e] # r
    BY <2>1, <1>d
  <2>4. QED
    BY <2>1, <2>2, <2>3, <1>a, <1>b
<1>3. CASE ExtractNothing(e)
  BY <1>3, <1>b, <1>d DEF ExtractNothing
<1>4. CASE ExtractCommitSome(e)
  BY <1>4, <1>d DEF ExtractCommitSome, extractionVars
<1>5. CASE ExtractCommit(e)
  BY <1>5, <1>d DEF ExtractCommit
<1>6. CASE ExtractMark(e)
  BY <1>6, <1>b, <1>d DEF ExtractMark
<1>7. CASE ExtractEnqueue(e)
  <2>1. /\ indexed[extractRow[e]]
        /\ \A r \in Records : claim'[r] = claim[r] \/ r = extractRow[e]
    BY <1>7 DEF ExtractEnqueue, EnqueueForCuration, Committed
  <2>2. \A r \in Records : InCuration(r)' => InCuration(r) \/ r = extractRow[e]
    BY <1>c, <2>1 DEF InCuration
  <2>3. QED
    BY <1>7, <1>b, <2>1, <2>2 DEF ExtractEnqueue
<1>8. CASE ExtractFail(e) \/ ExtractEnqueueLost(e) \/ ExtractCrash(e)
  <2>1. /\ UNCHANGED <<indexed, uncurated, claim>>
        /\ extractPc'[e] \in {"idle", "down"}
        /\ extractRow'[e] = NoRecord
        /\ batch'[e] \subseteq batch[e]
    BY <1>8 DEF ExtractFail, ExtractEnqueueLost, ExtractCrash
  <2>2. \A r \in Records : InCuration(r)' => indexed'[r]
    BY <2>1, <1>d
  <2>3. \A r \in batch'[e] : ~ indexed'[r] /\ class'[r] # "absent"
    BY <2>1, <1>a
  <2>4. \A r \in uncurated' : class'[r] # "absent"
    BY <2>1, <1>a
  <2> HIDE DEF DoneOnce
  <2>5. QED
    BY <2>1, <2>2, <2>3, <2>4, <1>b DEF DoneOnce
<1>9. QED
  BY <1>1, <1>2, <1>3, <1>4, <1>5, <1>6, <1>7, <1>8 DEF ExtractRun

\* Every step but the operator's leaves a row extracted once.
LEMMA StepDoneOnce ==
    ASSUME OneExtractor, TypeOK, RowInHand, Committed, DoneOnce,
           [Next]_vars, [~ ReindexNext]_vars
    PROVE  DoneOnce'
<1>1. CASE UNCHANGED vars
  BY <1>1
  DEF vars, storeVars, rowVars, queueVars, graphVars, extractionVars,
      curationVars, DoneOnce, InCuration
<1>2. CASE ExtractionNext /\ UNCHANGED curationVars
  BY <1>2, ExtractionKeepsDoneOnce
<1>3. CASE CurationNext /\ UNCHANGED extractionVars
  <2>1. /\ UNCHANGED <<class, indexed, extractPc, extractRow, batch>>
        /\ uncurated' \subseteq uncurated
    BY <1>3, CurationLeavesRows DEF extractionVars
  <2>2. \A r \in Records : InCuration(r)' => InCuration(r)
    BY <1>3, CurationLeavesRows
  <2>3. QED
    BY <2>1, <2>2 DEF DoneOnce
<1>4. CASE /\ IntakeNext \/ TriageNext
           /\ UNCHANGED <<extractionVars, curationVars>>
  <2>1. /\ \A r \in Records : class'[r] = "absent" => class[r] = "absent"
        /\ \A r \in Records : indexed'[r] => indexed[r] \/ class[r] = "absent"
        /\ \A r \in Records : indexed[r] => indexed'[r]
        /\ UNCHANGED <<uncurated, extractPc, extractRow, batch>>
    BY <1>4, IntakeTriageLeaveRows DEF extractionVars
  <2>2. \A r \in Records : InCuration(r)' => InCuration(r)
    BY <1>4, IntakeTriageLeaveRows DEF InCuration, curationVars
  <2>3. /\ uncurated \subseteq Records
        /\ \A e \in Extractors : batch[e] \subseteq Records
        /\ \A e \in Extractors :
              extractPc[e] \in {"agent", "commit", "mark"} => extractRow[e] \in Records
    BY DEF TypeOK, StoreTypeOK, ExtractionTypeOK, RowInHand
  <2>4. QED
    BY <2>1, <2>2, <2>3 DEF DoneOnce
<1>5. QED
  BY <1>1, <1>2, <1>3, <1>4 DEF Next

\* An extractor's step: new facts are of a row no curator has.
LEMMA ExtractionKeepsScanned ==
    ASSUME TypeOK, RowInHand, DoneOnce, Scanned,
           ExtractionNext, UNCHANGED curationVars
    PROVE  Scanned'
<1> USE RowsAssumption, LabelsAssumption
    DEF TypeOK, StoreTypeOK, ExtractionTypeOK, RowInHand, Scanned,
        ExtractorGoes, ExtractorDone, storeVars, rowVars, queueVars,
        graphVars, curationVars
<1> PICK e \in Extractors : ExtractRun(e) \/ ExtractCrash(e)
  BY DEF ExtractionNext
<1>1. CASE ExtractPoll(e) \/ ExtractNext(e)
  <2>1. PICK r : extractRow' = [extractRow EXCEPT ![e] = r]
    BY <1>1 DEF ExtractPoll, ExtractNext, TakeOldestOf
  <2>2. QED
    BY <1>1, <2>1 DEF ExtractPoll, ExtractNext
<1>2. CASE ExtractBoot(e) \/ ExtractSaved(e) \/ ExtractNothing(e) \/ ExtractMark(e)
  BY <1>2 DEF ExtractBoot, ExtractSaved, ExtractNothing, ExtractMark
<1>3. CASE ExtractCommitSome(e) \/ ExtractCommit(e)
  <2>1. /\ extractRow[e] \in Records
        /\ uncurated' = uncurated \union {extractRow[e]}
        /\ UNCHANGED <<claim, extractRow, curateRow, curatePc>>
        /\ \/ extractPc' = extractPc
           \/ extractPc' = [extractPc EXCEPT ![e] = "mark"]
    BY <1>3 DEF ExtractCommitSome, ExtractCommit, extractionVars
  <2>2. \A c \in Curators : curateRow[c] # extractRow[e]
    BY <2>1 DEF DoneOnce, InCuration
  <2>3. QED
    BY <2>1, <2>2
<1>4. CASE ExtractEnqueue(e)
  <2>1. \A r \in Records : claim[r] # "none" => claim'[r] # "none"
    BY <1>4 DEF ExtractEnqueue, EnqueueForCuration
  <2>2. QED
    BY <1>4, <2>1 DEF ExtractEnqueue
<1>5. CASE ExtractFail(e) \/ ExtractEnqueueLost(e) \/ ExtractCrash(e)
  BY <1>5 DEF ExtractFail, ExtractEnqueueLost, ExtractCrash
<1>6. QED
  BY <1>1, <1>2, <1>3, <1>4, <1>5 DEF ExtractRun

\* A curator's step: it deletes what it has scanned, and ticks off what is
\* in its own hands.
LEMMA CurationKeepsScanned ==
    ASSUME TypeOK, RowInHand, DoneOnce, Scanned,
           CurationNext, UNCHANGED extractionVars
    PROVE  Scanned'
<1> USE RowsAssumption, LabelsAssumption
    DEF TypeOK, StoreTypeOK, CurationTypeOK, Scanned, CuratorGoes,
        CuratorStops, SetClaim, RemoveEntry, storeVars, rowVars, queueVars,
        graphVars, extractionVars
<1>1. ASSUME NEW r \in Records, ClaimAges(r)
      PROVE  Scanned'
  BY <1>1 DEF ClaimAges
<1>2. ASSUME NEW c \in Curators, CurateBoot(c) \/ CurateSweep(c) \/ CurateNoWork(c)
      PROVE  Scanned'
  BY <1>2 DEF CurateBoot, CurateSweep, CurateNoWork
<1>3. ASSUME NEW c \in Curators, CurateClaim(c)
      PROVE  Scanned'
  <2> PICK r \in Records : /\ claim' = [claim EXCEPT ![r] = "held"]
                           /\ curateRow' = [curateRow EXCEPT ![c] = r]
    BY <1>3 DEF CurateClaim
  <2>1. QED
    BY <1>3 DEF CurateClaim
<1>4. ASSUME NEW c \in Curators, CurateScan(c)
      PROVE  Scanned'
  <2>1. /\ uncurated' = uncurated \ {curateRow[c]}
        /\ curatePc' = [curatePc EXCEPT ![c] = "scanned"]
        /\ UNCHANGED <<curateRow, claim, extractPc, extractRow>>
    BY <1>4 DEF CurateScan
  <2>2. ASSUME NEW e \in Extractors, extractPc[e] \in {"mark", "enqueue"}
        PROVE  extractRow[e] \in uncurated'
    <3>1. extractRow[e] \in Records /\ extractRow[e] \in uncurated
      BY <2>2 DEF RowInHand
    <3>2. curateRow[c] # extractRow[e]
      BY <3>1 DEF DoneOnce, InCuration
    <3>3. QED
      BY <2>1, <3>1, <3>2
  <2>3. QED
    BY <2>1, <2>2
<1>5. ASSUME NEW c \in Curators, CurateDelete(c)
      PROVE  Scanned'
  BY <1>5 DEF CurateDelete
<1>6. ASSUME NEW c \in Curators, CurateFail(c)
      PROVE  Scanned'
  BY <1>6 DEF CurateFail
<1>7. ASSUME NEW c \in Curators, CurateRelease(c)
      PROVE  Scanned'
  BY <1>7 DEF CurateRelease
<1>8. ASSUME NEW c \in Curators, CurateReleaseLost(c) \/ CurateCrash(c)
      PROVE  Scanned'
  <2>1. /\ UNCHANGED <<claim, uncurated, extractPc, extractRow>>
        /\ curateRow' = [curateRow EXCEPT ![c] = NoRecord]
        /\ \A d \in Curators \ {c} : curatePc'[d] = curatePc[d]
    BY <1>8 DEF CurateReleaseLost, CurateCrash
  <2>2. ASSUME NEW r \in Records, NEW d \in Curators, curateRow'[d] = r
        PROVE  d # c /\ curateRow[d] = r
    BY <2>1, <2>2
  <2>3. QED
    BY <2>1, <2>2
<1>9. QED
  BY <1>1, <1>2, <1>3, <1>4, <1>5, <1>6, <1>7, <1>8 DEF CurationNext, CurateRun

\* Every step but the operator's keeps the invariant.
LEMMA StepScanned ==
    ASSUME TypeOK, RowInHand, DoneOnce, Scanned, [Next]_vars,
           [~ ReindexNext]_vars
    PROVE  Scanned'
<1>1. CASE UNCHANGED vars
  BY <1>1
  DEF vars, storeVars, queueVars, graphVars, extractionVars, curationVars, Scanned
<1>2. CASE ExtractionNext /\ UNCHANGED curationVars
  BY <1>2, ExtractionKeepsScanned
<1>3. CASE CurationNext /\ UNCHANGED extractionVars
  BY <1>3, CurationKeepsScanned
<1>4. CASE /\ IntakeNext \/ TriageNext
           /\ UNCHANGED <<extractionVars, curationVars>>
  BY <1>4, IntakeTriageLeaveRows DEF Scanned, extractionVars, curationVars
<1>5. QED
  BY <1>1, <1>2, <1>3, <1>4 DEF Next

\* The invariants of a pipeline with one extractor and no operator.
LEMMA OnceHolds ==
    ASSUME OneExtractor
    PROVE  Spec /\ [][~ ReindexNext]_vars => [](Committed /\ DoneOnce /\ Scanned)
<1>1. Init => Committed /\ DoneOnce /\ Scanned
  BY RowsAssumption
  DEF Init, StoreInit, ExtractionInit, CurationInit, ReindexInit, Committed,
      QueuedIsCommitted, DoneOnce, Scanned, InCuration
<1>2. [~ ReindexNext]_vars => [~ WipeGraph]_vars
  BY DEF ReindexNext
<1>3. /\ TypeOK /\ RowInHand /\ Committed /\ DoneOnce /\ Scanned
      /\ [Next]_vars /\ [~ ReindexNext]_vars
      => Committed' /\ DoneOnce' /\ Scanned'
  BY <1>2, StepCommitted, StepDoneOnce, StepScanned
<1>4. QED
  BY <1>1, <1>3, TypeCorrect, RowsInHand, PTL DEF Spec

\* With one extractor, an entry leaves the queue only once a scan has read
\* all facts its record has in the graph, with any number of curators whose
\* claims time out under them.  (An operator's clearing takes entries out
\* that nobody scanned, and is excepted.)
THEOREM CuratedBeforeLeaving ==
    ASSUME OneExtractor
    PROVE  Spec /\ [][~ ReindexNext]_vars => LeavesQueueCurated
<1> DEFINE Leaves == \A r \in Records :
          claim[r] # "none" /\ claim'[r] = "none" => r \notin uncurated
<1>1. ASSUME TypeOK, Scanned, [Next]_vars, [~ ReindexNext]_vars
      PROVE  [Leaves]_vars
  <2>1. CASE CurationNext
    <3>1. ASSUME NEW c \in Curators, CurateDelete(c)
          PROVE  Leaves
      BY <1>1, <3>1
      DEF CurateDelete, RemoveEntry, Scanned, TypeOK, StoreTypeOK
    <3>2. QED
      BY <1>1, <2>1, <3>1
      DEF TypeOK, StoreTypeOK, CurationNext, CurateRun, ClaimAges, CurateBoot,
          CurateSweep, CurateClaim, CurateNoWork, CurateScan, CurateFail,
          CurateRelease, CurateReleaseLost, CurateCrash, SetClaim, storeVars,
          queueVars
  <2>2. CASE ExtractionNext
    <3>1. ASSUME NEW e \in Extractors, ExtractEnqueue(e)
          PROVE  Leaves
      BY <1>1, <3>1
      DEF ExtractEnqueue, EnqueueForCuration, TypeOK, StoreTypeOK, queueVars
    <3>2. QED
      BY <2>2, <3>1 DEF ExtractionNext, ExtractRun, ExtractBoot, ExtractPoll,
         ExtractNext, ExtractNothing, ExtractSaved, ExtractCommitSome,
         ExtractCommit, ExtractFail, ExtractMark, ExtractEnqueueLost,
         ExtractCrash, storeVars, queueVars
  <2>3. CASE IntakeNext \/ TriageNext
    BY <1>1, <2>3, IntakeTriageLeaveRows
  <2>4. QED
    BY <1>1, <2>1, <2>2, <2>3 DEF Next
<1>2. QED
  BY <1>1, OnceHolds, TypeCorrect, PTL DEF Spec, LeavesQueueCurated

-----------------------------------------------------------------------------
(* The pipeline implements the life cycle of a record *)

\* One triage process, as in the compose file.
OneTriager == \A t, u \in Triagers : t = u

NothingStolen == stolen = {}

\* A single triager steals nothing: it has no row in hand when it boots.
LEMMA StealsNothing ==
    ASSUME OneTriager
    PROVE  Spec => []NothingStolen
<1> USE DEF NothingStolen
<1>1. Init => NothingStolen
  BY DEF Init, TriageInit
<1>2. ASSUME TypeOK, TriageClaims, NothingStolen, [Next]_vars
      PROVE  NothingStolen'
  <2>1. ASSUME NEW t \in Triagers, TriageBoot(t)
        PROVE  NothingStolen'
    <3>1. \A u \in Triagers : triageRow[u] \notin Records
      BY <1>2, <2>1 DEF TriageBoot, OneTriager, TriageClaims
    <3>2. QED
      BY <1>2, <2>1, <3>1 DEF TriageBoot, HeldByTriage, RowsWith
  <2>2. TriageNext => NothingStolen'
    BY <1>2, <2>1 DEF TriageNext, TriageRun, TriageClaim, TriageDecide,
       TriageFail, TriageRelease, TriageReleaseLost, TriageCrash
  <2>3. QED
    BY <1>2, <2>2 DEF Next, vars, triageVars
<1> HIDE DEF NothingStolen
<1>3. QED
  BY <1>1, <1>2, TypeCorrect, TriageClaimsHold, PTL DEF Spec

\* What becomes of one row in a step: it is as it was, or the ingesters, the
\* triager, the extractor or the curators have moved it on.
AsBefore(r) ==
    /\ class'[r] = class[r]
    /\ indexed'[r] = indexed[r]
    /\ claim'[r] = claim[r]
    /\ r \in uncurated' <=> r \in uncurated

Inserted(r) ==
    /\ class[r] = "absent"
    /\ \/ class'[r] = "NULL"
       \/ class'[r] = "relevant" /\ ~ indexed'[r]
       \/ /\ class'[r] = "relevant" /\ indexed'[r]
          /\ claim'[r] = "none" /\ r \notin uncurated'

Labelled(r) ==
    /\ class[r] = "NULL"
    /\ \/ class'[r] \in {"pending_triage", "noise"}
       \/ class'[r] = "relevant" /\ ~ indexed'[r]

Judged(r) ==
    \/ class[r] = "pending_triage" /\ class'[r] = "triaging"
    \/ /\ class[r] = "triaging"
       /\ class'[r] \in {"pending_triage", "uncertain"} \union AgentLabels
       /\ class'[r] = "relevant" => ~ indexed'[r]

Extracted(r) ==
    /\ class[r] = "relevant" /\ class'[r] = "relevant"
    /\ \/ ~ indexed[r] /\ ~ indexed'[r]
       \/ ~ indexed[r] /\ indexed'[r] /\ claim'[r] = "none"
       \/ /\ indexed[r] /\ indexed'[r]
          /\ claim[r] = "none" /\ claim'[r] # "none" /\ r \in uncurated

CuratedFurther(r) ==
    /\ class'[r] = class[r] /\ indexed'[r] = indexed[r]
    /\ claim[r] # "none" /\ indexed[r]
    /\ claim'[r] # "none" \/ r \notin uncurated'

\* A row that was moved on moves along the life cycle.
LEMMA MovesAlong ==
    ASSUME NEW r \in Records,
           \/ AsBefore(r) \/ Inserted(r) \/ Labelled(r) \/ Judged(r)
           \/ Extracted(r) \/ CuratedFurther(r)
    PROVE  StageOf(r)' = StageOf(r) \/ <<StageOf(r), StageOf(r)'>> \in Lifecycle!Moves
<1> USE DEF StageOf
<1>1. CASE AsBefore(r)
  BY <1>1 DEF AsBefore
<1>2. CASE Inserted(r)
  BY <1>2 DEF Inserted, Lifecycle!Moves
<1>3. CASE Labelled(r)
  BY <1>3 DEF Labelled, Lifecycle!Moves
<1>4. CASE Judged(r)
  BY <1>4, LabelsAssumption DEF Judged, Lifecycle!Moves
<1>5. CASE Extracted(r)
  BY <1>5 DEF Extracted, Lifecycle!Moves
<1>6. CASE CuratedFurther(r)
  BY <1>6 DEF CuratedFurther, Lifecycle!Moves
<1>7. QED
  BY <1>1, <1>2, <1>3, <1>4, <1>5, <1>6

\* An ingester's step inserts a row or labels one.
LEMMA IntakeMoves ==
    ASSUME TypeOK, SavingRows, Verdicts, OnlyRelevantIndexed, NothingStolen,
           Committed, DoneOnce, IntakeNext, NEW r \in Records
    PROVE  AsBefore(r) \/ Inserted(r) \/ Labelled(r)
<1> USE DEF TypeOK, StoreTypeOK, storeVars, rowVars, queueVars, graphVars,
            AsBefore, SetClassification
<1>1. class[r] # "relevant" => ~ indexed[r] /\ claim[r] = "none"
  BY DEF OnlyRelevantIndexed, NothingStolen, Committed, QueuedIsCommitted
<1>2. ASSUME NEW g \in Ingesters, NEW k \in Items, SaveCheck(g, k)
      PROVE  AsBefore(r)
  BY <1>2 DEF SaveCheck
<1>3. ASSUME NEW g \in Ingesters, NEW s \in Records, SaveInsert(g, s)
      PROVE  AsBefore(r) \/ Inserted(r)
  BY <1>3 DEF SaveInsert, Inserted
<1>4. ASSUME NEW g \in Ingesters, SaveClassify(g)
      PROVE  AsBefore(r) \/ Labelled(r)
  <2>1. PICK label \in LabelsOnSave(saveItem[g]) :
            class' = [class EXCEPT ![saveRow[g]] = label]
    BY <1>4 DEF SaveClassify
  <2>2. label \in {"pending_triage", "noise", "relevant"}
    BY DEF LabelsOnSave
  <2>3. saveRow[g] \in Records /\ class[saveRow[g]] = "NULL"
    BY <1>4 DEF SaveClassify, SavingRows
  <2>4. UNCHANGED <<indexed, claim, uncurated>>
    BY <1>4 DEF SaveClassify
  <2>5. QED
    BY <1>1, <2>1, <2>2, <2>3, <2>4 DEF Labelled
<1>5. ASSUME NEW g \in Ingesters, SaveMarkRelevant(g)
      PROVE  AsBefore(r)
  <2>1. class[saveRow[g]] = "relevant"
    BY <1>5 DEF SaveMarkRelevant, Verdicts, LabelledIsRelevant
  <2>2. QED
    BY <1>5, <2>1 DEF SaveMarkRelevant
<1>6. ASSUME NEW g \in Ingesters, SaveAborts(g)
      PROVE  AsBefore(r)
  BY <1>6 DEF SaveAborts
<1>7. ASSUME NEW s \in Records, SaveSeed(s)
      PROVE  AsBefore(r) \/ Inserted(r)
  BY <1>1, <1>7 DEF SaveSeed, Inserted
<1>8. ASSUME NEW s \in Records, SubmitIntent(s)
      PROVE  AsBefore(r) \/ Inserted(r)
  <2>1. CASE s = r
    <3>1. class[r] = "absent" /\ r \notin uncurated
      BY <1>8, <2>1 DEF SubmitIntent, DoneOnce
    <3>2. QED
      BY <1>1, <1>8, <2>1, <3>1 DEF SubmitIntent, Inserted
  <2>2. CASE s # r
    BY <1>8, <2>2 DEF SubmitIntent
  <2>3. QED
    BY <2>1, <2>2
<1>9. QED
  BY <1>2, <1>3, <1>4, <1>5, <1>6, <1>7, <1>8 DEF IntakeNext

\* A triager's step claims a row, judges it or puts it back.
LEMMA TriageMoves ==
    ASSUME TypeOK, TriageClaims, Verdicts, OnlyRelevantIndexed, NothingStolen,
           TriageNext, NEW r \in Records
    PROVE  AsBefore(r) \/ Judged(r)
<1> USE DEF TypeOK, StoreTypeOK, TriageTypeOK, storeVars, rowVars, queueVars,
            graphVars, AsBefore, Judged, SetClassification
<1> PICK t \in Triagers : TriageRun(t) \/ TriageCrash(t)
  BY DEF TriageNext
<1>1. triagePc[t] \in {"judging", "failing"} =>
          triageRow[t] \in Records /\ class[triageRow[t]] = "triaging"
  BY DEF TriageClaims, Verdicts, ClaimedIsTriaging, NothingStolen
<1>2. class[r] # "relevant" => ~ indexed[r]
  BY DEF OnlyRelevantIndexed, NothingStolen
<1>3. CASE TriageBoot(t)
  BY <1>3 DEF TriageBoot
<1>4. CASE TriageClaim(t)
  BY <1>4 DEF TriageClaim, Oldest, RowsWith
<1>5. CASE TriageDecide(t)
  <2>1. PICK label \in AgentLabels \union {"uncertain"} :
            class' = [class EXCEPT ![triageRow[t]] = label]
    BY <1>5 DEF TriageDecide
  <2>2. /\ class[triageRow[t]] = "triaging"
        /\ UNCHANGED <<indexed, claim, uncurated>>
    BY <1>1, <1>5 DEF TriageDecide
  <2>3. QED
    BY <1>2, <2>1, <2>2
<1>6. CASE TriageRelease(t)
  BY <1>1, <1>6 DEF TriageRelease
<1>7. CASE TriageFail(t) \/ TriageReleaseLost(t) \/ TriageCrash(t)
  BY <1>7 DEF TriageFail, TriageReleaseLost, TriageCrash
<1>8. QED
  BY <1>3, <1>4, <1>5, <1>6, <1>7 DEF TriageRun

\* An extractor's step works on a relevant row that is nowhere in curation.
LEMMA ExtractionMoves ==
    ASSUME TypeOK, RowInHand, ExtractingRelevant, NothingStolen, Committed,
           DoneOnce, Scanned, ExtractionNext, NEW r \in Records
    PROVE  AsBefore(r) \/ Extracted(r)
<1> USE DEF TypeOK, StoreTypeOK, ExtractionTypeOK, storeVars, rowVars,
            queueVars, graphVars, AsBefore, Extracted, MarkIndexed
<1> PICK e \in Extractors : ExtractRun(e) \/ ExtractCrash(e)
  BY DEF ExtractionNext
<1>1. extractPc[e] \in {"agent", "commit", "mark", "enqueue"} =>
          /\ extractRow[e] \in Records
          /\ class[extractRow[e]] = "relevant"
          /\ claim[extractRow[e]] = "none"
  BY DEF RowInHand, ExtractingRelevant, NothingStolen, DoneOnce, InCuration
<1>2. extractPc[e] \in {"agent", "commit", "mark"} => ~ indexed[extractRow[e]]
  BY DEF DoneOnce
<1>3. CASE \/ ExtractBoot(e) \/ ExtractPoll(e) \/ ExtractNext(e)
           \/ ExtractSaved(e) \/ ExtractFail(e) \/ ExtractEnqueueLost(e)
           \/ ExtractCrash(e)
  BY <1>3 DEF ExtractBoot, ExtractPoll, ExtractNext, ExtractSaved, ExtractFail,
     ExtractEnqueueLost, ExtractCrash
<1>4. CASE ExtractNothing(e) \/ ExtractMark(e)
  BY <1>1, <1>2, <1>4 DEF ExtractNothing, ExtractMark
<1>5. CASE ExtractCommitSome(e) \/ ExtractCommit(e)
  BY <1>1, <1>2, <1>5 DEF ExtractCommitSome, ExtractCommit
<1>6. CASE ExtractEnqueue(e)
  <2>1. indexed[extractRow[e]] /\ extractRow[e] \in uncurated
    BY <1>6 DEF ExtractEnqueue, Committed, Scanned
  <2>2. QED
    BY <1>1, <1>6, <2>1 DEF ExtractEnqueue, EnqueueForCuration
<1>7. QED
  BY <1>3, <1>4, <1>5, <1>6 DEF ExtractRun

\* A curator's step, or the clock's, works on a row of the queue.
LEMMA CurationMoves ==
    ASSUME TypeOK, Committed, Scanned, CurationNext, NEW r \in Records
    PROVE  AsBefore(r) \/ CuratedFurther(r)
<1> USE DEF TypeOK, StoreTypeOK, CurationTypeOK, storeVars, rowVars, queueVars,
            graphVars, AsBefore, CuratedFurther, SetClaim, RemoveEntry
<1>1. claim[r] # "none" => indexed[r]
  BY DEF Committed, QueuedIsCommitted
<1>2. ASSUME NEW s \in Records, ClaimAges(s)
      PROVE  AsBefore(r) \/ CuratedFurther(r)
  BY <1>1, <1>2 DEF ClaimAges
<1>3. ASSUME NEW c \in Curators,
             \/ CurateBoot(c) \/ CurateNoWork(c) \/ CurateFail(c)
             \/ CurateReleaseLost(c) \/ CurateCrash(c)
      PROVE  AsBefore(r)
  BY <1>3 DEF CurateBoot, CurateNoWork, CurateFail, CurateReleaseLost, CurateCrash
<1>4. ASSUME NEW c \in Curators, CurateSweep(c)
      PROVE  AsBefore(r) \/ CuratedFurther(r)
  BY <1>1, <1>4 DEF CurateSweep
<1>5. ASSUME NEW c \in Curators, CurateClaim(c)
      PROVE  AsBefore(r) \/ CuratedFurther(r)
  BY <1>1, <1>5 DEF CurateClaim, NextInLine, FreeEntries
<1>6. ASSUME NEW c \in Curators, CurateScan(c)
      PROVE  AsBefore(r) \/ CuratedFurther(r)
  BY <1>1, <1>6 DEF CurateScan, Scanned
<1>7. ASSUME NEW c \in Curators, CurateDelete(c)
      PROVE  AsBefore(r) \/ CuratedFurther(r)
  BY <1>1, <1>7 DEF CurateDelete, Scanned
<1>8. ASSUME NEW c \in Curators, CurateRelease(c)
      PROVE  AsBefore(r) \/ CuratedFurther(r)
  BY <1>1, <1>8 DEF CurateRelease
<1>9. QED
  BY <1>2, <1>3, <1>4, <1>5, <1>6, <1>7, <1>8 DEF CurationNext, CurateRun

\* Every step of the pipeline is one of the life cycle, or leaves all stages
\* as they are.
LEMMA StepFollows ==
    ASSUME TypeOK, TypeOK', RowInHand, SavingRows, TriageClaims, Verdicts,
           ExtractingRelevant, OnlyRelevantIndexed, NothingStolen, Committed,
           DoneOnce, Scanned, [Next]_vars, [~ ReindexNext]_vars
    PROVE  [Lifecycle!Next]_([r \in Records |-> StageOf(r)])
<1>1. ASSUME NEW r \in Records
      PROVE  StageOf(r)' = StageOf(r) \/ <<StageOf(r), StageOf(r)'>> \in Lifecycle!Moves
  <2>1. CASE UNCHANGED vars
    BY <2>1, MovesAlong
    DEF vars, storeVars, rowVars, queueVars, graphVars, AsBefore
  <2>2. CASE IntakeNext
    BY <2>2, IntakeMoves, MovesAlong
  <2>3. CASE TriageNext
    BY <2>3, TriageMoves, MovesAlong
  <2>4. CASE ExtractionNext
    BY <2>4, ExtractionMoves, MovesAlong
  <2>5. CASE CurationNext
    BY <2>5, CurationMoves, MovesAlong
  <2>6. QED
    BY <2>1, <2>2, <2>3, <2>4, <2>5 DEF Next
<1>2. \A r \in Records : StageOf(r)' \in Lifecycle!Stages
  BY DEF TypeOK, StoreTypeOK, StageOf, Lifecycle!Stages, Classes, Labels, Decided
<1>3. Lifecycle!Next
  BY <1>1, <1>2 DEF Lifecycle!Next
<1>4. QED
  BY <1>3

\* With one triager and one extractor, files ingested for trusted experts only
\* and no operator, the pipeline implements RecordLifecycle, with any number
\* of rows, items, ingesters and curators: through all crashes, lost calls and
\* timeouts a record only moves forward, except from `triaging` to pending.
THEOREM ImplementsLifecycle ==
    ASSUME FilesAreTrusted, OneTriager, OneExtractor
    PROVE  Spec /\ [][~ ReindexNext]_vars => FollowsLifecycle
<1>1. Init => Lifecycle!Init
  BY DEF Init, StoreInit, Lifecycle!Init, StageOf
<1>2. /\ TypeOK /\ TypeOK' /\ RowInHand /\ SavingRows /\ TriageClaims
      /\ Verdicts /\ ExtractingRelevant /\ OnlyRelevantIndexed
      /\ NothingStolen /\ Committed /\ DoneOnce /\ Scanned
      /\ [Next]_vars /\ [~ ReindexNext]_vars
      => [Lifecycle!Next]_([r \in Records |-> StageOf(r)])
  BY StepFollows
<1>3. QED
  BY <1>1, <1>2, TypeCorrect, RowsInHand, TriageClaimsHold, VerdictsHold,
     ExtractionRelevant, StealsNothing, OnceHolds, PTL
  DEF Spec, FollowsLifecycle, Lifecycle!Spec
=============================================================================
