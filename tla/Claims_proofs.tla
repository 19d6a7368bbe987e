--------------------------- MODULE Claims_proofs ----------------------------
(***************************************************************************)
(* Mutual exclusion of the two claiming consumers: the row a triager, or   *)
(* a curator, has in hand is in no other one's hands, unless its claim was *)
(* taken back while it was held.  Proved for any number of processes.      *)
(***************************************************************************)
EXTENDS RecordPipeline_proofs

-----------------------------------------------------------------------------
(* Curation *)

\* CuratedByOne is inductive only together with what a claim means: as long
\* as it has not outlived the timeout, the entry of the record a curator has
\* in hand reads `held`, so that no poll, no enqueueing and no operator makes
\* it free again.
CurationClaims ==
    /\ \A c \in Curators :
          curatePc[c] \in {"scanning", "scanned", "failing"}
              => curateRow[c] \in Records
    /\ \A c \in Curators :
          curateRow[c] \in Records \ timedOut => claim[curateRow[c]] = "held"
    /\ CuratedByOne

\* Nobody but a curator, or the clock, takes a claim away.
LEMMA OthersLeaveClaims ==
    ASSUME TypeOK,
           \/ IntakeNext \/ TriageNext \/ ExtractionNext \/ ReindexNext
    PROVE  \A r \in Records : claim[r] = "held" => claim'[r] = "held"
<1>1. CASE IntakeNext
  BY <1>1 DEF IntakeNext, SaveCheck, SaveInsert, SaveClassify, SaveMarkRelevant,
     SaveAborts, SaveSeed, SubmitIntent, storeVars, queueVars
<1>2. CASE TriageNext
  BY <1>2 DEF TriageNext, TriageRun, TriageBoot, TriageClaim, TriageDecide,
     TriageFail, TriageRelease, TriageReleaseLost, TriageCrash, queueVars
<1>3. CASE ExtractionNext
  <2> PICK e \in Extractors : ExtractRun(e) \/ ExtractCrash(e)
    BY <1>3 DEF ExtractionNext
  <2>1. CASE ExtractEnqueue(e)
    BY <2>1 DEF ExtractEnqueue, EnqueueForCuration, queueVars, TypeOK, StoreTypeOK
  <2>2. CASE ~ ExtractEnqueue(e)
    BY <2>2 DEF ExtractRun, ExtractBoot, ExtractPoll, ExtractNext,
       ExtractNothing, ExtractSaved, ExtractCommitSome, ExtractCommit,
       ExtractFail, ExtractMark, ExtractEnqueueLost, ExtractCrash,
       storeVars, queueVars
  <2>3. QED
    BY <2>1, <2>2
<1>4. CASE ReindexNext
  BY <1>4 DEF ReindexNext, WipeGraph, ResetIndexed, ClearQueue, queueVars,
     TypeOK, StoreTypeOK
<1>5. QED
  BY <1>1, <1>2, <1>3, <1>4

\* A step of a curator, or of the clock, keeps the invariant.
LEMMA CurationKeepsClaims ==
    ASSUME TypeOK, CurationClaims, CurationNext
    PROVE  CurationClaims'
<1> USE DEF CurationClaims, CuratedByOne, TypeOK, StoreTypeOK, CurationTypeOK,
            CuratorGoes, CuratorStops, queueVars
<1>1. ASSUME NEW r \in Records, ClaimAges(r)
      PROVE  CurationClaims'
  BY <1>1 DEF ClaimAges, SetClaim
<1>2. ASSUME NEW c \in Curators, CurateBoot(c) \/ CurateNoWork(c)
      PROVE  CurationClaims'
  BY <1>2 DEF CurateBoot, CurateNoWork, storeVars
<1>3. ASSUME NEW c \in Curators, CurateSweep(c)
      PROVE  CurationClaims'
  BY <1>3 DEF CurateSweep
<1>4. ASSUME NEW c \in Curators, CurateClaim(c)
      PROVE  CurationClaims'
  <2> PICK r \in Records : /\ claim[r] = "free"
                           /\ claim' = [claim EXCEPT ![r] = "held"]
                           /\ curateRow' = [curateRow EXCEPT ![c] = r]
    BY <1>4 DEF CurateClaim, NextInLine, FreeEntries, SetClaim
  <2>1. \A d \in Curators : curateRow[d] = r => r \in timedOut
    OBVIOUS
  <2>2. QED
    BY <1>4, <2>1 DEF CurateClaim
<1>5. ASSUME NEW c \in Curators, CurateScan(c) \/ CurateFail(c)
      PROVE  CurationClaims'
  BY <1>5 DEF CurateScan, CurateFail
<1>6. ASSUME NEW c \in Curators, CurateDelete(c)
      PROVE  CurationClaims'
  BY <1>6, RowsAssumption DEF CurateDelete, RemoveEntry
<1>7. ASSUME NEW c \in Curators, CurateRelease(c)
      PROVE  CurationClaims'
  BY <1>7, RowsAssumption DEF CurateRelease, SetClaim
<1>8. ASSUME NEW c \in Curators, CurateReleaseLost(c) \/ CurateCrash(c)
      PROVE  CurationClaims'
  <2>1. /\ UNCHANGED <<claim, timedOut>>
        /\ curateRow' = [curateRow EXCEPT ![c] = NoRecord]
        /\ curatePc' \in {[curatePc EXCEPT ![c] = "idle"], [curatePc EXCEPT ![c] = "down"]}
    BY <1>8 DEF CurateReleaseLost, CurateCrash
  <2>2. QED
    BY <2>1, RowsAssumption
<1>9. QED
  BY <1>1, <1>2, <1>3, <1>4, <1>5, <1>6, <1>7, <1>8 DEF CurationNext, CurateRun

\* Two curators have the same record in hand only after a claim on it has
\* outlived CURATOR_CLAIM_TIMEOUT, however many curators, extractors and
\* operators there are and whatever crashes or fails.
THEOREM CurationExclusive == Spec => []CuratedByOne
<1>1. Init => CurationClaims
  BY RowsAssumption DEF Init, CurationInit, CurationClaims, CuratedByOne
<1>2. TypeOK /\ CurationClaims /\ [Next]_vars => CurationClaims'
  <2> SUFFICES ASSUME TypeOK, CurationClaims, [Next]_vars
               PROVE  CurationClaims'
    OBVIOUS
  <2>1. CASE UNCHANGED vars
    BY <2>1 DEF vars, storeVars, queueVars, curationVars, CurationClaims,
       CuratedByOne
  <2>2. CASE CurationNext
    BY <2>2, CurationKeepsClaims
  <2>3. CASE /\ IntakeNext \/ TriageNext \/ ExtractionNext \/ ReindexNext
             /\ UNCHANGED curationVars
    BY <2>3, OthersLeaveClaims
    DEF curationVars, CurationClaims, CuratedByOne, TypeOK, CurationTypeOK
  <2>4. QED
    BY <2>1, <2>2, <2>3 DEF Next
<1>3. CurationClaims => CuratedByOne
  BY DEF CurationClaims
<1>4. QED
  BY <1>1, <1>2, <1>3, TypeCorrect, PTL DEF Spec

-----------------------------------------------------------------------------
(* Triage *)

\* Ingesters write the label of a row nobody else can know of: one that is
\* still NULL, or that is theirs and labelled already.
SavingRows ==
    /\ \A g \in Ingesters :
          savePc[g] \in {"inserted", "labelled"} <=> saveRow[g] \in Records
    /\ \A g \in Ingesters :
          savePc[g] = "inserted" => class[saveRow[g]] = "NULL"
    /\ \A g \in Ingesters :
          savePc[g] = "labelled" => class[saveRow[g]] \in Labels
    /\ \A g, h \in Ingesters :
          saveRow[g] = saveRow[h] /\ saveRow[g] \in Records => g = h

\* JudgedByOne is inductive only together with what a claim means: the row a
\* triager has in hand is labelled, and not pending unless it was stolen.
TriageClaims ==
    /\ \A t \in Triagers :
          triagePc[t] \in {"judging", "failing"} <=> triageRow[t] \in Records
    /\ \A t \in Triagers :
          triageRow[t] \in Records => class[triageRow[t]] \in Labels
    /\ \A t \in Triagers :
          triageRow[t] \in Records \ stolen
              => class[triageRow[t]] # "pending_triage"
    /\ JudgedByOne

\* A step of an ingester keeps both invariants.
LEMMA IntakeKeepsTriageClaims ==
    ASSUME TypeOK, SavingRows, TriageClaims, IntakeNext, UNCHANGED triageVars
    PROVE  SavingRows' /\ TriageClaims'
<1> USE RowsAssumption, LabelsAssumption
    DEF SavingRows, TriageClaims, JudgedByOne, TypeOK, StoreTypeOK,
        IntakeTypeOK, TriageTypeOK, triageVars, Labels, Decided, SaveReturns,
        SetClassification
<1>1. ASSUME NEW g \in Ingesters, NEW k \in Items, SaveCheck(g, k)
      PROVE  SavingRows' /\ TriageClaims'
  BY <1>1 DEF SaveCheck, storeVars, rowVars
<1>2. ASSUME NEW g \in Ingesters, NEW r \in Records, SaveInsert(g, r)
      PROVE  SavingRows' /\ TriageClaims'
  <2>1. \A h \in Ingesters : saveRow[h] # r
    BY <1>2 DEF SaveInsert
  <2>2. \A t \in Triagers : triageRow[t] # r
    BY <1>2 DEF SaveInsert
  <2>3. QED
    BY <1>2, <2>1, <2>2 DEF SaveInsert
<1>3. ASSUME NEW g \in Ingesters, SaveClassify(g)
      PROVE  SavingRows' /\ TriageClaims'
  <2>1. PICK label \in Labels : class' = [class EXCEPT ![saveRow[g]] = label]
    BY <1>3 DEF SaveClassify, LabelsOnSave
  <2>2. saveRow[g] \in Records /\ class[saveRow[g]] = "NULL"
    BY <1>3 DEF SaveClassify
  <2>3. \A t \in Triagers : triageRow[t] # saveRow[g]
    BY <2>2
  <2>4. TriageClaims'
    BY <2>1, <2>2, <2>3
  <2>5. SavingRows'
    <3>1. CASE g \in FileIngesters
      BY <1>3, <2>1, <2>2, <3>1 DEF SaveClassify
    <3>2. CASE g \notin FileIngesters
      BY <1>3, <2>1, <2>2, <3>2 DEF SaveClassify
    <3>3. QED
      BY <3>1, <3>2
  <2>6. QED
    BY <2>4, <2>5
<1>4. ASSUME NEW g \in Ingesters, SaveMarkRelevant(g)
      PROVE  SavingRows' /\ TriageClaims'
  BY <1>4 DEF SaveMarkRelevant
<1>5. ASSUME NEW g \in Ingesters, SaveAborts(g)
      PROVE  SavingRows' /\ TriageClaims'
  BY <1>5 DEF SaveAborts, rowVars
<1>6. ASSUME NEW r \in Records, SaveSeed(r) \/ SubmitIntent(r)
      PROVE  SavingRows' /\ TriageClaims'
  <2>1. class[r] = "absent" /\ class' = [class EXCEPT ![r] = "relevant"]
    BY <1>6 DEF SaveSeed, SubmitIntent
  <2>2. UNCHANGED intakeVars
    BY <1>6 DEF SaveSeed, SubmitIntent
  <2>3. QED
    BY <2>1, <2>2 DEF intakeVars
<1>7. QED
  BY <1>1, <1>2, <1>3, <1>4, <1>5, <1>6 DEF IntakeNext

\* A step of a triager keeps both invariants.
LEMMA TriageKeepsTriageClaims ==
    ASSUME TypeOK, SavingRows, TriageClaims, TriageNext, UNCHANGED intakeVars
    PROVE  SavingRows' /\ TriageClaims'
<1> USE RowsAssumption, LabelsAssumption
    DEF SavingRows, TriageClaims, JudgedByOne, TypeOK, StoreTypeOK,
        IntakeTypeOK, TriageTypeOK, intakeVars, Labels, Decided, TriageStops,
        SetClassification
<1> PICK t \in Triagers : TriageRun(t) \/ TriageCrash(t)
  BY DEF TriageNext
<1>1. CASE TriageBoot(t)
  <2>1. \A r \in Records : class'[r] = IF class[r] = "triaging"
                                       THEN "pending_triage" ELSE class[r]
    BY <1>1 DEF TriageBoot
  <2>2. \A u \in Triagers : triageRow[u] \in Records
              /\ class[triageRow[u]] = "triaging" => triageRow[u] \in stolen'
    BY <1>1 DEF TriageBoot, RowsWith, HeldByTriage
  <2>3. stolen \subseteq stolen'
    BY <1>1 DEF TriageBoot
  <2>4. QED
    BY <1>1, <2>1, <2>2, <2>3 DEF TriageBoot
<1>2. CASE TriageClaim(t)
  <2> PICK r \in Records : /\ class[r] = "pending_triage"
                           /\ class' = [class EXCEPT ![r] = "triaging"]
                           /\ triageRow' = [triageRow EXCEPT ![t] = r]
    BY <1>2 DEF TriageClaim, Oldest, RowsWith
  <2>1. \A u \in Triagers : triageRow[u] = r => r \in stolen
    OBVIOUS
  <2>2. QED
    BY <1>2, <2>1 DEF TriageClaim
<1>3. CASE TriageDecide(t)
  <2>1. PICK label \in AgentLabels \union {"uncertain"} :
            class' = [class EXCEPT ![triageRow[t]] = label]
    BY <1>3 DEF TriageDecide
  <2>2. QED
    BY <1>3, <2>1 DEF TriageDecide
<1>4. CASE TriageFail(t)
  BY <1>4 DEF TriageFail, rowVars
<1>5. CASE TriageRelease(t)
  BY <1>5 DEF TriageRelease
<1>6. CASE TriageReleaseLost(t) \/ TriageCrash(t)
  <2>1. /\ UNCHANGED <<class, stolen>>
        /\ triageRow' = [triageRow EXCEPT ![t] = NoRecord]
        /\ triagePc' \in {[triagePc EXCEPT ![t] = "idle"],
                          [triagePc EXCEPT ![t] = "down"]}
    BY <1>6 DEF TriageReleaseLost, TriageCrash, rowVars
  <2>2. QED
    BY <2>1
<1>7. QED
  BY <1>1, <1>2, <1>3, <1>4, <1>5, <1>6 DEF TriageRun

\* The other components neither label rows nor hold one for triage.
LEMMA OthersLeaveLabels ==
    ASSUME \/ ExtractionNext \/ CurationNext \/ ReindexNext
    PROVE  UNCHANGED class
<1>1. CASE ExtractionNext
  BY <1>1 DEF ExtractionNext, ExtractRun, ExtractBoot, ExtractPoll,
     ExtractNext, ExtractNothing, ExtractSaved, ExtractCommitSome,
     ExtractCommit, ExtractFail, ExtractMark, ExtractEnqueue,
     ExtractEnqueueLost, ExtractCrash, storeVars, rowVars
<1>2. CASE CurationNext
  BY <1>2 DEF CurationNext, CurateRun, ClaimAges, CurateBoot, CurateSweep,
     CurateClaim, CurateNoWork, CurateScan, CurateDelete, CurateFail,
     CurateRelease, CurateReleaseLost, CurateCrash, storeVars, rowVars
<1>3. CASE ReindexNext
  BY <1>3 DEF ReindexNext, WipeGraph, ResetIndexed, ClearQueue, rowVars
<1>4. QED
  BY <1>1, <1>2, <1>3

\* Both invariants hold throughout.
LEMMA TriageClaimsHold == Spec => [](SavingRows /\ TriageClaims)
<1>1. Init => SavingRows /\ TriageClaims
  BY RowsAssumption
  DEF Init, StoreInit, IntakeInit, TriageInit, SavingRows, TriageClaims,
      JudgedByOne
<1>2. /\ TypeOK /\ SavingRows /\ TriageClaims /\ [Next]_vars
      => SavingRows' /\ TriageClaims'
  <2> SUFFICES ASSUME TypeOK, SavingRows, TriageClaims, [Next]_vars
               PROVE  SavingRows' /\ TriageClaims'
    OBVIOUS
  <2>1. CASE UNCHANGED <<class, intakeVars, triageVars>>
    BY <2>1
    DEF intakeVars, triageVars, SavingRows, TriageClaims, JudgedByOne
  <2>2. CASE IntakeNext /\ UNCHANGED triageVars
    BY <2>2, IntakeKeepsTriageClaims
  <2>3. CASE TriageNext /\ UNCHANGED intakeVars
    BY <2>3, TriageKeepsTriageClaims
  <2>4. QED
    BY <2>1, <2>2, <2>3, OthersLeaveLabels
    DEF Next, vars, storeVars, rowVars
<1>3. QED
  BY <1>1, <1>2, TypeCorrect, PTL DEF Spec

\* Two triagers have the same row in hand only after one of them booted while
\* the other held it, however many triagers and ingesters there are, whatever
\* crashes or fails and whatever a file ingester marks relevant meanwhile.
THEOREM TriageExclusive == Spec => []JudgedByOne
<1>1. SavingRows /\ TriageClaims => JudgedByOne
  BY DEF TriageClaims
<1>2. QED
  BY <1>1, TriageClaimsHold, PTL

-----------------------------------------------------------------------------
(* No triage claim leaks *)

\* Only a triager's claim writes the label `triaging`, and no step but a
\* triager's own lets go of its row or of being down.
LEMMA OthersLeaveTriaging ==
    ASSUME TypeOK, SavingRows, [Next]_vars, ~ TriageNext
    PROVE  /\ \A r \in Records : class'[r] = "triaging" => class[r] = "triaging"
           /\ UNCHANGED triageVars
<1> USE DEF TypeOK, StoreTypeOK, Labels, Decided
<1>1. ASSUME NEW g \in Ingesters, SaveClassify(g)
      PROVE  \A r \in Records : class'[r] = "triaging" => class[r] = "triaging"
  <2>1. PICK label \in LabelsOnSave(saveItem[g]) :
            class' = [class EXCEPT ![saveRow[g]] = label]
    BY <1>1 DEF SaveClassify, SetClassification
  <2>2. QED
    BY <2>1 DEF LabelsOnSave
<1>2. ASSUME IntakeNext
      PROVE  \A r \in Records : class'[r] = "triaging" => class[r] = "triaging"
  BY <1>1, <1>2 DEF IntakeNext, SaveCheck, SaveInsert, SaveMarkRelevant,
     SaveAborts, SaveSeed, SubmitIntent, SetClassification, storeVars, rowVars
<1>3. CASE UNCHANGED <<class, triageVars>>
  BY <1>3
<1>4. CASE IntakeNext /\ UNCHANGED triageVars
  BY <1>2, <1>4
<1>5. QED
  BY <1>3, <1>4, OthersLeaveLabels DEF Next, vars, storeVars, rowVars

\* A triager's step keeps every claim held, or to be taken back at a boot, if
\* releases succeed and the agent does not answer `triaging`.
LEMMA TriageKeepsHeld ==
    ASSUME "triage release" \notin LostWrites, "triaging" \notin AgentLabels,
           TypeOK, TriageClaims, TriagingIsHeld, TriageNext
    PROVE  TriagingIsHeld'
<1> USE RowsAssumption, LabelsAssumption
    DEF TriagingIsHeld, HeldByTriage, TriageClaims, TypeOK, StoreTypeOK,
        TriageTypeOK, TriageStops, SetClassification
<1> PICK t \in Triagers : TriageRun(t) \/ TriageCrash(t)
  BY DEF TriageNext
<1>1. CASE TriageBoot(t)
  BY <1>1 DEF TriageBoot
<1>2. CASE TriageClaim(t)
  <2> PICK r \in Records : /\ class' = [class EXCEPT ![r] = "triaging"]
                           /\ triageRow' = [triageRow EXCEPT ![t] = r]
    BY <1>2 DEF TriageClaim
  <2>1. /\ triagePc' = [triagePc EXCEPT ![t] = "judging"]
        /\ triagePc[t] = "idle" /\ triageRow[t] \notin Records
    BY <1>2 DEF TriageClaim
  <2>2. HeldByTriage(r)'
    OBVIOUS
  <2>3. ASSUME NEW s \in Records \ {r}, class'[s] = "triaging"
        PROVE  HeldByTriage(s)' \/ \E u \in Triagers : triagePc'[u] = "down"
    <3>1. CASE HeldByTriage(s)
      <4> PICK u \in Triagers : triageRow[u] = s
        BY <3>1
      <4>1. u # t /\ triageRow'[u] = s
        BY <2>1
      <4>2. QED
        BY <4>1
    <3>2. CASE \E u \in Triagers : triagePc[u] = "down"
      BY <2>1, <3>2
    <3>3. QED
      BY <2>3, <3>1, <3>2
  <2>4. QED
    BY <2>2, <2>3
<1>3. CASE TriageDecide(t)
  <2>1. PICK label \in AgentLabels \union {"uncertain"} :
            class' = [class EXCEPT ![triageRow[t]] = label]
    BY <1>3 DEF TriageDecide
  <2>2. /\ triagePc[t] = "judging"
        /\ triagePc' = [triagePc EXCEPT ![t] = "idle"]
        /\ triageRow' = [triageRow EXCEPT ![t] = NoRecord]
    BY <1>3 DEF TriageDecide
  <2>3. QED
    BY <2>1, <2>2
<1>4. CASE TriageFail(t)
  BY <1>4 DEF TriageFail, rowVars
<1>5. CASE TriageRelease(t)
  BY <1>5 DEF TriageRelease
<1>6. CASE TriageReleaseLost(t)
  BY <1>6 DEF TriageReleaseLost
<1>7. CASE TriageCrash(t)
  BY <1>7 DEF TriageCrash, rowVars
<1>8. QED
  BY <1>1, <1>2, <1>3, <1>4, <1>5, <1>6, <1>7 DEF TriageRun

\* If releases succeed, and no agent answers with the label of a claim, no
\* claim leaks, with any number of triagers: a row that reads `triaging` is
\* in a triager's hands, or a triager is down and takes it back when it boots.
THEOREM ClaimsDoNotLeak ==
    ASSUME "triage release" \notin LostWrites, "triaging" \notin AgentLabels
    PROVE  Spec => []TriagingIsHeld
<1>1. Init => TriagingIsHeld
  BY DEF Init, StoreInit, TriagingIsHeld
<1>2. ASSUME TypeOK, SavingRows, TriageClaims, TriagingIsHeld, [Next]_vars
      PROVE  TriagingIsHeld'
  <2>1. CASE TriageNext
    BY <1>2, <2>1, TriageKeepsHeld
  <2>2. CASE ~ TriageNext
    BY <1>2, <2>2, OthersLeaveTriaging
    DEF TriagingIsHeld, HeldByTriage, triageVars
  <2>3. QED
    BY <2>1, <2>2
<1>3. QED
  BY <1>1, <1>2, TypeCorrect, TriageClaimsHold, PTL DEF Spec
=============================================================================
