--------------------------- MODULE RecordPipeline ---------------------------
(***************************************************************************)
(* The pipeline: ingesters, triage, extraction, curation and the operator, *)
(* interleaved at the transactions they make against the shared stores.    *)
(***************************************************************************)
EXTENDS Intake, Triage, Extraction, CurationQueue, Reindex

vars == <<storeVars, intakeVars, triageVars, extractionVars, curationVars,
          reindexVars>>

Init ==
    /\ StoreInit
    /\ IntakeInit
    /\ TriageInit
    /\ ExtractionInit
    /\ CurationInit
    /\ ReindexInit

Next ==
    \/ IntakeNext /\ UNCHANGED <<triageVars, extractionVars, curationVars, reindexVars>>
    \/ TriageNext /\ UNCHANGED <<intakeVars, extractionVars, curationVars, reindexVars>>
    \/ ExtractionNext /\ UNCHANGED <<intakeVars, triageVars, curationVars, reindexVars>>
    \/ CurationNext /\ UNCHANGED <<intakeVars, triageVars, extractionVars, reindexVars>>
    \/ ReindexNext /\ UNCHANGED <<intakeVars, triageVars, extractionVars, curationVars>>

Spec == Init /\ [][Next]_vars

\* Every consumer loop runs on, and the container runtime restarts a dead
\* process (compose: restart unless-stopped); time passes over a claim.
\* Nobody has to fetch an item, crash, fail or operate.
Fairness ==
    /\ \A g \in Ingesters :
          WF_vars(SaveRun(g) /\ UNCHANGED <<triageVars, extractionVars, curationVars, reindexVars>>)
    /\ \A t \in Triagers :
          WF_vars(TriageRun(t) /\ UNCHANGED <<intakeVars, extractionVars, curationVars, reindexVars>>)
    /\ \A e \in Extractors :
          WF_vars(ExtractRun(e) /\ UNCHANGED <<intakeVars, triageVars, curationVars, reindexVars>>)
    /\ \A c \in Curators :
          WF_vars(CurateRun(c) /\ UNCHANGED <<intakeVars, triageVars, extractionVars, reindexVars>>)
    /\ \A r \in Records :
          WF_vars(ClaimAges(r) /\ UNCHANGED <<intakeVars, triageVars, extractionVars, reindexVars>>)

FairSpec == Spec /\ Fairness

TypeOK ==
    /\ StoreTypeOK
    /\ IntakeTypeOK
    /\ TriageTypeOK
    /\ ExtractionTypeOK
    /\ CurationTypeOK
    /\ ReindexTypeOK

-----------------------------------------------------------------------------
(* Safety *)

\* Fetching an item again, after whatever crash, never gives it a second
\* row: store.save_record's dedup check, made good by the fact that an item
\* has one ingester.
OneRowPerItem ==
    \A r, s \in Records :
        dedupKey[r] = dedupKey[s] /\ dedupKey[r] # NoItem => r = s

\* Extraction only ever completes a row whose verdict is `relevant`, though
\* it reads the verdict when it polls and sets `indexed` much later.  Rows
\* whose claim a second triage process took are the exception.
OnlyRelevantIndexed ==
    \A r \in Records : indexed[r] => class[r] = "relevant" \/ r \in stolen

\* A row labelled `triaging` is in the hands of a triager, unless one is
\* down and will take it back when it boots: no claim leaks.
TriagingIsHeld ==
    \A r \in Records :
        class[r] = "triaging" =>
            \/ HeldByTriage(r)
            \/ \E t \in Triagers : triagePc[t] = "down"

\* Two triagers have the same row in hand only after the boot of one took
\* the other's claim: _claim_one is atomic, _reset_stale_triaging is blind.
JudgedByOne ==
    \A t, u \in Triagers :
        triageRow[t] = triageRow[u] /\ triageRow[t] # NoRecord =>
            t = u \/ triageRow[t] \in stolen

\* Two curators work on the same record only after a claim on it outlived
\* the timeout, whatever crashed or failed to be released before.
CuratedByOne ==
    \A c, d \in Curators :
        curateRow[c] = curateRow[d] /\ curateRow[c] # NoRecord =>
            c = d \/ curateRow[c] \in timedOut

\* What waits for curation, or is being curated, is a record that is indexed
\* and whose extraction is entirely in the graph, however often extraction
\* died between the two stores.
QueuedIsCommitted ==
    \A r \in Records :
        claim[r] # "none" => indexed[r] /\ facts[r] = "full"

\* The labels a row has while no verdict on it is written.
Open == {"absent", "NULL", "pending_triage", "triaging"}

\* A verdict, once written, stays: no late answer of an agent, release of a
\* claim or retry of an ingester overwrites it, except on stolen rows.
DecisionsStick ==
    [][\A r \in Records :
          class[r] \notin Open /\ r \notin stolen => class'[r] = class[r]]_vars

\* An entry leaves the curation queue only once a scan has read all facts
\* its record has in the graph, though claims time out and a curator may
\* delete an entry another one has claimed since.
LeavesQueueCurated ==
    [][\A r \in Records :
          claim[r] # "none" /\ claim'[r] = "none" => r \notin uncurated]_vars

-----------------------------------------------------------------------------
(* Refinement *)

\* The stage of the abstract life cycle a row is in.
StageOf(r) ==
    CASE class[r] = "absent"         -> "absent"
      [] class[r] = "NULL"           -> "unlabelled"
      [] class[r] = "pending_triage" -> "pending"
      [] class[r] = "relevant" /\ ~indexed[r] -> "relevant"
      [] class[r] = "relevant" /\ indexed[r] /\ claim[r] # "none" -> "queued"
      [] class[r] = "relevant" /\ indexed[r] /\ claim[r] = "none" ->
            IF r \in uncurated THEN "indexed" ELSE "settled"
      [] class[r] \in {"triaging", "noise", "uncertain"} -> class[r]
      [] OTHER -> "unknown"

Lifecycle == INSTANCE RecordLifecycle WITH stage <- [r \in Records |-> StageOf(r)]

\* With one process of each kind the pipeline implements the life cycle.
FollowsLifecycle == Lifecycle!Spec

-----------------------------------------------------------------------------
(* Liveness *)

\* A row waiting for triage, or claimed by a process that died, is decided,
\* unless the agent raises on it every time: "drain remaining work even if
\* one message failed" (consumer.py).
PendingIsDecided ==
    \A r \in Records \ TriagePoison :
        class[r] \in {"pending_triage", "triaging"} ~> class[r] \notin Open

\* A relevant row gets indexed, also when an older row fails every time:
\* the buffer carries the loop past it.
RelevantIsIndexed ==
    \A r \in Records \ ExtractionPoison :
        class[r] = "relevant" ~> indexed[r]

\* An entry of the curation queue is worked off, also when the process that
\* claimed it died or could not release it.
QueueDrains ==
    \A r \in Records : claim[r] # "none" ~> claim[r] = "none"
=============================================================================
