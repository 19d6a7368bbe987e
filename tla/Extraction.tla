----------------------------- MODULE Extraction -----------------------------
(***************************************************************************)
(* The extraction consumer.  A poll selects every relevant, unindexed row  *)
(* into a buffer in memory; the buffer is drained, oldest first, before    *)
(* the next poll, and a buffered row is not looked at again.  A row is not *)
(* claimed.  Its facts are written to the graph edge by edge, `indexed` is *)
(* set in one transaction and the curation entry inserted in another.      *)
(***************************************************************************)
EXTENDS SystemOfRecord

CONSTANTS
    Extractors,       \* the extraction processes
    ExtractionPoison  \* rows whose commit always raises (an unparsable date)

ASSUME ExtractionAssumption == ExtractionPoison \subseteq Records

VARIABLES
    extractPc,   \* where the process is
    extractRow,  \* the row in hand
    batch        \* Extraction._pending, still to be handled

extractionVars == <<extractPc, extractRow, batch>>

ExtractionTypeOK ==
    /\ extractPc \in [Extractors ->
                        {"down", "idle", "agent", "commit", "mark", "enqueue"}]
    /\ extractRow \in [Extractors -> Records \union {NoRecord}]
    /\ batch \in [Extractors -> SUBSET Records]

ExtractionInit ==
    /\ extractPc = [e \in Extractors |-> "down"]
    /\ extractRow = [e \in Extractors |-> NoRecord]
    /\ batch = [e \in Extractors |-> {}]

ExtractorGoes(e, pc) == extractPc' = [extractPc EXCEPT ![e] = pc]

ExtractorDone(e) ==
    /\ ExtractorGoes(e, "idle")
    /\ extractRow' = [extractRow EXCEPT ![e] = NoRecord]

\* The oldest row of S is taken up, the others wait in the buffer.
TakeOldestOf(e, S) ==
    \E r \in S :
       /\ Oldest(r, S)
       /\ extractRow' = [extractRow EXCEPT ![e] = r]
       /\ batch' = [batch EXCEPT ![e] = S \ {r}]

-----------------------------------------------------------------------------

ExtractBoot(e) ==
    /\ extractPc[e] = "down"
    /\ ExtractorGoes(e, "idle")
    /\ UNCHANGED <<extractRow, batch, storeVars>>

\* MUTANT: the poll forgets the classification.
AnyUnindexed == {r \in Records : class[r] # "absent" /\ ~indexed[r]}

\* MUTANT: the poll takes a row the graph holds facts of for a finished one.
UnindexedAndEmpty ==
    {r \in Records : class[r] = "relevant" /\ ~indexed[r] /\ facts[r] = "none"}

\* The rows a poll selects.
Unindexed == {r \in Records : class[r] = "relevant" /\ ~indexed[r]}

\* _next with an empty buffer.
ExtractPoll(e) ==
    /\ extractPc[e] = "idle"
    /\ batch[e] = {}
    /\ TakeOldestOf(e, Unindexed)
    /\ ExtractorGoes(e, "agent")
    /\ UNCHANGED storeVars

\* _next with rows in the buffer.
ExtractNext(e) ==
    /\ extractPc[e] = "idle"
    /\ TakeOldestOf(e, batch[e])
    /\ ExtractorGoes(e, "agent")
    /\ UNCHANGED storeVars

\* _process_record ends with _mark_indexed alone: for an intent, and when
\* the agent saved no extraction or its run raised.
ExtractNothing(e) ==
    /\ extractPc[e] = "agent"
    /\ MarkIndexed(extractRow[e])
    /\ ExtractorDone(e)
    /\ UNCHANGED <<batch, class, dedupKey, queueVars, graphVars, faults>>

\* The agent saved an extraction; what is wrong with it is only logged.
ExtractSaved(e) ==
    /\ extractPc[e] = "agent"
    /\ extractRow[e] \notin IntentRows
    /\ ExtractorGoes(e, "commit")
    /\ UNCHANGED <<extractRow, batch, storeVars>>

\* _commit_extraction has written some of the record's edges ...
ExtractCommitSome(e) ==
    /\ extractPc[e] = "commit"
    /\ facts[extractRow[e]] = "none"
    /\ facts' = [facts EXCEPT ![extractRow[e]] = "partial"]
    /\ uncurated' = uncurated \union {extractRow[e]}
    /\ UNCHANGED <<extractionVars, rowVars, queueVars, faults>>

\* MUTANT: `indexed` is set before the graph is written.
ExtractCommitMarked(e) ==
    /\ extractPc[e] = "commit"
    /\ extractRow[e] \notin ExtractionPoison
    /\ ExtractorGoes(e, "enqueue")
    /\ MarkIndexed(extractRow[e])
    /\ UNCHANGED <<extractRow, batch, class, dedupKey, queueVars, graphVars, faults>>

\* ... and all of them.  Edges that are there already are found by the
\* literal duplicate check; a second run of the LLM words some anew.
ExtractCommit(e) ==
    /\ extractPc[e] = "commit"
    /\ extractRow[e] \notin ExtractionPoison
    /\ facts' = [facts EXCEPT ![extractRow[e]] = "full"]
    /\ uncurated' = uncurated \union {extractRow[e]}
    /\ ExtractorGoes(e, "mark")
    /\ UNCHANGED <<extractRow, batch, rowVars, queueVars, faults>>

\* Anything raises before `indexed` is set; the loop goes on with the
\* buffer, and a later poll finds the row again.
ExtractFail(e) ==
    /\ extractPc[e] \in {"agent", "commit", "mark"}
    /\ \/ extractRow[e] \in ExtractionPoison /\ UNCHANGED faults
       \/ extractRow[e] \notin ExtractionPoison /\ Fault
    /\ ExtractorDone(e)
    /\ UNCHANGED <<batch, rowVars, queueVars, graphVars>>

ExtractMark(e) ==
    /\ extractPc[e] = "mark"
    /\ MarkIndexed(extractRow[e])
    /\ ExtractorGoes(e, "enqueue")
    /\ UNCHANGED <<extractRow, batch, class, dedupKey, queueVars, graphVars, faults>>

ExtractEnqueue(e) ==
    /\ extractPc[e] = "enqueue"
    /\ EnqueueForCuration(extractRow[e])
    /\ ExtractorDone(e)
    /\ UNCHANGED <<batch, rowVars, graphVars, faults>>

\* enqueue_for_curation raises; _process_record logs a warning and ends.
ExtractEnqueueLost(e) ==
    /\ "enqueue" \in LostWrites
    /\ extractPc[e] = "enqueue"
    /\ Fault
    /\ ExtractorDone(e)
    /\ UNCHANGED <<batch, rowVars, queueVars, graphVars>>

\* The buffer dies with the process.
ExtractCrash(e) ==
    /\ extractPc[e] # "down"
    /\ Fault
    /\ ExtractorGoes(e, "down")
    /\ extractRow' = [extractRow EXCEPT ![e] = NoRecord]
    /\ batch' = [batch EXCEPT ![e] = {}]
    /\ UNCHANGED <<rowVars, queueVars, graphVars>>

ExtractRun(e) ==
    \/ ExtractBoot(e)
    \/ ExtractPoll(e)
    \/ ExtractNext(e)
    \/ ExtractNothing(e)
    \/ ExtractSaved(e)
    \/ ExtractCommitSome(e)
    \/ ExtractCommit(e)
    \/ ExtractFail(e)
    \/ ExtractMark(e)
    \/ ExtractEnqueue(e)
    \/ ExtractEnqueueLost(e)

ExtractionNext == \E e \in Extractors : ExtractRun(e) \/ ExtractCrash(e)
=============================================================================
