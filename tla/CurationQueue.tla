--------------------------- MODULE CurationQueue ----------------------------
(***************************************************************************)
(* The curation consumer as a client of `curator_queue`.  A claim is a     *)
(* timestamp, not an owner: every poll frees the claims older than         *)
(* CURATOR_CLAIM_TIMEOUT, then takes the oldest free entry; the entry is   *)
(* deleted, or freed, by record_id alone, by whoever comes to it.          *)
(* What the scans do to the graph is abstracted to `uncurated`.            *)
(***************************************************************************)
EXTENDS SystemOfRecord

CONSTANTS
    Curators,       \* the curation processes
    ClaimsTimeOut   \* may a claim outlive CURATOR_CLAIM_TIMEOUT?

ASSUME CurationAssumption == ClaimsTimeOut \in BOOLEAN

VARIABLES
    curatePc,   \* where the process is
    curateRow,  \* the record_id it claimed
    timedOut    \* history: records whose claim has outlived the timeout

curationVars == <<curatePc, curateRow, timedOut>>

CurationTypeOK ==
    /\ curatePc \in [Curators ->
                       {"down", "idle", "polling", "scanning", "scanned", "failing"}]
    /\ curateRow \in [Curators -> Records \union {NoRecord}]
    /\ timedOut \in SUBSET Records

CurationInit ==
    /\ curatePc = [c \in Curators |-> "down"]
    /\ curateRow = [c \in Curators |-> NoRecord]
    /\ timedOut = {}

CuratorGoes(c, pc) == curatePc' = [curatePc EXCEPT ![c] = pc]

CuratorStops(c, pc) ==
    /\ CuratorGoes(c, pc)
    /\ curateRow' = [curateRow EXCEPT ![c] = NoRecord]

FreeEntries == {r \in Records : claim[r] = "free"}

\* The entry _claim_one takes: ORDER BY queued_at ASC LIMIT 1.
NextInLine(r) ==
    r \in FreeEntries /\ \A s \in FreeEntries : queuedAt[r] <= queuedAt[s]

RemoveEntry(r) ==
    /\ claim' = [claim EXCEPT ![r] = "none"]
    /\ queuedAt' = [queuedAt EXCEPT ![r] = 0]
    /\ UNCHANGED clock

SetClaim(r, c) ==
    /\ claim' = [claim EXCEPT ![r] = c]
    /\ UNCHANGED <<queuedAt, clock>>

-----------------------------------------------------------------------------

\* CURATOR_CLAIM_TIMEOUT seconds pass over a claim.
ClaimAges(r) ==
    /\ ClaimsTimeOut
    /\ claim[r] = "held"
    /\ SetClaim(r, "overdue")
    /\ timedOut' = timedOut \union {r}
    /\ UNCHANGED <<curatePc, curateRow, rowVars, graphVars, faults>>

CurateBoot(c) ==
    /\ curatePc[c] = "down"
    /\ CuratorGoes(c, "idle")
    /\ UNCHANGED <<curateRow, timedOut, storeVars>>

\* MUTANT: the poll claims without freeing what timed out.
CurateNoSweep(c) ==
    /\ curatePc[c] = "idle"
    /\ CuratorGoes(c, "polling")
    /\ UNCHANGED <<curateRow, timedOut, storeVars>>

\* _next, first transaction: _reset_timed_out_claims.
CurateSweep(c) ==
    /\ curatePc[c] = "idle"
    /\ CuratorGoes(c, "polling")
    /\ claim' = [r \in Records |-> IF claim[r] = "overdue" THEN "free" ELSE claim[r]]
    /\ UNCHANGED <<curateRow, timedOut, rowVars, queuedAt, clock, graphVars, faults>>

\* MUTANT: a claim that takes any entry, claimed or not.
CurateClaimAny(c) ==
    /\ curatePc[c] = "polling"
    /\ \E r \in Records :
          /\ claim[r] # "none"
          /\ SetClaim(r, "held")
          /\ curateRow' = [curateRow EXCEPT ![c] = r]
    /\ CuratorGoes(c, "scanning")
    /\ UNCHANGED <<timedOut, rowVars, graphVars, faults>>

\* _next, second transaction: _claim_one.
CurateClaim(c) ==
    /\ curatePc[c] = "polling"
    /\ \E r \in Records :
          /\ NextInLine(r)
          /\ SetClaim(r, "held")
          /\ curateRow' = [curateRow EXCEPT ![c] = r]
    /\ CuratorGoes(c, "scanning")
    /\ UNCHANGED <<timedOut, rowVars, graphVars, faults>>

\* _claim_one returns None: wait for the next poll.
CurateNoWork(c) ==
    /\ curatePc[c] = "polling"
    /\ FreeEntries = {}
    /\ CuratorGoes(c, "idle")
    /\ UNCHANGED <<curateRow, timedOut, storeVars>>

\* _process: the scans read the facts the graph holds of the record.
CurateScan(c) ==
    /\ curatePc[c] = "scanning"
    /\ uncurated' = uncurated \ {curateRow[c]}
    /\ CuratorGoes(c, "scanned")
    /\ UNCHANGED <<curateRow, timedOut, rowVars, queueVars, facts, faults>>

\* _delete_entry: DELETE by record_id, whoever holds the claim by now.
CurateDelete(c) ==
    /\ curatePc[c] = "scanned"
    /\ RemoveEntry(curateRow[c])
    /\ CuratorStops(c, "idle")
    /\ UNCHANGED <<timedOut, rowVars, graphVars, faults>>

\* _process or _delete_entry raises.
CurateFail(c) ==
    /\ curatePc[c] \in {"scanning", "scanned"}
    /\ Fault
    /\ CuratorGoes(c, "failing")
    /\ UNCHANGED <<curateRow, timedOut, rowVars, queueVars, graphVars>>

\* MUTANT: the except branch deletes the entry.
CurateDrop(c) ==
    /\ curatePc[c] = "failing"
    /\ RemoveEntry(curateRow[c])
    /\ CuratorStops(c, "idle")
    /\ UNCHANGED <<timedOut, rowVars, graphVars, faults>>

\* _release_claim: UPDATE by record_id; no effect on an entry that is gone.
CurateRelease(c) ==
    /\ curatePc[c] = "failing"
    /\ IF claim[curateRow[c]] = "none"
       THEN UNCHANGED queueVars
       ELSE SetClaim(curateRow[c], "free")
    /\ CuratorStops(c, "idle")
    /\ UNCHANGED <<timedOut, rowVars, graphVars, faults>>

\* _release_claim raises and is swallowed: the timeout is what is left.
CurateReleaseLost(c) ==
    /\ "curation release" \in LostWrites
    /\ curatePc[c] = "failing"
    /\ Fault
    /\ CuratorStops(c, "idle")
    /\ UNCHANGED <<timedOut, rowVars, queueVars, graphVars>>

CurateCrash(c) ==
    /\ curatePc[c] # "down"
    /\ Fault
    /\ CuratorStops(c, "down")
    /\ UNCHANGED <<timedOut, rowVars, queueVars, graphVars>>

CurateRun(c) ==
    \/ CurateBoot(c)
    \/ CurateSweep(c)
    \/ CurateClaim(c)
    \/ CurateNoWork(c)
    \/ CurateScan(c)
    \/ CurateDelete(c)
    \/ CurateFail(c)
    \/ CurateRelease(c)
    \/ CurateReleaseLost(c)

CurationNext ==
    \/ \E c \in Curators : CurateRun(c) \/ CurateCrash(c)
    \/ \E r \in Records : ClaimAges(r)
=============================================================================
