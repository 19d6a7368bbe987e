-------------------------- MODULE RecordLifecycle ---------------------------
(***************************************************************************)
(* What the pipeline promises of one record, after the state machine of    *)
(* docs/architecture.md ("Classification"), carried on through extraction  *)
(* and curation: a verdict is final, only relevant records are indexed,    *)
(* and a record that entered the curation queue leaves it by being         *)
(* curated.  Triage may write a label nobody knows: the record stays where *)
(* it is.  Rows move independently, several in one step when a booting     *)
(* triage process takes back claims.                                       *)
(***************************************************************************)
CONSTANT Records

VARIABLE stage

Stages == {"absent", "unlabelled", "pending", "triaging", "noise", "uncertain",
           "relevant", "indexed", "queued", "settled", "unknown"}

\* A row is settled when nothing of it waits for extraction or curation.
Moves ==
    ({"absent"}     \X {"unlabelled", "relevant", "settled"})
    \union ({"unlabelled"} \X {"pending", "noise", "relevant"})
    \union ({"pending"}    \X {"triaging"})
    \union ({"triaging"}   \X {"pending", "relevant", "noise", "uncertain", "unknown"})
    \union ({"relevant"}   \X {"indexed", "settled"})
    \union ({"indexed"}    \X {"queued"})
    \union ({"queued"}     \X {"settled"})

Init == stage = [r \in Records |-> "absent"]

Next ==
    /\ stage' \in [Records -> Stages]
    /\ \A r \in Records :
          stage'[r] = stage[r] \/ <<stage[r], stage'[r]>> \in Moves

Spec == Init /\ [][Next]_stage
=============================================================================
