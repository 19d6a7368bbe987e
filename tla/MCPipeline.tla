----------------------------- MODULE MCPipeline -----------------------------
(***************************************************************************)
(* Instances of RecordPipeline with two items.  "mail" comes from a source *)
(* whose policy is `required`, "issue" from a trusted one; "mail2" is a    *)
(* second mail.                                                            *)
(***************************************************************************)
EXTENDS RecordPipeline, TLC

CONSTANTS mail, mail2, issue, gmail, file

MCRecords    == {1, 2}
MCWithIntent == {1, 2, 3}

MCPolicy == (mail :> "required") @@ (mail2 :> "required") @@ (issue :> "skip")

\* The mail is polled for, the issue read from a file.
MCMailAndFile == (gmail :> {mail}) @@ (file :> {issue})

\* Both mails are polled for.
MCTwoMails == gmail :> {mail, mail2}

\* Nothing is fetched: the rows are seeds.
MCNothing == gmail :> {}

\* Processes of one kind are interchangeable in a safety property.
MCSymmetry ==
    Permutations(Triagers) \union Permutations(Extractors) \union Permutations(Curators)
=============================================================================
