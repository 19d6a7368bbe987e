---------------------------- MODULE MCSourceSync ----------------------------
(***************************************************************************)
(* Two items, and answers of one item: Linear gives them in two pages,     *)
(* GitHub leaves one out, which may be the only issue, and Gmail shows the *)
(* later mail alone.                                                       *)
(***************************************************************************)
EXTENDS SourceSync

CONSTANTS pull, issue
=============================================================================
