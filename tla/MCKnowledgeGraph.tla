-------------------------- MODULE MCKnowledgeGraph --------------------------
(***************************************************************************)
(* A seed about a person, which lists another name, and a record about the *)
(* same person under that name.                                            *)
(***************************************************************************)
EXTENDS KnowledgeGraph, TLC

CONSTANTS seed, record, chen, mchen, mail, first, second

MCWithin   == {<<chen, chen>>, <<mchen, mchen>>, <<chen, mchen>>, <<chen, mail>>}
MCRecordOf == (first :> record) @@ (second :> seed)
MCSourceAt == (first :> 1) @@ (second :> 2)
MCName     == (seed :> mchen) @@ (record :> chen)
MCIdent    == [r \in Records |-> mail]
MCForm     == [r \in Records |-> chen]
MCSymmetry == Permutations(Extractors) \union Permutations(Curators)
=============================================================================
