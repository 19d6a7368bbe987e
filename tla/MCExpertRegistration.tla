------------------------ MODULE MCExpertRegistration ------------------------
(***************************************************************************)
(* Two experts in two versions.  Tracker's entity type is also that of     *)
(* mailer's second version; its second version claims mailer's source and  *)
(* record type.                                                            *)
(***************************************************************************)
EXTENDS ExpertRegistration, TLC

CONSTANTS mailer, tracker, letter, issue, project, person, first, second

Declares(source, records, entities, secrets) ==
    [readable |-> TRUE, source |-> source, records |-> records, schemas |-> records,
     entities |-> entities, knowledge |-> {"extraction", "agent"} \union entities,
     entries |-> {"tools"}, importable |-> {"tools"},
     patterns |-> {person} \union entities, secrets |-> secrets]

MCNames == <<mailer, tracker>>
MCManifest ==
    mailer :> <<Declares("mail", {letter}, {}, FALSE),
                Declares("mail", {letter}, {project}, FALSE)>>
    @@ tracker :> <<Declares("issues", {issue}, {project}, TRUE),
                    Declares("mail", {issue, letter}, {}, TRUE)>>
MCSymmetry == Permutations(Operators)
=============================================================================
