---------------------------- MODULE LeadIntakeMC ----------------------------
(* Values for checking LeadIntake. *)
EXTENDS LeadIntake

CONSTANTS ann, f1, bot, blank

\* An automatic reply between two mails of ann's, and the forms are from her too.
MCFrom == [w \in Mails \cup Posts |-> IF w = 3 THEN Automatic ELSE ann]
=============================================================================
