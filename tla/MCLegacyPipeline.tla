-------------------------- MODULE MCLegacyPipeline --------------------------
(* A plan of one task, the question itself, and a rule with one task of its own. *)
EXTENDS LegacyPipeline

MCPlans == {<<"question">>}
MCRuleTasks == <<"rule">>

=============================================================================
