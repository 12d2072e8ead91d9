-------------------------- MODULE MCRunExecution --------------------------
(* Values of the function-valued constants of RunExecution. *)
EXTENDS RunExecution

MCBudget == [c \in Counters |-> 0]
MCScript == <<"ask", "work", "ask">>

Symmetry == Permutations(Executors) \cup Permutations(Revisions)
=============================================================================
