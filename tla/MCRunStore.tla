---------------------------- MODULE MCRunStore ----------------------------
(* Values of the function-valued constants of RunStore, and its symmetries. *)
EXTENDS RunStore, TLC

MCBudget     == [c \in Counters |-> 2]
MCIncrements == [Counters -> 1 .. 2]
MCNone       == {}

Symmetry == Permutations(Runs) \cup Permutations(Executors)
=============================================================================
