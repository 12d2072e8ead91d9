--------------------------- MODULE MCRunTransport ---------------------------
(* The tables without columns for counters. *)
EXTENDS RunTransport

MCBudget == [c \in Counters |-> 0]

=============================================================================
