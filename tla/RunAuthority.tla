---------------------------- MODULE RunAuthority ----------------------------
(***************************************************************************)
(* What the run database promises to its users, without leases, tokens,    *)
(* clocks or transactions: a run is worked on by at most one executor, at  *)
(* most MaxRunning runs are worked on at a time, only the owner settles a  *)
(* run it works on, and a closed run is opened again only as a new         *)
(* generation of itself.                                                   *)
(***************************************************************************)
EXTENDS Naturals, FiniteSets

CONSTANTS Runs, Executors, MaxRunning, Nobody

VARIABLES
  phase,       \* absent, open, asking (waits for its user), failed or closed
  generation,  \* how often the run was rewound
  owner        \* who works on it

vars == <<phase, generation, owner>>

Owned == {r \in Runs : owner[r] # Nobody}

Init ==
  /\ phase = [r \in Runs |-> "absent"]
  /\ generation = [r \in Runs |-> 0]
  /\ owner = [r \in Runs |-> Nobody]

Submit(r) ==
  /\ phase[r] = "absent"
  /\ phase' = [phase EXCEPT ![r] = "open"]
  /\ UNCHANGED <<generation, owner>>

Acquire(r, e) ==
  /\ phase[r] = "open"
  /\ owner[r] = Nobody
  /\ Cardinality(Owned) < MaxRunning
  /\ owner' = [owner EXCEPT ![r] = e]
  /\ UNCHANGED <<phase, generation>>

\* Owners may be lost at any time, several at once when their leases lapse together.
Lose(lost) ==
  /\ owner' = [r \in Runs |-> IF r \in lost THEN Nobody ELSE owner[r]]
  /\ UNCHANGED <<phase, generation>>

\* The owner ends its work: it asks the user, fails, or closes the run.
Settle(r, outcome) ==
  /\ phase[r] = "open"
  /\ owner[r] # Nobody
  /\ phase' = [phase EXCEPT ![r] = outcome]
  /\ owner' = [owner EXCEPT ![r] = Nobody]
  /\ UNCHANGED generation

\* Runs nobody works on run into their deadlines.
Expire(overdue) ==
  /\ \A r \in overdue : phase[r] \in {"open", "asking"} /\ owner[r] = Nobody
  /\ phase' = [r \in Runs |-> IF r \in overdue THEN "closed" ELSE phase[r]]
  /\ UNCHANGED <<generation, owner>>

\* The user cancels a run, whoever works on it.
Withdraw(r) ==
  /\ phase[r] \in {"open", "asking"}
  /\ phase' = [phase EXCEPT ![r] = "closed"]
  /\ owner' = [owner EXCEPT ![r] = Nobody]
  /\ UNCHANGED generation

\* The user answers, or retries after a failure.
Continue(r) ==
  /\ phase[r] \in {"asking", "failed"}
  /\ phase' = [phase EXCEPT ![r] = "open"]
  /\ UNCHANGED <<generation, owner>>

\* The user goes back to a checkpoint of a run that is at rest.
GoBack(r) ==
  /\ phase[r] \in {"asking", "failed", "closed"}
  /\ phase' = [phase EXCEPT ![r] = "open"]
  /\ generation' = [generation EXCEPT ![r] = @ + 1]
  /\ UNCHANGED owner

Next ==
  \/ \E r \in Runs : Submit(r) \/ Withdraw(r) \/ Continue(r) \/ GoBack(r)
  \/ \E r \in Runs, e \in Executors : Acquire(r, e)
  \/ \E r \in Runs, outcome \in {"asking", "failed", "closed"} : Settle(r, outcome)
  \/ \E some \in SUBSET Runs : Lose(some) \/ Expire(some)

Spec == Init /\ [][Next]_vars
=============================================================================
