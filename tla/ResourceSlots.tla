---------------------------- MODULE ResourceSlots ----------------------------
(***************************************************************************)
(* Admission to a scarce resource, agent_runtime/resources.py: slots are   *)
(* lock files shared by all processes of the host, tried one index after   *)
(* the other.  Before it may wait for a slot a caller takes one of the     *)
(* max_waiters places of the queue the same way; with none free it is      *)
(* refused.  Between two rounds a waiter asks its run whether it is still  *)
(* wanted.                                                                 *)
(***************************************************************************)
EXTENDS Naturals

CONSTANTS
  Users,         \* the executions that may want the resource, in any process of the host
  Capacity,      \* how many slots there are
  MaxWaiters     \* how many may wait

ASSUME SlotAssumption == Capacity \in Nat \ {0} /\ MaxWaiters \in Nat \ {0}

VARIABLES
  step,     \* where in slot() the user is
  index,    \* the lock file it tries next
  place,    \* the waiting place it has locked (0: none)
  slot      \* the slot it has locked (0: none)

slots == <<step, index, place, slot>>

Nobody == [u \in Users |-> 0]

SlotsInit ==
  /\ step = [u \in Users |-> "out"]
  /\ index = Nobody /\ place = Nobody /\ slot = Nobody

-----------------------------------------------------------------------------

Free(locks, i) == \A u \in Users : locks[u] # i

\* _try_slot: the next lock file is taken if it is free...
Take(u, locks) == Free(locks, index[u]) /\ locks' = [locks EXCEPT ![u] = index[u]]

\* ...and passed over if it is not.
PassOver(u, locks) ==
  /\ ~Free(locks, index[u])
  /\ index' = [index EXCEPT ![u] = @ + 1]
  /\ UNCHANGED <<step, place, slot>>

Ask(u) ==
  /\ step[u] = "out"
  /\ step' = [step EXCEPT ![u] = "placing"] /\ index' = [index EXCEPT ![u] = 1]
  /\ UNCHANGED <<place, slot>>

\* Variant: one waiting place more than max_waiters.
FindPlaceOffByOne(u) ==
  /\ step[u] = "placing" /\ index[u] <= MaxWaiters + 1
  /\ \/ /\ Take(u, place)
        /\ step' = [step EXCEPT ![u] = "waiting"] /\ index' = [index EXCEPT ![u] = 1]
        /\ UNCHANGED slot
     \/ PassOver(u, place)

FindPlace(u) ==
  /\ step[u] = "placing" /\ index[u] <= MaxWaiters
  /\ \/ /\ Take(u, place)
        /\ step' = [step EXCEPT ![u] = "waiting"] /\ index' = [index EXCEPT ![u] = 1]
        /\ UNCHANGED slot
     \/ PassOver(u, place)

\* Every place was taken when it was tried: RunConflict.
TurnedAway(u) ==
  /\ step[u] = "placing" /\ index[u] > MaxWaiters
  /\ step' = [step EXCEPT ![u] = "out"] /\ index' = [index EXCEPT ![u] = 0]
  /\ UNCHANGED <<place, slot>>

FindSlot(u) ==
  /\ step[u] = "waiting"
  /\ \/ /\ index[u] <= Capacity /\ Take(u, slot)
        /\ step' = [step EXCEPT ![u] = "admitted"]
        /\ UNCHANGED <<index, place>>
     \/ index[u] <= Capacity /\ PassOver(u, slot)
     \/ /\ index[u] > Capacity              \* a full round without success
        /\ index' = [index EXCEPT ![u] = 1]
        /\ UNCHANGED <<step, place, slot>>

Admit(u) ==
  /\ step[u] = "admitted"
  /\ step' = [step EXCEPT ![u] = "inside"] /\ index' = [index EXCEPT ![u] = 0]
  /\ place' = [place EXCEPT ![u] = 0]
  /\ UNCHANGED slot

\* Between the rounds a waiter checks its run, and again once it is admitted.
MayLeave(u) == step[u] \in {"admitted", "inside"} \/ (step[u] = "waiting" /\ index[u] = 1)

\* Variant: only the waiting place is given back.
LeaveKeepsSlot(u) ==
  /\ MayLeave(u)
  /\ step' = [step EXCEPT ![u] = "out"] /\ index' = [index EXCEPT ![u] = 0]
  /\ place' = [place EXCEPT ![u] = 0]
  /\ UNCHANGED slot

\* The finally clause, after the work or when the run's check raises.
Leave(u) ==
  /\ MayLeave(u)
  /\ step' = [step EXCEPT ![u] = "out"] /\ index' = [index EXCEPT ![u] = 0]
  /\ place' = [place EXCEPT ![u] = 0] /\ slot' = [slot EXCEPT ![u] = 0]

\* The operating system drops the locks of a process that dies with the executions D.
DropLocks(D) ==
  /\ step' = [u \in Users |-> IF u \in D THEN "out" ELSE step[u]]
  /\ index' = [u \in Users |-> IF u \in D THEN 0 ELSE index[u]]
  /\ place' = [u \in Users |-> IF u \in D THEN 0 ELSE place[u]]
  /\ slot' = [u \in Users |-> IF u \in D THEN 0 ELSE slot[u]]

\* One pass through slot().
UseSlot(u) == Ask(u) \/ FindPlace(u) \/ FindSlot(u) \/ Admit(u)

SlotsTypeOK ==
  /\ step \in [Users -> {"out", "placing", "waiting", "admitted", "inside"}]
  /\ index \in [Users -> 0 .. Capacity + MaxWaiters + 1]
  /\ place \in [Users -> 0 .. MaxWaiters]
  /\ slot \in [Users -> 0 .. Capacity]

=============================================================================
