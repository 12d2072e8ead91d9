--------------------------- MODULE RunStoreProofs ---------------------------
(***************************************************************************)
(* What RunStore keeps for any number of runs, executors, calls and        *)
(* seconds: type correctness, and from it the limit on live leases, the    *)
(* single owner of a run and the result messages it puts in the outbox.    *)
(***************************************************************************)
EXTENDS RunStore, FiniteSetTheorems, TLAPS

-----------------------------------------------------------------------------
(* Type correctness.                                                        *)

\* The values that rows and executors start from are well typed.
LEMMA StartValues == AbsentRow \in Rows /\ IdleExec \in ExecStates /\ 0 \in Epochs
<1>1. 0 \in Epochs
  BY BoundAssumption DEF Epochs
<1>2. AbsentRow \in Rows
  BY <1>1 DEF AbsentRow, Rows, Status, NoToken, NullTime
<1>3. IdleExec \in ExecStates
  BY <1>1 DEF IdleExec, ExecStates, NoCalls, NoToken
<1> QED
  BY <1>1, <1>2, <1>3

\* However many runs were submitted, their number is a natural number.
LEMMA SubmittedCount == Cardinality({s \in Runs : row[s].status # "absent"}) \in Nat
  BY RunsAssumption, FS_Subset, FS_CardinalityType

\* One more of anything that is counted.
LEMMA CountUp ==
  ASSUME NEW S, NEW f \in [S -> Nat], NEW m
  PROVE  [f EXCEPT ![m] = @ + 1] \in [S -> Nat]
<1>1. CASE m \in S
  BY <1>1
<1>2. CASE m \notin S
  BY <1>2
<1> QED
  BY <1>1, <1>2

\* The initial state is well typed.
LEMMA TypeInit == Init => TypeOK
  BY StartValues DEF Init, TypeOK, Messages, Effects, IdleExec, NoThread, NoToken

\* Whatever a user does to a run, the columns keep their types.
LEMMA TypeUserStep ==
  ASSUME TypeOK, NEW r \in Runs, UserStep(r)
  PROVE  TypeOK'
<1>0. row \in [Runs -> Rows] /\ row[r] \in Rows /\ outbox \in [Messages -> Nat]
  BY DEF TypeOK
<1>1. ASSUME NEW transport \in Transports, Create(r, transport) PROVE TypeOK'
  <2> DEFINE new == [AbsentRow EXCEPT
               !.status = "queued", !.deadline = now + BudgetSeconds,
               !.created = Cardinality({s \in Runs : row[s].status # "absent"}),
               !.transport = transport]
  <2>1. new \in Rows
    <3>1. now + BudgetSeconds \in Nat
      BY TimeAssumption DEF TypeOK
    <3> QED
      BY <3>1, StartValues, SubmittedCount, TransportsAssumption DEF Rows, Status
  <2>2. row' \in [Runs -> Rows]
    BY <1>0, <1>1, <2>1 DEF Create
  <2>3. outbox' \in [Messages -> Nat]
    BY <1>0, <1>1, CountUp DEF Create, Enqueue
  <2> QED
    BY <1>1, <2>2, <2>3 DEF Create, ledger, TypeOK
<1>2. CASE Cancel(r)
  <2> DEFINE new == [row[r] EXCEPT !.status = "cancelled", !.token = NoToken]
  <2>1. new \in Rows
    BY <1>0 DEF Rows, Status, NoToken
  <2>2. row' = [row EXCEPT ![r] = new]
    BY <1>2 DEF Cancel
  <2>3. row' \in [Runs -> Rows]
    BY <1>0, <2>1, <2>2
  <2> QED
    BY <1>2, <2>3 DEF Cancel, ledger, TypeOK
<1>3. ASSUME NEW answer \in Answers, NEW notify \in Notify, Resume(r, answer, notify) PROVE TypeOK'
  <2> DEFINE new == [row[r] EXCEPT !.status = "queued", !.resume = answer]
  <2>1. new \in Rows
    BY <1>0 DEF Rows, Status
  <2>2. row' = [row EXCEPT ![r] = new]
    BY <1>3 DEF Resume
  <2>3. row' \in [Runs -> Rows]
    BY <1>0, <2>1, <2>2
  <2>4. outbox' \in [Messages -> Nat]
    BY <1>0, <1>3, CountUp DEF Resume, Enqueue
  <2> QED
    BY <1>3, <2>3, <2>4 DEF Resume, ledger, TypeOK
<1>4. ASSUME NEW notify \in Notify, Retry(r, notify) PROVE TypeOK'
  <2> DEFINE new == [row[r] EXCEPT !.status = "queued"]
  <2>1. new \in Rows
    BY <1>0 DEF Rows, Status
  <2>2. row' = [row EXCEPT ![r] = new]
    BY <1>4 DEF Retry
  <2>3. row' \in [Runs -> Rows]
    BY <1>0, <2>1, <2>2
  <2>4. outbox' \in [Messages -> Nat]
    BY <1>0, <1>4, CountUp DEF Retry, Enqueue
  <2> QED
    BY <1>4, <2>3, <2>4 DEF Retry, ledger, TypeOK
<1>5. ASSUME NEW checkpoint \in saved[r].writers, NEW notify \in Notify, Rewind(r, checkpoint, notify)
      PROVE  TypeOK'
  <2> DEFINE new == [row[r] EXCEPT !.epoch = row[r].epoch + 1, !.status = "queued",
                                   !.checkpoint = checkpoint, !.resume = NoAnswer,
                                   !.token = NoToken]
  <2>1. row[r].epoch \in Epochs /\ row[r].epoch + 1 \in Epochs /\ checkpoint \in Nat
    BY <1>0, <1>5, BoundAssumption DEF Rewind, Rows, Epochs, TypeOK
  <2>2. new \in Rows
    BY <1>0, <2>1 DEF Rows, Status, NoToken
  <2>3. row' = [row EXCEPT ![r] = new]
    BY <1>5 DEF Rewind
  <2>4. row' \in [Runs -> Rows]
    BY <1>0, <2>2, <2>3
  <2>5. outbox' \in [Messages -> Nat]
    BY <1>0, <1>5, CountUp DEF Rewind, Enqueue
  <2>6. pins' \in [Runs \X Epochs -> Revisions \cup {NoPin}]
    <3>1. pins[<<r, row[r].epoch>>] \in Revisions \cup {NoPin}
      BY <2>1 DEF TypeOK
    <3> QED
      BY <1>5, <2>1, <3>1 DEF Rewind, TypeOK
  <2> QED
    BY <1>5, <2>4, <2>5, <2>6 DEF Rewind, TypeOK
<1> QED
  BY <1>1, <1>2, <1>3, <1>4, <1>5 DEF UserStep

\* Claiming, from the reading of the clock to the reading of the row.
LEMMA TypeClaim ==
  ASSUME TypeOK, NEW e \in Executors,
         \/ \E r \in Runs, want \in Wanted : BeginClaim(e, r, want)
         \/ ClaimStep(e)
         \/ ReadRow(e)
  PROVE  TypeOK'
<1> DEFINE r == exec[e].run
<1>0. /\ exec \in [Executors -> ExecStates] /\ exec[e] \in ExecStates
      /\ row \in [Runs -> Rows] /\ outbox \in [Messages -> Nat] /\ now \in Nat
  BY DEF TypeOK
<1>1. ASSUME NEW s \in Runs, NEW want \in Wanted, BeginClaim(e, s, want) PROVE TypeOK'
  <2> DEFINE new == [IdleExec EXCEPT !.pc = "claiming", !.run = s, !.epoch = want, !.clock = now]
  <2>1. new \in ExecStates
    BY <1>0, StartValues DEF ExecStates, Wanted
  <2>2. exec' = [exec EXCEPT ![e] = new]
    BY <1>1 DEF BeginClaim
  <2>3. /\ exec' \in [Executors -> ExecStates]
        /\ exec'[e].run \in Runs /\ exec'[e].clock <= now
        /\ \A d \in Executors : d # e => exec'[d] = exec[d]
    BY <1>0, <2>1, <2>2 DEF IdleExec
  <2> QED
    BY <1>1, <2>3 DEF BeginClaim, ledger, TypeOK
<1>2. ASSUME exec[e].pc = "claiming" PROVE r \in Runs /\ row[r] \in Rows
  BY <1>2 DEF TypeOK
<1>3. ASSUME exec' = [exec EXCEPT ![e] = IdleExec]
      PROVE  /\ exec' \in [Executors -> ExecStates]
             /\ exec'[e].pc = "idle"
             /\ \A d \in Executors : d # e => exec'[d] = exec[d]
  BY <1>0, <1>3, StartValues DEF IdleExec
<1>4. CASE ClaimRefused(e)
  BY <1>3, <1>4 DEF ClaimRefused, ledger, TypeOK
<1>5. CASE ClaimExpired(e)
  <2> DEFINE new == [row[r] EXCEPT !.status = "timed_out"]
  <2>1. new \in Rows
    BY <1>2, <1>5 DEF ClaimExpired, Rows, Status
  <2>2. row' = [row EXCEPT ![r] = new]
    BY <1>5 DEF ClaimExpired
  <2>3. row' \in [Runs -> Rows]
    BY <1>0, <2>1, <2>2
  <2>4. outbox' \in [Messages -> Nat]
    BY <1>0, <1>5, CountUp DEF ClaimExpired, Enqueue
  <2> QED
    BY <1>3, <1>5, <2>3, <2>4 DEF ClaimExpired, ledger, TypeOK
<1>6. CASE ClaimGranted(e)
  <2> DEFINE new == [row[r] EXCEPT !.status = "running", !.token = nextToken,
                                   !.until = exec[e].clock + LeaseSeconds]
             mine == [IdleExec EXCEPT !.pc = "claimed", !.run = r, !.token = nextToken]
  <2>1. exec[e].clock + LeaseSeconds \in Nat /\ nextToken \in Nat
    BY <1>0, TimeAssumption DEF ExecStates, TypeOK
  <2>2. new \in Rows
    BY <1>2, <1>6, <2>1 DEF ClaimGranted, Rows, Status
  <2>3. row' = [row EXCEPT ![r] = new]
    BY <1>6 DEF ClaimGranted
  <2>4. row' \in [Runs -> Rows]
    BY <1>0, <2>2, <2>3
  <2>5. mine \in ExecStates
    BY <1>2, <1>6, <2>1, StartValues DEF ClaimGranted, ExecStates
  <2>6. /\ exec' \in [Executors -> ExecStates]
        /\ exec'[e].run \in Runs /\ exec'[e].clock <= now
        /\ \A d \in Executors : d # e => exec'[d] = exec[d]
    BY <1>0, <1>2, <1>6, <2>5 DEF ClaimGranted, IdleExec
  <2> QED
    BY <1>6, <2>1, <2>4, <2>6 DEF ClaimGranted, ledger, TypeOK
<1>7. CASE ReadRow(e)
  <2> DEFINE new == [exec[e] EXCEPT !.pc = "running", !.epoch = row[r].epoch]
  <2>1. r \in Runs /\ exec[e].clock <= now
    BY <1>7 DEF ReadRow, TypeOK
  <2>2. row[r].epoch \in Epochs
    BY <1>0, <2>1 DEF Rows
  <2>3. new \in ExecStates
    BY <1>0, <2>2 DEF ExecStates
  <2>4. exec' = [exec EXCEPT ![e] = new]
    BY <1>7 DEF ReadRow
  <2>5. /\ exec' \in [Executors -> ExecStates]
        /\ exec'[e].run \in Runs /\ exec'[e].clock <= now
        /\ \A d \in Executors : d # e => exec'[d] = exec[d]
    BY <1>0, <2>1, <2>3, <2>4 DEF ExecStates
  <2> QED
    BY <1>7, <2>5 DEF ReadRow, ledger, TypeOK
<1> QED
  BY <1>1, <1>4, <1>5, <1>6, <1>7 DEF ClaimStep

\* What an executor past its claim writes, into the rows and into the ledgers.
LEMMA TypeOwnerStep ==
  ASSUME TypeOK, NEW e \in Executors, OwnerStep(e)
  PROVE  TypeOK'
<1> DEFINE r == exec[e].run
<1>0. /\ exec \in [Executors -> ExecStates] /\ exec[e] \in ExecStates
      /\ row \in [Runs -> Rows] /\ now \in Nat
  BY DEF TypeOK
<1>1. r \in Runs /\ row[r] \in Rows /\ exec[e].pc = "running" /\ exec[e].clock <= now
  <2>1. exec[e].pc = "running"
    BY DEF OwnerStep, Heartbeat, Consume, PutCheckpoint, SetCheckpoint, BeginEffect,
           CallTool, EndEffect, Active, HoldsLease
  <2> QED
    BY <2>1 DEF TypeOK
<1>2. ASSUME NEW c \in Calls, NEW mark \in {"none", "begun", "called"},
             exec' = [exec EXCEPT ![e].calls[c] = mark]
      PROVE  /\ exec' \in [Executors -> ExecStates]
             /\ exec'[e].run \in Runs /\ exec'[e].clock <= now
             /\ \A d \in Executors : d # e => exec'[d] = exec[d]
  <2> DEFINE new == [exec[e] EXCEPT !.calls = [exec[e].calls EXCEPT ![c] = mark]]
  <2>1. new \in ExecStates
    BY <1>0 DEF ExecStates
  <2>2. exec' = [exec EXCEPT ![e] = new]
    BY <1>0, <1>2
  <2> QED
    BY <1>0, <1>1, <2>1, <2>2 DEF ExecStates
<1>3. CASE Heartbeat(e)
  <2> DEFINE new == [row[r] EXCEPT !.until = now + LeaseSeconds]
  <2>1. new \in Rows
    BY <1>0, <1>1, TimeAssumption DEF Rows
  <2>2. row' = [row EXCEPT ![r] = new]
    BY <1>3 DEF Heartbeat
  <2>3. row' \in [Runs -> Rows]
    BY <1>0, <2>1, <2>2
  <2> QED
    BY <1>3, <2>3 DEF Heartbeat, ledger, TypeOK
<1>4. ASSUME NEW inc \in Increments, Consume(e, inc) PROVE TypeOK'
  <2> DEFINE used == row[r].usage
             new == [row[r] EXCEPT !.usage = [c \in Counters |-> used[c] + inc[c]]]
  <2>1. used \in [Counters -> Nat] /\ inc \in [Counters -> Nat]
    BY <1>1, BudgetAssumption DEF Rows
  <2>2. [c \in Counters |-> used[c] + inc[c]] \in [Counters -> Nat]
    BY <2>1
  <2>3. new \in Rows
    BY <1>1, <2>2 DEF Rows
  <2>4. row' = [row EXCEPT ![r] = new]
    BY <1>4 DEF Consume
  <2>5. row' \in [Runs -> Rows]
    BY <1>0, <2>3, <2>4
  <2> QED
    BY <1>4, <2>5 DEF Consume, ledger, TypeOK
<1>5. CASE PutCheckpoint(e)
  <2> DEFINE new == [writers |-> saved[r].writers \cup {exec[e].token}, last |-> exec[e].token]
  <2>1. new \in [writers : SUBSET Nat, last : Nat]
    BY <1>0, <1>1 DEF ExecStates, TypeOK
  <2>2. saved' = [saved EXCEPT ![r] = new]
    BY <1>5 DEF PutCheckpoint
  <2>3. saved' \in [Runs -> [writers : SUBSET Nat, last : Nat]]
    BY <2>1, <2>2 DEF TypeOK
  <2> QED
    BY <1>5, <2>3 DEF PutCheckpoint, ledger, TypeOK
<1>6. CASE SetCheckpoint(e)
  <2> DEFINE new == [row[r] EXCEPT !.checkpoint = saved[r].last]
  <2>1. new \in Rows
    BY <1>0, <1>1 DEF Rows, TypeOK
  <2>2. row' = [row EXCEPT ![r] = new]
    BY <1>6 DEF SetCheckpoint
  <2>3. row' \in [Runs -> Rows]
    BY <1>0, <2>1, <2>2
  <2> QED
    BY <1>6, <2>3 DEF SetCheckpoint, ledger, TypeOK
<1>7. ASSUME NEW c \in Calls, BeginEffect(e, c) PROVE TypeOK'
  <2>1. effects' \in [Effects -> {"none", "started", "failed", "done"}]
    BY <1>7 DEF BeginEffect, TypeOK
  <2>2. exec' = [exec EXCEPT ![e].calls[c] = "begun"]
    BY <1>7 DEF BeginEffect
  <2> QED
    BY <1>2, <1>7, <2>1, <2>2 DEF BeginEffect, TypeOK
<1>8. ASSUME NEW c \in Calls, CallTool(e, c) PROVE TypeOK'
  <2>1. bodies' \in [Effects -> Nat]
    BY <1>8, CountUp DEF CallTool, TypeOK
  <2>2. exec' = [exec EXCEPT ![e].calls[c] = "called"]
    BY <1>8 DEF CallTool
  <2> QED
    BY <1>2, <1>8, <2>1, <2>2 DEF CallTool, TypeOK
<1>9. ASSUME NEW c \in Calls, NEW outcome \in {"done", "failed"}, EndEffect(e, c, outcome)
       PROVE  TypeOK'
  <2>1. effects' \in [Effects -> {"none", "started", "failed", "done"}]
    BY <1>9 DEF EndEffect, TypeOK
  <2>2. exec' = [exec EXCEPT ![e].calls[c] = "none"]
    BY <1>9 DEF EndEffect
  <2> QED
    BY <1>2, <1>9, <2>1, <2>2 DEF EndEffect, TypeOK
<1> QED
  BY <1>3, <1>4, <1>5, <1>6, <1>7, <1>8, <1>9 DEF OwnerStep

\* The end of an execution, by a verdict, a rejected verdict or a crash.
LEMMA TypeEnd ==
  ASSUME TypeOK, NEW e \in Executors, FinishStep(e) \/ Crash(e)
  PROVE  TypeOK'
<1> DEFINE r == exec[e].run
<1>1. /\ exec' \in [Executors -> ExecStates]
      /\ exec'[e].pc = "idle"
      /\ \A d \in Executors : d # e => exec'[d] = exec[d]
  <2>1. exec' = [exec EXCEPT ![e] = IdleExec]
    BY DEF FinishStep, Finish, FinishRejected, Crash
  <2> QED
    BY <2>1, StartValues DEF TypeOK, IdleExec
<1>2. ASSUME NEW verdict \in Verdicts, Finish(e, verdict) PROVE TypeOK'
  <2> DEFINE new == [row[r] EXCEPT !.status = verdict, !.token = NoToken, !.until = NullTime]
  <2>1. r \in Runs /\ row[r] \in Rows
    BY <1>2 DEF Finish, HoldsLease, TypeOK
  <2>2. new \in Rows
    BY <2>1 DEF Rows, Status, Verdicts, NoToken, NullTime
  <2>3. row' = [row EXCEPT ![r] = new]
    BY <1>2 DEF Finish
  <2>4. row' \in [Runs -> Rows]
    BY <2>2, <2>3 DEF TypeOK
  <2>5. outbox' \in [Messages -> Nat]
    BY <1>2, CountUp DEF Finish, Enqueue, TypeOK
  <2> QED
    BY <1>1, <1>2, <2>4, <2>5 DEF Finish, ledger, TypeOK
<1>3. CASE FinishRejected(e) \/ Crash(e)
  BY <1>1, <1>3 DEF FinishRejected, Crash, ledger, TypeOK
<1> QED
  BY <1>2, <1>3 DEF FinishStep

\* Maintenance: expired waiters, acknowledged messages, and time itself.
LEMMA TypeMaintenance ==
  ASSUME TypeOK, ExpireWaiting \/ (\E m \in Messages : Acknowledge(m)) \/ Tick
  PROVE  TypeOK'
<1>1. CASE ExpireWaiting
  <2>1. ASSUME NEW r \in Runs PROVE [row[r] EXCEPT !.status = "timed_out"] \in Rows /\ row[r] \in Rows
    <3>1. row[r] \in Rows
      BY DEF TypeOK
    <3> QED
      BY <3>1 DEF Rows, Status
  <2>2. row' \in [Runs -> Rows]
    BY <1>1, <2>1 DEF ExpireWaiting
  <2>3. outbox' \in [Messages -> Nat]
    BY <1>1 DEF ExpireWaiting, TypeOK
  <2> QED
    BY <1>1, <2>2, <2>3 DEF ExpireWaiting, ledger, TypeOK
<1>2. ASSUME NEW m \in Messages, Acknowledge(m) PROVE TypeOK'
  <2>1. outbox' \in [Messages -> Nat]
    BY <1>2 DEF Acknowledge, TypeOK
  <2> QED
    BY <1>2, <2>1 DEF Acknowledge, ledger, TypeOK
<1>3. CASE Tick
  <2>1. \A e \in Executors : exec[e].clock \in Nat
    BY DEF TypeOK, ExecStates
  <2> QED
    BY <1>3, <2>1 DEF Tick, ledger, TypeOK
<1> QED
  BY <1>1, <1>2, <1>3

\* Every step keeps the types.
LEMMA TypeNext == TypeOK /\ [Next]_vars => TypeOK'
<1> SUFFICES ASSUME TypeOK, [Next]_vars PROVE TypeOK'
  OBVIOUS
<1>1. CASE UNCHANGED vars
  BY <1>1 DEF vars, TypeOK
<1>2. CASE Next
  BY <1>2, TypeUserStep, TypeClaim, TypeOwnerStep, TypeEnd, TypeMaintenance DEF Next
<1> QED
  BY <1>1, <1>2

\* Type correctness of the run database: the columns always hold values of their types,
\* an executor past its claim names a run, and no clock reading lies in the future.
THEOREM TypeCorrect == Spec => []TypeOK
<1> QED
  BY TypeInit, TypeNext, PTL DEF Spec

-----------------------------------------------------------------------------
(* The limit on running runs.                                               *)

\* The runs that hold a live lease at time t.
Live(t) == {r \in Runs : LiveAt(r, t)}

\* Fewer runs cannot exceed the limit.
LEMMA FewerLive ==
  ASSUME NEW S \in SUBSET Runs, NEW T \in SUBSET S, Cardinality(S) <= MaxRunning
  PROVE  Cardinality(T) <= MaxRunning
<1>1. IsFiniteSet(S) /\ IsFiniteSet(T) /\ Cardinality(T) <= Cardinality(S)
  BY RunsAssumption, FS_Subset
<1>2. Cardinality(S) \in Nat /\ Cardinality(T) \in Nat
  BY <1>1, FS_CardinalityType
<1> QED
  BY <1>1, <1>2, TimeAssumption

\* The limit survives every step: a lease is granted only while fewer than MaxRunning
\* other leases were live at the claim's clock, and those include all that are live now.
LEMMA LimitNext == TypeOK /\ TypeOK' /\ RunningLimit /\ [Next]_vars => RunningLimit'
<1> SUFFICES ASSUME TypeOK, TypeOK', RunningLimit, [Next]_vars PROVE RunningLimit'
  OBVIOUS
<1> DEFINE L == Live(now)
<1>0. Cardinality(L) <= MaxRunning /\ L \in SUBSET Runs
  BY DEF RunningLimit, Live
<1>1. SUFFICES ASSUME ~(Live(now)' \subseteq L) PROVE Cardinality(Live(now)') <= MaxRunning
  BY <1>0, FewerLive DEF RunningLimit, Live
<1>2. ASSUME NEW e \in Executors, ClaimGranted(e) PROVE Cardinality(Live(now)') <= MaxRunning
  <2> DEFINE r == exec[e].run
             Others == {s \in Runs \ {r} : LiveAt(s, exec[e].clock)}
  <2>1. r \in Runs /\ exec[e].clock \in Nat /\ exec[e].clock <= now /\ now \in Nat
    BY <1>2 DEF ClaimGranted, TypeOK, ExecStates
  <2>2. IsFiniteSet(Others) /\ Cardinality(Others) \in Nat /\ Cardinality(Others) < MaxRunning
    BY <1>2, RunsAssumption, FS_Subset, FS_CardinalityType DEF ClaimGranted, RoomToRun
  <2>3. Cardinality(Others \cup {r}) = Cardinality(Others) + 1
    BY <2>2, FS_AddElement
  <2>4. Live(now)' \subseteq Others \cup {r}
    <3>1. ASSUME NEW s \in Runs \ {r}, LiveAt(s, now)' PROVE LiveAt(s, exec[e].clock)
      <4>1. row'[s] = row[s] /\ row[s].until \in Nat /\ now' = now
        BY <1>2, <2>1, <3>1 DEF ClaimGranted, TypeOK, Rows
      <4> QED
        BY <2>1, <3>1, <4>1 DEF LiveAt
    <3> QED
      BY <3>1 DEF Live
  <2>5. Cardinality(Others \cup {r}) <= MaxRunning
    BY <2>2, <2>3, TimeAssumption
  <2> QED
    BY <2>1, <2>4, <2>5, FewerLive
<1>3. ASSUME NEW e \in Executors, Heartbeat(e) PROVE FALSE
  <2>1. LiveAt(exec[e].run, now) /\ exec[e].run \in Runs
    BY <1>3 DEF Heartbeat, Active, HoldsLease, TypeOK
  <2>2. \A s \in Runs : s # exec[e].run => row'[s] = row[s]
    BY <1>3 DEF Heartbeat, TypeOK
  <2> QED
    BY <1>1, <1>3, <2>1, <2>2 DEF Heartbeat, Live, LiveAt
<1>4. ASSUME UNCHANGED <<row, now>> PROVE FALSE
  BY <1>1, <1>4 DEF Live, LiveAt
<1>5. ASSUME \A s \in Runs : row'[s].status = "running" =>
               row[s].status = "running" /\ row'[s].until = row[s].until,
             now' >= now
      PROVE  FALSE
  <2>1. \A s \in Runs : row[s].until \in Nat
    BY DEF TypeOK, Rows
  <2> QED
    BY <1>1, <1>5, <2>1 DEF Live, LiveAt, TypeOK
<1>6. ASSUME NEW r \in Runs, UserStep(r) PROVE FALSE
  <2>1. now' = now /\ now \in Nat
    BY <1>6 DEF UserStep, Create, Cancel, Resume, Retry, Rewind, TypeOK
  <2>2. /\ \A s \in Runs : s # r => row'[s] = row[s]
        /\ row'[r].status \in {"queued", "cancelled"}
    <3>1. CASE \E transport \in Transports : Create(r, transport)
      BY <3>1 DEF Create, AbsentRow, TypeOK
    <3>2. CASE Cancel(r)
      BY <3>2 DEF Cancel, TypeOK, Rows
    <3>3. CASE \/ \E answer \in Answers, notify \in Notify : Resume(r, answer, notify)
               \/ \E notify \in Notify : Retry(r, notify)
      BY <3>3 DEF Resume, Retry, TypeOK, Rows
    <3>4. CASE \E checkpoint \in saved[r].writers, notify \in Notify : Rewind(r, checkpoint, notify)
      BY <3>4 DEF Rewind, TypeOK, Rows
    <3> QED
      BY <1>6, <3>1, <3>2, <3>3, <3>4 DEF UserStep
  <2> QED
    BY <1>5, <2>1, <2>2
<1>7. ASSUME NEW e \in Executors, ClaimExpired(e) PROVE FALSE
  BY <1>5, <1>7 DEF ClaimExpired, TypeOK
<1>8. ASSUME NEW e \in Executors,
             \/ \E inc \in Increments : Consume(e, inc)
             \/ SetCheckpoint(e)
             \/ \E verdict \in Verdicts : Finish(e, verdict)
      PROVE  FALSE
  <2> DEFINE r == exec[e].run
  <2>1. now' = now /\ now \in Nat
    BY <1>8 DEF Consume, SetCheckpoint, Finish, TypeOK
  <2>2. r \in Runs /\ row[r] \in Rows /\ row[r].status = "running"
    BY <1>8 DEF Consume, SetCheckpoint, Finish, Active, HoldsLease, LiveAt, TypeOK
  <2>3. \A s \in Runs : s # r => row'[s] = row[s]
    BY <1>8 DEF Consume, SetCheckpoint, Finish, TypeOK
  <2>4. CASE \/ \E inc \in Increments : Consume(e, inc)
             \/ SetCheckpoint(e)
    <3>1. row \in [Runs -> Rows]
      BY DEF TypeOK
    <3>2. row'[r].until = row[r].until
      BY <2>2, <2>4, <3>1 DEF Consume, SetCheckpoint, Rows
    <3> QED
      BY <1>5, <2>1, <2>2, <2>3, <3>2
  <2>5. CASE \E verdict \in Verdicts : Finish(e, verdict)
    <3>1. row'[r].status # "running"
      BY <2>2, <2>5 DEF Finish, Verdicts, TypeOK, Rows
    <3> QED
      BY <1>5, <2>1, <2>3, <3>1
  <2> QED
    BY <1>8, <2>4, <2>5
<1>9. CASE ExpireWaiting \/ Tick
  <2>1. now \in Nat /\ now' >= now
    BY <1>9 DEF ExpireWaiting, Tick, TypeOK
  <2>2. ASSUME NEW s \in Runs PROVE row'[s] = row[s] \/ row'[s].status = "timed_out"
    <3>1. row[s] \in Rows
      BY DEF TypeOK
    <3> QED
      BY <1>9, <3>1 DEF ExpireWaiting, Tick, Rows
  <2> QED
    BY <1>5, <2>1, <2>2
<1>10. ASSUME NEW e \in Executors,
              \/ \E r \in Runs, want \in Wanted : BeginClaim(e, r, want)
              \/ ClaimRefused(e) \/ ReadRow(e) \/ FinishRejected(e) \/ Crash(e)
              \/ PutCheckpoint(e)
              \/ \E c \in Calls : BeginEffect(e, c) \/ CallTool(e, c)
              \/ \E c \in Calls, outcome \in {"done", "failed"} : EndEffect(e, c, outcome)
       PROVE  FALSE
  BY <1>4, <1>10 DEF BeginClaim, ClaimRefused, ReadRow, FinishRejected, Crash, PutCheckpoint,
                     BeginEffect, CallTool, EndEffect
<1>11. CASE UNCHANGED vars
  BY <1>4, <1>11 DEF vars
<1>12. ASSUME NEW m \in Messages, Acknowledge(m) PROVE FALSE
  BY <1>4, <1>12 DEF Acknowledge
<1> QED
  BY <1>2, <1>3, <1>6, <1>7, <1>8, <1>9, <1>10, <1>11, <1>12
  DEF Next, ClaimStep, OwnerStep, FinishStep

\* Before the first run nothing is live.
LEMMA LimitInit == Init => RunningLimit
<1>1. Init => {r \in Runs : LiveAt(r, now)} = {}
  BY DEF Init, LiveAt, AbsentRow
<1> QED
  BY <1>1, FS_EmptySet, TimeAssumption DEF RunningLimit

\* At no time do more than MaxRunning runs hold a live lease.
THEOREM LimitKept == Spec => []RunningLimit
  BY LimitInit, TypeCorrect, LimitNext, PTL DEF Spec

-----------------------------------------------------------------------------
(* The single owner of a run.                                               *)

\* Lease tokens in the hands of executors are all different and were all handed out.
\* SoleOwner is not inductive alone: it follows because a row holds one token.
TokensUnique ==
  /\ \A e \in Executors : exec[e].token < nextToken
  /\ \A e \in Executors : exec[e].pc \in {"claimed", "running"} => exec[e].token # NoToken
  /\ \A e1, e2 \in Executors :
       exec[e1].token = exec[e2].token /\ exec[e1].token # NoToken => e1 = e2

\* A step hands out at most the next token, and to one executor only.
LEMMA TokensNext == TypeOK /\ TokensUnique /\ [Next]_vars => TokensUnique'
<1> SUFFICES ASSUME TypeOK, TokensUnique, [Next]_vars PROVE TokensUnique'
  OBVIOUS
<1>0. nextToken \in Nat \ {0} /\ \A e \in Executors : exec[e] \in ExecStates /\ exec[e].token \in Nat
  BY DEF TypeOK, ExecStates
<1>1. ASSUME nextToken' = nextToken,
             \A e \in Executors : \/ exec'[e].token = exec[e].token
                                     /\ \/ exec'[e].pc = exec[e].pc
                                        \/ exec[e].pc \in {"claimed", "running"}
                                  \/ exec'[e].token = NoToken
                                     /\ exec'[e].pc \in {"idle", "claiming"}
      PROVE  TokensUnique'
  BY <1>0, <1>1 DEF TokensUnique, NoToken
<1>2. ASSUME NEW e \in Executors, ClaimGranted(e) PROVE TokensUnique'
  <2>1. /\ exec'[e].token = nextToken /\ exec'[e].pc = "claimed" /\ nextToken' = nextToken + 1
        /\ \A d \in Executors : d # e => exec'[d] = exec[d]
    BY <1>2 DEF ClaimGranted, IdleExec, TypeOK
  <2> QED
    BY <1>0, <2>1 DEF TokensUnique, NoToken
<1>3. ASSUME NEW e \in Executors, NEW r \in Runs, NEW want \in Wanted, BeginClaim(e, r, want)
      PROVE  TokensUnique'
  BY <1>1, <1>3 DEF BeginClaim, IdleExec, TypeOK
<1>4. ASSUME NEW e \in Executors, exec' = [exec EXCEPT ![e] = IdleExec], nextToken' = nextToken
      PROVE  TokensUnique'
  BY <1>1, <1>4 DEF IdleExec, TypeOK
<1>5. ASSUME NEW e \in Executors,
             ClaimRefused(e) \/ ClaimExpired(e) \/ FinishStep(e) \/ Crash(e)
      PROVE  TokensUnique'
  BY <1>4, <1>5 DEF ClaimRefused, ClaimExpired, FinishStep, Finish, FinishRejected, Crash
<1>6. ASSUME NEW e \in Executors, ReadRow(e) PROVE TokensUnique'
  <2>1. /\ exec'[e].token = exec[e].token /\ exec[e].pc = "claimed"
        /\ \A d \in Executors : d # e => exec'[d] = exec[d]
    BY <1>0, <1>6 DEF ReadRow, TypeOK, ExecStates
  <2> QED
    BY <1>1, <1>6, <2>1 DEF ReadRow
<1>7. ASSUME NEW e \in Executors, OwnerStep(e) PROVE TokensUnique'
  <2>1. nextToken' = nextToken
    BY <1>7 DEF OwnerStep, Heartbeat, Consume, PutCheckpoint, SetCheckpoint, BeginEffect,
                CallTool, EndEffect
  <2>2. CASE UNCHANGED exec
    BY <1>1, <2>1, <2>2
  <2>3. ASSUME NEW c \in Calls, NEW mark, exec' = [exec EXCEPT ![e].calls[c] = mark]
        PROVE  TokensUnique'
    <3>1. \A d \in Executors : exec'[d].token = exec[d].token /\ exec'[d].pc = exec[d].pc
      BY <1>0, <2>3 DEF TypeOK, ExecStates
    <3> QED
      BY <1>1, <2>1, <3>1
  <2> QED
    BY <1>7, <2>2, <2>3
    DEF OwnerStep, Heartbeat, Consume, PutCheckpoint, SetCheckpoint, BeginEffect,
        CallTool, EndEffect
<1>8. CASE UNCHANGED <<exec, nextToken>>
  BY <1>1, <1>8
<1>9. ASSUME NEW r \in Runs, UserStep(r) PROVE TokensUnique'
  BY <1>8, <1>9 DEF UserStep, Create, Cancel, Resume, Retry, Rewind
<1>10. CASE ExpireWaiting \/ (\E m \in Messages : Acknowledge(m)) \/ Tick \/ UNCHANGED vars
  BY <1>8, <1>10 DEF ExpireWaiting, Acknowledge, Tick, vars
<1> QED
  BY <1>2, <1>3, <1>5, <1>6, <1>7, <1>9, <1>10 DEF Next, ClaimStep

\* No token is out before the first claim.
LEMMA TokensInit == Init => TokensUnique
  BY DEF Init, IdleExec, TokensUnique, NoToken

\* A row holds one token, and one executor has it.
LEMMA OneHolder == TokensUnique => SoleOwner
  BY DEF TokensUnique, SoleOwner, HoldsLease

\* The tokens of a correct run database are unique at all times.
LEMMA TokensKept == Spec => []TokensUnique
  BY TokensInit, TypeCorrect, TokensNext, PTL DEF Spec

\* A run has at most one executor whose verdict finish would accept.
THEOREM OneOwner == Spec => []SoleOwner
  BY OneHolder, TokensKept, PTL

-----------------------------------------------------------------------------
(* The outbox.                                                              *)

\* One more message of run r's epoch i about its result.
Told(r, i) == outbox'[<<"result", r, i>>] > outbox[<<"result", r, i>>]

\* The transaction ends the work on epoch i of run r, which came from Kafka.
EpochEnds(r, i) ==
  /\ row[r].transport = "kafka" /\ row[r].epoch = i
  /\ row'[r].status # row[r].status /\ row'[r].status \in Announced

\* A service either names the topic or it does not.
LEMMA NotifyTruth == Notify \subseteq BOOLEAN
<1>1. Kafka \in BOOLEAN
  BY DEF Kafka
<1> QED
  BY <1>1 DEF Notify

\* _enqueue adds the message it is given, when it is to send at all, and no other.
LEMMA EnqueueOne ==
  ASSUME TypeOK, NEW send \in BOOLEAN, NEW topic \in {"pending", "result"},
         NEW s \in Runs, NEW epoch \in Epochs, Enqueue(send, topic, s, epoch),
         NEW r \in Runs, NEW i \in Epochs
  PROVE  Told(r, i) <=> send /\ topic = "result" /\ s = r /\ epoch = i
<1> DEFINE new == <<topic, s, epoch>>
<1> DEFINE k == <<"result", r, i>>
<1>1. outbox \in [Messages -> Nat] /\ new \in Messages /\ k \in Messages
  BY DEF TypeOK, Messages
<1>2. CASE ~send
  BY <1>1, <1>2 DEF Enqueue, Told
<1>3. CASE send
  <2>1. outbox' = [outbox EXCEPT ![new] = @ + 1]
    BY <1>3 DEF Enqueue
  <2>2. CASE new = k
    <3>1. outbox'[k] = outbox[k] + 1 /\ outbox[k] \in Nat
      BY <1>1, <2>1, <2>2
    <3>2. topic = "result" /\ s = r /\ epoch = i
      BY <2>2
    <3> QED
      BY <1>3, <3>1, <3>2 DEF Told
  <2>3. CASE new # k
    <3>1. outbox'[k] = outbox[k] /\ outbox[k] \in Nat
      BY <1>1, <2>1, <2>3
    <3>2. ~(topic = "result" /\ s = r /\ epoch = i)
      BY <2>3
    <3> QED
      BY <1>3, <3>1, <3>2 DEF Told
  <2> QED
    BY <2>2, <2>3
<1> QED
  BY <1>2, <1>3

\* A step that leaves the outbox alone, or sends from it, tells nothing.
LEMMA NothingTold ==
  ASSUME TypeOK, UNCHANGED outbox \/ \E m \in Messages : Acknowledge(m),
         NEW r \in Runs, NEW i \in Epochs
  PROVE  ~Told(r, i)
<1> DEFINE k == <<"result", r, i>>
<1>1. outbox \in [Messages -> Nat] /\ k \in Messages
  BY DEF TypeOK, Messages
<1>2. outbox[k] \in Nat
  BY <1>1
<1>3. CASE UNCHANGED outbox
  BY <1>2, <1>3 DEF Told
<1>4. ASSUME NEW m \in Messages, Acknowledge(m) PROVE ~Told(r, i)
  BY <1>1, <1>2, <1>4 DEF Acknowledge, Told
<1> QED
  BY <1>3, <1>4

\* Users open runs and cancel them: nothing ends that would be announced.
LEMMA UsersTellNothing ==
  ASSUME TypeOK, NEW s \in Runs, UserStep(s), NEW r \in Runs, NEW i \in Epochs
  PROVE  ~Told(r, i) /\ ~EpochEnds(r, i)
<1>0. row \in [Runs -> Rows] /\ row[s] \in Rows /\ row[s].epoch \in Epochs /\ 0 \in Epochs
  BY StartValues DEF TypeOK, Rows
<1>1. ASSUME NEW transport \in Transports, Create(s, transport)
      PROVE  ~Told(r, i) /\ ~EpochEnds(r, i)
  <2>0. (transport = "kafka") \in BOOLEAN
    OBVIOUS
  <2>1. Enqueue(transport = "kafka", "pending", s, 0)
    BY <1>1 DEF Create
  <2>2. ~Told(r, i)
    BY <1>0, <2>0, <2>1, EnqueueOne
  <2>3. row'[r].status = IF r = s THEN "queued" ELSE row[r].status
    BY <1>0, <1>1 DEF Create, AbsentRow
  <2> QED
    BY <2>2, <2>3 DEF EpochEnds, Announced
<1>2. CASE Cancel(s)
  BY <1>0, <1>2, NothingTold DEF Cancel, EpochEnds, Announced
<1>3. ASSUME NEW answer \in Answers, NEW notify \in Notify, Resume(s, answer, notify)
      PROVE  ~Told(r, i) /\ ~EpochEnds(r, i)
  <2>0. notify \in BOOLEAN
    BY NotifyTruth
  <2>1. Enqueue(notify, "pending", s, row[s].epoch)
    BY <1>3 DEF Resume
  <2>2. ~Told(r, i)
    BY <1>0, <2>0, <2>1, EnqueueOne
  <2>3. row'[r].status = IF r = s THEN "queued" ELSE row[r].status
    BY <1>0, <1>3 DEF Resume
  <2> QED
    BY <2>2, <2>3 DEF EpochEnds, Announced
<1>4. ASSUME NEW notify \in Notify, Retry(s, notify)
      PROVE  ~Told(r, i) /\ ~EpochEnds(r, i)
  <2>0. notify \in BOOLEAN
    BY NotifyTruth
  <2>1. Enqueue(notify, "pending", s, row[s].epoch)
    BY <1>4 DEF Retry
  <2>2. ~Told(r, i)
    BY <1>0, <2>0, <2>1, EnqueueOne
  <2>3. row'[r].status = IF r = s THEN "queued" ELSE row[r].status
    BY <1>0, <1>4 DEF Retry
  <2> QED
    BY <2>2, <2>3 DEF EpochEnds, Announced
<1>5. ASSUME NEW checkpoint \in saved[s].writers, NEW notify \in Notify,
             Rewind(s, checkpoint, notify)
      PROVE  ~Told(r, i) /\ ~EpochEnds(r, i)
  <2>0. notify \in BOOLEAN
    BY NotifyTruth
  <2>1. Enqueue(notify, "pending", s, row[s].epoch + 1)
    BY <1>5 DEF Rewind
  <2>2. row[s].epoch + 1 \in Epochs
    BY <1>0, <1>5, BoundAssumption DEF Rewind, Epochs
  <2>3. ~Told(r, i)
    BY <2>0, <2>1, <2>2, EnqueueOne
  <2>4. row'[r].status = IF r = s THEN "queued" ELSE row[r].status
    BY <1>0, <1>5 DEF Rewind
  <2> QED
    BY <2>3, <2>4 DEF EpochEnds, Announced
<1> QED
  BY <1>1, <1>2, <1>3, <1>4, <1>5 DEF UserStep

\* claim tells of the runs it settles itself.
LEMMA ClaimTells ==
  ASSUME TypeOK, NEW e \in Executors, ClaimStep(e), NEW r \in Runs, NEW i \in Epochs
  PROVE  Told(r, i) <=> EpochEnds(r, i)
<1>1. CASE ClaimRefused(e)
  BY <1>1, NothingTold DEF ClaimRefused, EpochEnds
<1>2. CASE ClaimExpired(e)
  <2> DEFINE s == exec[e].run
  <2>1. s \in Runs
    BY <1>2 DEF ClaimExpired, TypeOK
  <2>2. row \in [Runs -> Rows] /\ row[s] \in Rows /\ row[s].epoch \in Epochs
    BY <2>1 DEF TypeOK, Rows
  <2>3. Enqueue(row[s].transport = "kafka", "result", s, row[s].epoch)
    BY <1>2 DEF ClaimExpired
  <2>4. Told(r, i) <=> row[s].transport = "kafka" /\ s = r /\ row[s].epoch = i
    <3> DEFINE kafka == row[s].transport = "kafka"
    <3>1. kafka \in BOOLEAN
      OBVIOUS
    <3>2. Enqueue(kafka, "result", s, row[s].epoch)
      BY <2>3
    <3> HIDE DEF kafka
    <3>3. Told(r, i) <=> kafka /\ s = r /\ row[s].epoch = i
      BY <2>1, <2>2, <3>1, <3>2, EnqueueOne
    <3> QED
      BY <3>3 DEF kafka
  <2>5. row' = [row EXCEPT ![s].status = "timed_out"] /\ row[s].status \in {"queued", "running"}
    BY <1>2 DEF ClaimExpired, Claimable
  <2>6. row'[r].status = IF r = s THEN "timed_out" ELSE row[r].status
    BY <2>1, <2>2, <2>5
  <2>7. CASE r = s
    BY <2>4, <2>5, <2>6, <2>7 DEF EpochEnds, Announced
  <2>8. CASE r # s
    BY <2>4, <2>6, <2>8 DEF EpochEnds
  <2> QED
    BY <2>7, <2>8
<1>3. CASE ClaimGranted(e)
  <2>1. exec[e].run \in Runs /\ row \in [Runs -> Rows]
    BY <1>3 DEF ClaimGranted, TypeOK
  <2>2. row'[r].status = row[r].status \/ row'[r].status = "running"
    BY <1>3, <2>1 DEF ClaimGranted
  <2>3. ~EpochEnds(r, i)
    BY <2>2 DEF EpochEnds, Announced
  <2> QED
    BY <1>3, <2>3, NothingTold DEF ClaimGranted
<1> QED
  BY <1>1, <1>2, <1>3 DEF ClaimStep

\* While an executor works on a run it neither ends it nor tells anybody.
LEMMA OwnersTellNothing ==
  ASSUME TypeOK, NEW e \in Executors, OwnerStep(e), NEW r \in Runs, NEW i \in Epochs
  PROVE  ~Told(r, i) /\ ~EpochEnds(r, i)
<1>1. row \in [Runs -> Rows]
  BY DEF TypeOK
<1>2. UNCHANGED outbox
  BY DEF OwnerStep, Heartbeat, Consume, PutCheckpoint, SetCheckpoint, BeginEffect,
         CallTool, EndEffect
<1>3. row'[r].status = row[r].status
  <2>1. CASE Heartbeat(e)
    BY <1>1, <2>1 DEF Heartbeat
  <2>2. CASE \E inc \in Increments : Consume(e, inc)
    BY <1>1, <2>2 DEF Consume
  <2>3. CASE SetCheckpoint(e)
    BY <1>1, <2>3 DEF SetCheckpoint
  <2> QED
    BY <2>1, <2>2, <2>3 DEF OwnerStep, PutCheckpoint, BeginEffect, CallTool, EndEffect
<1> QED
  BY <1>2, <1>3, NothingTold DEF EpochEnds

\* finish tells of its verdict.
LEMMA FinishTells ==
  ASSUME TypeOK, NEW e \in Executors, FinishStep(e), NEW r \in Runs, NEW i \in Epochs
  PROVE  Told(r, i) <=> EpochEnds(r, i)
<1>1. CASE FinishRejected(e)
  BY <1>1, NothingTold DEF FinishRejected, EpochEnds
<1>2. ASSUME NEW verdict \in Verdicts, Finish(e, verdict)
      PROVE  Told(r, i) <=> EpochEnds(r, i)
  <2> DEFINE s == exec[e].run
  <2>1. s \in Runs /\ row[s].status = "running"
    BY <1>2 DEF Finish, HoldsLease, LiveAt, TypeOK
  <2>2. row \in [Runs -> Rows] /\ row[s] \in Rows /\ row[s].epoch \in Epochs
    BY <2>1 DEF TypeOK, Rows
  <2>3. Enqueue(row[s].transport = "kafka", "result", s, row[s].epoch)
    BY <1>2 DEF Finish
  <2>4. Told(r, i) <=> row[s].transport = "kafka" /\ s = r /\ row[s].epoch = i
    <3> DEFINE kafka == row[s].transport = "kafka"
    <3>1. kafka \in BOOLEAN
      OBVIOUS
    <3>2. Enqueue(kafka, "result", s, row[s].epoch)
      BY <2>3
    <3> HIDE DEF kafka
    <3>3. Told(r, i) <=> kafka /\ s = r /\ row[s].epoch = i
      BY <2>1, <2>2, <3>1, <3>2, EnqueueOne
    <3> QED
      BY <3>3 DEF kafka
  <2>5. /\ row' = [row EXCEPT ![s].status = verdict, ![s].token = NoToken, ![s].until = NullTime]
        /\ verdict \in Announced /\ verdict # "running"
    BY <1>2 DEF Finish, Verdicts, Announced
  <2>6. row'[r].status = IF r = s THEN verdict ELSE row[r].status
    BY <2>1, <2>2, <2>5
  <2>7. CASE r = s
    BY <2>1, <2>4, <2>5, <2>6, <2>7 DEF EpochEnds
  <2>8. CASE r # s
    BY <2>4, <2>6, <2>8 DEF EpochEnds
  <2> QED
    BY <2>7, <2>8
<1> QED
  BY <1>1, <1>2 DEF FinishStep

\* expire_waiting tells of every run it settles, and of each in its own epoch.
LEMMA ExpireTells ==
  ASSUME TypeOK, ExpireWaiting, NEW r \in Runs, NEW i \in Epochs
  PROVE  Told(r, i) <=> EpochEnds(r, i)
<1> DEFINE k == <<"result", r, i>>
<1>1. outbox \in [Messages -> Nat] /\ k \in Messages /\ outbox[k] \in Nat
  BY DEF TypeOK, Messages
<1>2. row \in [Runs -> Rows] /\ row[r] \in Rows
  BY DEF TypeOK
<1>3. k[1] = "result" /\ k[2] = r /\ k[3] = i
  OBVIOUS
<1>4. outbox'[k] = IF r \in Overdue /\ row[r].transport = "kafka" /\ row[r].epoch = i
                   THEN outbox[k] + 1 ELSE outbox[k]
  BY <1>1, <1>3 DEF ExpireWaiting
<1>5. row'[r] = IF r \in Overdue THEN [row[r] EXCEPT !.status = "timed_out"] ELSE row[r]
  BY DEF ExpireWaiting
<1>6. CASE r \in Overdue
  <2>1. row[r].status = "waiting_input"
    BY <1>6 DEF Overdue
  <2>2. row'[r].status = "timed_out"
    BY <1>2, <1>5, <1>6 DEF Rows
  <2> QED
    BY <1>1, <1>4, <1>6, <2>1, <2>2 DEF Told, EpochEnds, Announced
<1>7. CASE r \notin Overdue
  BY <1>1, <1>4, <1>5, <1>7 DEF Told, EpochEnds
<1> QED
  BY <1>6, <1>7

\* A result is announced by the step that ends the work, and by no other.
LEMMA ToldNext ==
  TypeOK /\ [Next]_vars => \A r \in Runs, i \in Epochs : Told(r, i) <=> EpochEnds(r, i)
<1>1. ASSUME TypeOK, Next, NEW r \in Runs, NEW i \in Epochs
      PROVE  Told(r, i) <=> EpochEnds(r, i)
  <2>1. ASSUME NEW s \in Runs, UserStep(s) PROVE Told(r, i) <=> EpochEnds(r, i)
    BY <1>1, <2>1, UsersTellNothing
  <2>2. ASSUME NEW e \in Executors, NEW s \in Runs, NEW want \in Wanted, BeginClaim(e, s, want)
        PROVE  Told(r, i) <=> EpochEnds(r, i)
    BY <1>1, <2>2, NothingTold DEF BeginClaim, EpochEnds
  <2>3. ASSUME NEW e \in Executors, ReadRow(e) \/ Crash(e) PROVE Told(r, i) <=> EpochEnds(r, i)
    BY <1>1, <2>3, NothingTold DEF ReadRow, Crash, EpochEnds
  <2>4. ASSUME NEW e \in Executors, ClaimStep(e) \/ OwnerStep(e) \/ FinishStep(e)
        PROVE  Told(r, i) <=> EpochEnds(r, i)
    BY <1>1, <2>4, ClaimTells, OwnersTellNothing, FinishTells
  <2>5. CASE ExpireWaiting
    BY <1>1, <2>5, ExpireTells
  <2>6. CASE (\E m \in Messages : Acknowledge(m)) \/ Tick
    BY <1>1, <2>6, NothingTold DEF Acknowledge, Tick, EpochEnds
  <2> QED
    BY <1>1, <2>1, <2>2, <2>3, <2>4, <2>5, <2>6 DEF Next
<1>2. ASSUME TypeOK, UNCHANGED vars, NEW r \in Runs, NEW i \in Epochs
      PROVE  Told(r, i) <=> EpochEnds(r, i)
  BY <1>2, NothingTold DEF vars, EpochEnds
<1> QED
  BY <1>1, <1>2

\* Every result is announced by the transaction that records it, and nothing else is.
THEOREM EveryResultTold == Spec => ResultAnnounced
<1>1. TypeOK /\ [Next]_vars =>
        [\A r \in Runs, i \in Epochs :
           outbox'[<<"result", r, i>>] > outbox[<<"result", r, i>>] <=>
           (/\ row[r].transport = "kafka" /\ row[r].epoch = i
            /\ row'[r].status # row[r].status /\ row'[r].status \in Announced)]_vars
  BY ToldNext DEF Told, EpochEnds
<1> QED
  BY <1>1, TypeCorrect, PTL DEF Spec, ResultAnnounced
=============================================================================
