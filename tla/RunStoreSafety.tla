--------------------------- MODULE RunStoreSafety ---------------------------
(***************************************************************************)
(* The action properties of RunStore, its promise about writes, and that   *)
(* it keeps what RunAuthority promises, for any number of runs, executors, *)
(* calls and seconds.                                                      *)
(***************************************************************************)
EXTENDS RunStoreProofs

-----------------------------------------------------------------------------
(* Settled runs.                                                            *)

\* Only a rewind before the deadline changes the status of a settled run.
LEMMA SettledNext ==
  ASSUME TypeOK, Next, NEW r \in Runs,
         row[r].status \in Settled, row'[r].status # row[r].status
  PROVE  row'[r].epoch = row[r].epoch + 1 /\ row[r].deadline > now
<1>0. row \in [Runs -> Rows] /\ row[r] \in Rows
  BY DEF TypeOK
<1>1. row[r].status \notin {"absent", "queued", "running", "waiting_input", "failed"}
  BY DEF Settled
<1>2. ASSUME NEW s \in Runs, UserStep(s)
      PROVE  row'[r].epoch = row[r].epoch + 1 /\ row[r].deadline > now
  <2>1. s = r
    BY <1>0, <1>2 DEF UserStep, Create, Cancel, Resume, Retry, Rewind
  <2>2. \E checkpoint \in saved[r].writers, notify \in Notify : Rewind(r, checkpoint, notify)
    BY <1>1, <1>2, <2>1 DEF UserStep, Create, Cancel, Resume, Retry, Open
  <2> QED
    BY <1>0, <2>2 DEF Rewind, Rows
<1>3. ASSUME NEW e \in Executors, ClaimStep(e) PROVE FALSE
  BY <1>0, <1>1, <1>3 DEF ClaimStep, ClaimRefused, ClaimExpired, ClaimGranted, Claimable
<1>4. ASSUME NEW e \in Executors, OwnerStep(e) \/ FinishStep(e) PROVE FALSE
  <2>1. CASE Heartbeat(e)
    BY <1>0, <1>1, <2>1 DEF Heartbeat, Active, HoldsLease, LiveAt
  <2>2. CASE \E inc \in Increments : Consume(e, inc)
    BY <1>0, <1>1, <2>2 DEF Consume, Active, HoldsLease, LiveAt
  <2>3. CASE SetCheckpoint(e)
    BY <1>0, <1>1, <2>3 DEF SetCheckpoint, Active, HoldsLease, LiveAt
  <2>4. CASE \E verdict \in Verdicts : Finish(e, verdict)
    BY <1>0, <1>1, <2>4 DEF Finish, HoldsLease, LiveAt
  <2> QED
    BY <1>4, <2>1, <2>2, <2>3, <2>4
    DEF OwnerStep, FinishStep, FinishRejected, PutCheckpoint, BeginEffect, CallTool,
        EndEffect
<1>5. CASE ExpireWaiting
  BY <1>1, <1>5 DEF ExpireWaiting, Overdue
<1> QED
  BY <1>2, <1>3, <1>4, <1>5 DEF Next, BeginClaim, ReadRow, Crash, Acknowledge, Tick

\* A run that succeeded, was cancelled or timed out is opened again by a rewind only.
THEOREM SettledForGood == Spec => SettledStays
<1>1. TypeOK /\ [Next]_vars =>
        [\A r \in Runs : row[r].status \in Settled /\ row'[r].status # row[r].status
           => row'[r].epoch = row[r].epoch + 1 /\ row[r].deadline > now]_vars
  BY SettledNext DEF vars
<1> QED
  BY <1>1, TypeCorrect, PTL DEF Spec, SettledStays

-----------------------------------------------------------------------------
(* Budgets.                                                                 *)

\* No counter of a run passes its budget.
WithinBudget == \A r \in Runs, c \in Counters : row[r].usage[c] <= Budget[c]

\* A step charges a run within its budget, inserts it, or leaves its usage alone.
LEMMA UsageNext ==
  ASSUME TypeOK, Next, NEW r \in Runs
  PROVE  \/ row'[r].usage = row[r].usage
         \/ row[r].status = "absent" /\ row'[r].usage = AbsentRow.usage
         \/ /\ row'[r].usage \in [Counters -> Nat]
            /\ \A c \in Counters : /\ row'[r].usage[c] >= row[r].usage[c]
                                   /\ row'[r].usage[c] <= Budget[c]
<1> SUFFICES ASSUME row'[r].usage # row[r].usage
             PROVE  \/ row[r].status = "absent" /\ row'[r].usage = AbsentRow.usage
                    \/ /\ row'[r].usage \in [Counters -> Nat]
                       /\ \A c \in Counters : /\ row'[r].usage[c] >= row[r].usage[c]
                                              /\ row'[r].usage[c] <= Budget[c]
  OBVIOUS
<1>0. row \in [Runs -> Rows] /\ row[r] \in Rows
  BY DEF TypeOK
<1>1. ASSUME NEW s \in Runs, UserStep(s)
      PROVE  row[r].status = "absent" /\ row'[r].usage = AbsentRow.usage
  <2>1. s = r
    BY <1>0, <1>1 DEF UserStep, Create, Cancel, Resume, Retry, Rewind
  <2>2. Cancel(r) => FALSE
    BY <1>0 DEF Cancel, Rows
  <2>3. \A answer \in Answers, notify \in Notify : Resume(r, answer, notify) => FALSE
    BY <1>0 DEF Resume, Rows
  <2>4. \A notify \in Notify : Retry(r, notify) => FALSE
    BY <1>0 DEF Retry, Rows
  <2>5. \A checkpoint \in saved[r].writers, notify \in Notify : Rewind(r, checkpoint, notify) => FALSE
    BY <1>0 DEF Rewind, Rows
  <2>6. \E transport \in Transports : Create(r, transport)
    BY <1>1, <2>1, <2>2, <2>3, <2>4, <2>5 DEF UserStep
  <2> QED
    BY <1>0, <2>6 DEF Create, AbsentRow
<1>2. ASSUME NEW e \in Executors, ClaimStep(e) PROVE FALSE
  BY <1>0, <1>2 DEF ClaimStep, ClaimRefused, ClaimExpired, ClaimGranted, Rows
<1>3. ASSUME NEW e \in Executors, NEW inc \in Increments, Consume(e, inc)
      PROVE  /\ row'[r].usage \in [Counters -> Nat]
             /\ \A c \in Counters : /\ row'[r].usage[c] >= row[r].usage[c]
                                    /\ row'[r].usage[c] <= Budget[c]
  <2>1. r = exec[e].run
    BY <1>0, <1>3 DEF Consume
  <2>2. row'[r].usage = [c \in Counters |-> row[r].usage[c] + inc[c]]
    BY <1>0, <1>3, <2>1 DEF Consume, Rows
  <2>3. row[r].usage \in [Counters -> Nat] /\ inc \in [Counters -> Nat]
    BY <1>0, BudgetAssumption DEF Rows
  <2>4. \A c \in Counters : row[r].usage[c] + inc[c] <= Budget[c]
    BY <1>3, <2>1 DEF Consume
  <2> QED
    BY <2>2, <2>3, <2>4
<1>4. ASSUME NEW e \in Executors,
             \/ Heartbeat(e) \/ SetCheckpoint(e)
             \/ \E verdict \in Verdicts : Finish(e, verdict)
      PROVE  FALSE
  <2>1. Heartbeat(e) => FALSE
    BY <1>0 DEF Heartbeat, Rows
  <2>2. SetCheckpoint(e) => FALSE
    BY <1>0 DEF SetCheckpoint, Rows
  <2>3. \A verdict \in Verdicts : Finish(e, verdict) => FALSE
    BY <1>0 DEF Finish, Rows
  <2> QED
    BY <1>4, <2>1, <2>2, <2>3
<1>5. CASE ExpireWaiting
  BY <1>0, <1>5 DEF ExpireWaiting, Rows
<1>6. CASE UNCHANGED row
  BY <1>6
<1>7. ASSUME NEW e \in Executors, OwnerStep(e) \/ FinishStep(e)
      PROVE  /\ row'[r].usage \in [Counters -> Nat]
             /\ \A c \in Counters : /\ row'[r].usage[c] >= row[r].usage[c]
                                    /\ row'[r].usage[c] <= Budget[c]
  <2>1. UNCHANGED row \/ Heartbeat(e) \/ SetCheckpoint(e)
          \/ (\E inc \in Increments : Consume(e, inc))
          \/ (\E verdict \in Verdicts : Finish(e, verdict))
    BY <1>7 DEF OwnerStep, FinishStep, FinishRejected, PutCheckpoint, BeginEffect,
                CallTool, EndEffect
  <2> QED
    BY <1>3, <1>4, <1>6, <2>1
<1>8. \/ UNCHANGED row \/ ExpireWaiting
      \/ \E s \in Runs : UserStep(s)
      \/ \E e \in Executors : ClaimStep(e) \/ OwnerStep(e) \/ FinishStep(e)
  BY DEF Next, BeginClaim, ReadRow, Crash, Acknowledge, Tick
<1> QED
  BY <1>1, <1>2, <1>5, <1>6, <1>7, <1>8

\* Usage stays within the budget at all times.
LEMMA BudgetInvariant == Spec => []WithinBudget
<1>1. Init => WithinBudget
  BY BudgetAssumption DEF Init, AbsentRow, WithinBudget
<1>2. TypeOK /\ WithinBudget /\ [Next]_vars => WithinBudget'
  <2> SUFFICES ASSUME TypeOK, WithinBudget, [Next]_vars, NEW r \in Runs, NEW c \in Counters
               PROVE  row'[r].usage[c] <= Budget[c]
    BY DEF WithinBudget
  <2>1. CASE UNCHANGED vars
    BY <2>1 DEF vars, WithinBudget
  <2>2. CASE Next
    <3>1. AbsentRow.usage[c] <= Budget[c]
      BY BudgetAssumption DEF AbsentRow
    <3> QED
      BY <2>2, <3>1, UsageNext DEF WithinBudget
  <2> QED
    BY <2>1, <2>2
<1> QED
  BY <1>1, <1>2, TypeCorrect, PTL DEF Spec

\* Usage only grows, up to the budget, whatever happens to the run.
THEOREM BudgetSurvives == Spec => BudgetKept
<1>1. TypeOK /\ WithinBudget /\ [Next]_vars =>
        [\A r \in Runs, c \in Counters :
           row[r].status # "absent" =>
             row'[r].usage[c] >= row[r].usage[c] /\ row'[r].usage[c] <= Budget[c]]_vars
  <2> SUFFICES ASSUME TypeOK, WithinBudget, Next, NEW r \in Runs, NEW c \in Counters,
                      row[r].status # "absent"
               PROVE  row'[r].usage[c] >= row[r].usage[c] /\ row'[r].usage[c] <= Budget[c]
    BY DEF vars
  <2>1. row[r].usage[c] \in Nat /\ row[r].usage[c] <= Budget[c]
    BY DEF TypeOK, Rows, WithinBudget
  <2> QED
    BY <2>1, UsageNext
<1> QED
  BY <1>1, TypeCorrect, BudgetInvariant, PTL DEF Spec, BudgetKept

-----------------------------------------------------------------------------
(* What one step may do to a row and to an executor.                        *)

\* A row is inserted...
Inserted(r) ==
  /\ row[r].status = "absent"
  /\ row'[r].token = NoToken /\ row'[r].checkpoint = NoToken /\ row'[r].epoch = 0

\* ...or keeps its epoch and its token, unless the token is cleared...
Updated(r) ==
  /\ row'[r].token \in {NoToken, row[r].token}
  /\ row'[r].checkpoint \in {row[r].checkpoint, saved[r].last}
  /\ row'[r].epoch = row[r].epoch
  /\ row'[r].status = "running" => LiveAt(r, now)

\* ...or is leased...
Leased(r) ==
  /\ row'[r].token = nextToken /\ nextToken' = nextToken + 1 /\ saved' = saved
  /\ row'[r].checkpoint = row[r].checkpoint /\ row'[r].epoch = row[r].epoch

\* ...or is rewound.
Rewound(r) ==
  /\ row'[r].token = NoToken /\ row'[r].checkpoint \in saved[r].writers
  /\ row'[r].epoch = row[r].epoch + 1
  /\ ~WroteSomething(r) /\ UNCHANGED <<effects, exec>>

RowChange(r) ==
  /\ row'[r].status # "absent"
  /\ \/ Inserted(r)
     \/ row[r].status # "absent" /\ (Updated(r) \/ Leased(r) \/ Rewound(r))

\* What a user does to a row.
LEMMA RowUserStep ==
  ASSUME TypeOK, NEW s \in Runs, UserStep(s), NEW r \in Runs
  PROVE  row'[r] = row[r] \/ RowChange(r)
<1>0. row \in [Runs -> Rows] /\ row[r] \in Rows
  BY DEF TypeOK
<1>1. CASE s # r
  BY <1>0, <1>1 DEF UserStep, Create, Cancel, Resume, Retry, Rewind
<1>2. ASSUME NEW transport \in Transports, Create(r, transport) PROVE RowChange(r)
  BY <1>0, <1>2 DEF Create, RowChange, Inserted, AbsentRow
<1>3. CASE Cancel(r)
  BY <1>0, <1>3 DEF Cancel, Open, RowChange, Updated, Rows
<1>4. ASSUME NEW answer \in Answers, NEW notify \in Notify, Resume(r, answer, notify)
      PROVE  RowChange(r)
  BY <1>0, <1>4 DEF Resume, RowChange, Updated, Rows
<1>5. ASSUME NEW notify \in Notify, Retry(r, notify) PROVE RowChange(r)
  BY <1>0, <1>5 DEF Retry, RowChange, Updated, Rows
<1>6. ASSUME NEW checkpoint \in saved[r].writers, NEW notify \in Notify,
             Rewind(r, checkpoint, notify)
      PROVE  RowChange(r)
  BY <1>0, <1>6 DEF Rewind, RowChange, Rewound, Rows
<1> QED
  BY <1>1, <1>2, <1>3, <1>4, <1>5, <1>6 DEF UserStep

\* What an executor does to a row.
LEMMA RowExecutorStep ==
  ASSUME TypeOK, NEW e \in Executors, ClaimStep(e) \/ OwnerStep(e) \/ FinishStep(e), NEW r \in Runs
  PROVE  row'[r] = row[r] \/ RowChange(r)
<1> SUFFICES ASSUME row'[r] # row[r] PROVE RowChange(r)
  OBVIOUS
<1>0. row \in [Runs -> Rows] /\ row[r] \in Rows
  BY DEF TypeOK
<1>1. CASE ClaimExpired(e)
  BY <1>0, <1>1 DEF ClaimExpired, Claimable, RowChange, Updated, Rows
<1>2. CASE ClaimGranted(e)
  BY <1>0, <1>2 DEF ClaimGranted, Claimable, RowChange, Leased, Rows
<1>3. CASE Heartbeat(e)
  BY <1>0, <1>3 DEF Heartbeat, Active, HoldsLease, LiveAt, RowChange, Updated, Rows
<1>4. ASSUME NEW inc \in Increments, Consume(e, inc) PROVE RowChange(r)
  BY <1>0, <1>4 DEF Consume, Active, HoldsLease, LiveAt, RowChange, Updated, Rows
<1>5. CASE SetCheckpoint(e)
  BY <1>0, <1>5 DEF SetCheckpoint, Active, HoldsLease, LiveAt, RowChange, Updated, Rows
<1>6. ASSUME NEW verdict \in Verdicts, Finish(e, verdict) PROVE RowChange(r)
  BY <1>0, <1>6 DEF Finish, Verdicts, HoldsLease, LiveAt, RowChange, Updated, Rows
<1> QED
  BY <1>1, <1>2, <1>3, <1>4, <1>5, <1>6
  DEF ClaimStep, ClaimRefused, OwnerStep, FinishStep, FinishRejected, PutCheckpoint,
      BeginEffect, CallTool, EndEffect

\* Any step keeps a row or changes it in one of these ways.
LEMMA RowNext ==
  ASSUME TypeOK, Next, NEW r \in Runs
  PROVE  row'[r] = row[r] \/ RowChange(r)
<1>0. row \in [Runs -> Rows] /\ row[r] \in Rows
  BY DEF TypeOK
<1>1. CASE ExpireWaiting
  <2>1. row'[r] = row[r] \/ (r \in Overdue /\ row'[r] = [row[r] EXCEPT !.status = "timed_out"])
    BY <1>1 DEF ExpireWaiting
  <2> QED
    BY <1>0, <2>1 DEF Overdue, RowChange, Updated, Rows
<1> QED
  BY <1>1, RowUserStep, RowExecutorStep DEF Next, BeginClaim, ReadRow, Crash, Acknowledge, Tick

-----------------------------------------------------------------------------
(* Checkpoints.                                                             *)

\* The tokens on a thread grow: its latest checkpoint was written by the newest of its
\* writers, nobody newer than the run's lease has written, and the row names none that
\* is newer than the latest.
ThreadsInOrder ==
  \A r \in Runs :
    /\ \A writer \in saved[r].writers : writer <= saved[r].last
    /\ saved[r].last < nextToken
    /\ row[r].token # NoToken => saved[r].last <= row[r].token
    /\ row[r].checkpoint <= saved[r].last
    /\ row[r].status = "absent" => row[r].checkpoint = NoToken

\* A step writes a checkpoint, hands out a token, or does neither.
LEMMA ThreadFrame ==
  ASSUME Next
  PROVE  /\ saved' = saved \/ \E e \in Executors : PutCheckpoint(e)
         /\ nextToken' = nextToken \/ nextToken' = nextToken + 1
<1> DEFINE Frame == /\ saved' = saved \/ \E e \in Executors : PutCheckpoint(e)
                    /\ nextToken' = nextToken \/ nextToken' = nextToken + 1
<1>1. ASSUME NEW r \in Runs, UserStep(r) PROVE Frame
  BY <1>1 DEF UserStep, Create, Cancel, Resume, Retry, Rewind
<1>2. ASSUME NEW e \in Executors, ClaimStep(e) PROVE Frame
  BY <1>2 DEF ClaimStep, ClaimRefused, ClaimExpired, ClaimGranted
<1>3. ASSUME NEW e \in Executors, OwnerStep(e) PROVE Frame
  BY <1>3 DEF OwnerStep, Heartbeat, Consume, PutCheckpoint, SetCheckpoint, BeginEffect,
              CallTool, EndEffect
<1>4. ASSUME NEW e \in Executors, FinishStep(e) PROVE Frame
  BY <1>4 DEF FinishStep, Finish, FinishRejected
<1> QED
  BY <1>1, <1>2, <1>3, <1>4 DEF Next, BeginClaim, ReadRow, Crash, ExpireWaiting, Acknowledge, Tick

\* The fence keeps the threads in order.
LEMMA ThreadsNext ==
  ASSUME TypeOK, TokensUnique, ThreadsInOrder, Next
  PROVE  ThreadsInOrder'
<1> SUFFICES ASSUME NEW r \in Runs
             PROVE  /\ \A writer \in saved'[r].writers : writer <= saved'[r].last
                    /\ saved'[r].last < nextToken'
                    /\ row'[r].token # NoToken => saved'[r].last <= row'[r].token
                    /\ row'[r].checkpoint <= saved'[r].last
                    /\ row'[r].status = "absent" => row'[r].checkpoint = NoToken
  BY DEF ThreadsInOrder
<1>0. /\ nextToken \in Nat /\ saved[r].last \in Nat /\ saved[r].writers \subseteq Nat
      /\ row[r].token \in Nat /\ row[r].checkpoint \in Nat
  BY DEF TypeOK, Rows
<1>1. ASSUME NEW e \in Executors, PutCheckpoint(e), exec[e].run = r
      PROVE  /\ saved'[r].writers = saved[r].writers \cup {row[r].token}
             /\ saved'[r].last = row[r].token /\ row[r].token # NoToken
             /\ row[r].token < nextToken
             /\ row' = row /\ nextToken' = nextToken
  <2>1. exec[e].token = row[r].token /\ exec[e].pc = "running"
    BY <1>1 DEF PutCheckpoint, Active, HoldsLease
  <2> QED
    BY <1>1, <2>1 DEF PutCheckpoint, TypeOK, TokensUnique
<1>2. CASE \E e \in Executors : PutCheckpoint(e) /\ exec[e].run = r
  BY <1>0, <1>1, <1>2 DEF ThreadsInOrder
<1>3. CASE ~\E e \in Executors : PutCheckpoint(e) /\ exec[e].run = r
  <2>1. saved'[r] = saved[r]
    BY <1>3, ThreadFrame DEF PutCheckpoint, TypeOK
  <2>2. nextToken' = nextToken \/ nextToken' = nextToken + 1
    BY ThreadFrame
  <2>3. row'[r] = row[r] \/ RowChange(r)
    BY RowNext
  <2> QED
    BY <1>0, <2>1, <2>2, <2>3
    DEF ThreadsInOrder, RowChange, Inserted, Updated, Leased, Rewound, NoToken
<1> QED
  BY <1>2, <1>3

\* Threads are in order at all times.
LEMMA ThreadsKept == Spec => []ThreadsInOrder
<1>1. Init => ThreadsInOrder
  BY DEF Init, ThreadsInOrder, NoThread, AbsentRow, NoToken
<1>2. TypeOK /\ TokensUnique /\ ThreadsInOrder /\ UNCHANGED vars => ThreadsInOrder'
  BY DEF vars, ThreadsInOrder
<1>3. TypeOK /\ TokensUnique /\ ThreadsInOrder /\ [Next]_vars => ThreadsInOrder'
  BY <1>2, ThreadsNext
<1> QED
  BY <1>1, <1>3, TypeCorrect, TokensKept, PTL DEF Spec

\* Within an epoch the row's checkpoint is never taken back to an older owner's.
THEOREM NewestOwner == Spec => NewestOwnerWins
<1>1. TypeOK /\ ThreadsInOrder /\ [Next]_vars =>
        [\A r \in Runs : row'[r].epoch = row[r].epoch => row'[r].checkpoint >= row[r].checkpoint]_vars
  <2> SUFFICES ASSUME TypeOK, ThreadsInOrder, Next, NEW r \in Runs, row'[r].epoch = row[r].epoch
               PROVE  row'[r].checkpoint >= row[r].checkpoint
    BY DEF vars
  <2>1. row[r].checkpoint \in Nat /\ saved[r].last \in Nat /\ row[r].epoch \in Nat
    BY BoundAssumption DEF TypeOK, Rows, Epochs
  <2>2. row'[r] = row[r] \/ RowChange(r)
    BY RowNext
  <2> QED
    BY <2>1, <2>2 DEF ThreadsInOrder, RowChange, Inserted, Updated, Leased, Rewound, NoToken
<1> QED
  BY <1>1, TypeCorrect, ThreadsKept, PTL DEF Spec, NewestOwnerWins

-----------------------------------------------------------------------------
(* Tool calls.                                                              *)

\* What one step may do to an executor: it starts over, reads its row, or marks a call.
Restarted(e) == exec'[e].calls = NoCalls /\ exec'[e].pc # "running"
RowRead(e)   == exec[e].pc = "claimed" /\ exec'[e].calls = exec[e].calls
Marked(e, c, mark) ==
  /\ exec[e].pc = "running"
  /\ exec' = [exec EXCEPT ![e].calls[c] = mark]

ExecChange(e) ==
  \/ Restarted(e)
  \/ RowRead(e)
  \/ \E c \in Calls : BeginEffect(e, c) /\ Marked(e, c, "begun")
  \/ \E c \in Calls : CallTool(e, c) /\ Marked(e, c, "called")
  \/ \E c \in Calls, outcome \in {"done", "failed"} : EndEffect(e, c, outcome) /\ Marked(e, c, "none")

\* Any step keeps an executor or changes it in one of these ways.
LEMMA ExecNext ==
  ASSUME TypeOK, Next, NEW e \in Executors
  PROVE  exec'[e] = exec[e] \/ ExecChange(e)
<1> SUFFICES ASSUME exec'[e] # exec[e] PROVE ExecChange(e)
  OBVIOUS
<1>0. exec \in [Executors -> ExecStates] /\ exec[e] \in ExecStates
  BY DEF TypeOK
<1>1. ASSUME NEW d \in Executors, exec' = [exec EXCEPT ![d] = IdleExec] PROVE Restarted(e)
  BY <1>0, <1>1 DEF Restarted, IdleExec
<1>2. ASSUME NEW d \in Executors, NEW r \in Runs, NEW want \in Wanted, BeginClaim(d, r, want)
      PROVE  Restarted(e)
  BY <1>0, <1>2 DEF BeginClaim, Restarted, IdleExec
<1>3. ASSUME NEW d \in Executors, ClaimGranted(d) PROVE Restarted(e)
  BY <1>0, <1>3 DEF ClaimGranted, Restarted, IdleExec
<1>4. ASSUME NEW d \in Executors, ReadRow(d) PROVE RowRead(e)
  BY <1>0, <1>4 DEF ReadRow, RowRead, ExecStates
<1>5. ASSUME NEW d \in Executors, NEW c \in Calls, BeginEffect(d, c) PROVE ExecChange(e)
  <2>1. d = e
    BY <1>0, <1>5 DEF BeginEffect
  <2> QED
    BY <1>5, <2>1 DEF BeginEffect, Active, HoldsLease, Marked, ExecChange
<1>6. ASSUME NEW d \in Executors, NEW c \in Calls, CallTool(d, c) PROVE ExecChange(e)
  <2>1. d = e
    BY <1>0, <1>6 DEF CallTool
  <2> QED
    BY <1>6, <2>1 DEF CallTool, Marked, ExecChange
<1>7. ASSUME NEW d \in Executors, NEW c \in Calls, NEW outcome \in {"done", "failed"},
             EndEffect(d, c, outcome)
      PROVE  ExecChange(e)
  <2>1. d = e
    BY <1>0, <1>7 DEF EndEffect
  <2> QED
    BY <1>7, <2>1 DEF EndEffect, Active, HoldsLease, Marked, ExecChange
<1>8. ASSUME NEW d \in Executors, OwnerStep(d) PROVE ExecChange(e)
  <2>1. \/ UNCHANGED exec
        \/ \E c \in Calls : BeginEffect(d, c) \/ CallTool(d, c)
        \/ \E c \in Calls, outcome \in {"done", "failed"} : EndEffect(d, c, outcome)
    BY <1>8 DEF OwnerStep, Heartbeat, Consume, PutCheckpoint, SetCheckpoint
  <2> QED
    BY <1>5, <1>6, <1>7, <2>1
<1>9. ASSUME NEW d \in Executors, ClaimStep(d) \/ FinishStep(d) \/ Crash(d) PROVE ExecChange(e)
  BY <1>1, <1>3, <1>9
  DEF ClaimStep, ClaimRefused, ClaimExpired, FinishStep, Finish, FinishRejected, Crash, ExecChange
<1>10. ASSUME NEW r \in Runs, UserStep(r) PROVE FALSE
  BY <1>10 DEF UserStep, Create, Cancel, Resume, Retry, Rewind
<1> QED
  BY <1>2, <1>4, <1>8, <1>9, <1>10 DEF Next, ExpireWaiting, Acknowledge, Tick, ExecChange

\* Who is still running after a step works for the same run, epoch and token.
LEMMA StillRunning ==
  ASSUME TypeOK, Next, NEW e \in Executors, exec[e].pc = "running", exec'[e].pc = "running"
  PROVE  /\ exec'[e].run = exec[e].run /\ exec'[e].epoch = exec[e].epoch
         /\ exec'[e].token = exec[e].token
         /\ \A c \in Calls : EffectOf(e, c)' = EffectOf(e, c)
<1>0. exec \in [Executors -> ExecStates] /\ exec[e] \in ExecStates
  BY DEF TypeOK
<1>1. exec'[e] = exec[e] \/ \E c \in Calls, mark \in {"none", "begun", "called"} : Marked(e, c, mark)
  BY ExecNext DEF ExecChange, Restarted, RowRead
<1>2. ASSUME NEW c \in Calls, NEW mark \in {"none", "begun", "called"}, Marked(e, c, mark)
      PROVE  /\ exec'[e].run = exec[e].run /\ exec'[e].epoch = exec[e].epoch
             /\ exec'[e].token = exec[e].token
  BY <1>0, <1>2 DEF Marked, ExecStates
<1> QED
  BY <1>1, <1>2 DEF EffectOf

\* A lost lease is never regained by the execution that lost it.
LEMMA LeaseNotRegained ==
  ASSUME TypeOK, TokensUnique, Next, NEW e \in Executors, exec[e].pc = "running", HoldsLease(e)'
  PROVE  HoldsLease(e)
<1> DEFINE r == exec[e].run
<1>1. exec'[e].pc = "running" /\ exec'[e].run = r
      /\ exec'[e].epoch = exec[e].epoch /\ exec'[e].token = exec[e].token
  BY StillRunning DEF HoldsLease
<1>2. /\ row'[r].epoch = exec[e].epoch /\ row'[r].token = exec[e].token
      /\ row'[r].status = "running" /\ row'[r].until > now'
  BY <1>1 DEF HoldsLease, LiveAt
<1>3. /\ r \in Runs /\ row[r] \in Rows /\ now \in Nat /\ nextToken \in Nat
      /\ exec[e].token # NoToken /\ exec[e].token < nextToken
  BY DEF TypeOK, TokensUnique
<1>4. now' = now \/ now' = now + 1
  <2>1. ASSUME NEW s \in Runs, UserStep(s) PROVE now' = now
    BY <2>1 DEF UserStep, Create, Cancel, Resume, Retry, Rewind
  <2>2. ASSUME NEW d \in Executors, ClaimStep(d) \/ FinishStep(d) PROVE now' = now
    BY <2>2 DEF ClaimStep, ClaimRefused, ClaimExpired, ClaimGranted, FinishStep, Finish,
                FinishRejected
  <2>3. ASSUME NEW d \in Executors, OwnerStep(d) PROVE now' = now
    BY <2>3 DEF OwnerStep, Heartbeat, Consume, PutCheckpoint, SetCheckpoint,
                BeginEffect, CallTool, EndEffect
  <2> QED
    BY <2>1, <2>2, <2>3 DEF Next, BeginClaim, ReadRow, Crash, ExpireWaiting, Acknowledge, Tick
<1>5. CASE row'[r] = row[r]
  <2>1. row[r].until \in Nat
    BY <1>3 DEF Rows
  <2> QED
    BY <1>2, <1>3, <1>4, <1>5, <2>1 DEF HoldsLease, LiveAt
<1>6. CASE RowChange(r)
  <2>1. Updated(r)
    BY <1>2, <1>3, <1>6 DEF RowChange, Inserted, Leased, Rewound, NoToken
  <2> QED
    BY <1>2, <1>3, <2>1 DEF Updated, HoldsLease
<1> QED
  BY <1>3, <1>5, <1>6, RowNext

\* Only the beginning and the end of a call change its status, and only the call itself
\* counts its body.
LEMMA LedgerNext ==
  ASSUME TypeOK, Next, NEW k \in Effects
  PROVE  /\ \/ effects'[k] = effects[k]
            \/ \E e \in Executors, c \in Calls :
                 BeginEffect(e, c) /\ EffectOf(e, c) = k /\ effects'[k] = "started"
            \/ \E e \in Executors, c \in Calls, outcome \in {"done", "failed"} :
                 EndEffect(e, c, outcome) /\ EffectOf(e, c) = k /\ effects'[k] = outcome
         /\ \/ bodies'[k] = bodies[k]
            \/ \E e \in Executors, c \in Calls :
                 CallTool(e, c) /\ EffectOf(e, c) = k /\ bodies'[k] = bodies[k] + 1
<1> DEFINE Begun == \E e \in Executors, c \in Calls :
                      BeginEffect(e, c) /\ EffectOf(e, c) = k /\ effects'[k] = "started"
           Ended == \E e \in Executors, c \in Calls, outcome \in {"done", "failed"} :
                      EndEffect(e, c, outcome) /\ EffectOf(e, c) = k /\ effects'[k] = outcome
           Called == \E e \in Executors, c \in Calls :
                       CallTool(e, c) /\ EffectOf(e, c) = k /\ bodies'[k] = bodies[k] + 1
           Ledger == /\ effects'[k] = effects[k] \/ Begun \/ Ended
                     /\ bodies'[k] = bodies[k] \/ Called
<1>0. effects \in [Effects -> {"none", "started", "failed", "done"}] /\ bodies \in [Effects -> Nat]
  BY DEF TypeOK
<1>1. CASE UNCHANGED <<effects, bodies>>
  BY <1>1
<1>2. ASSUME NEW e \in Executors, NEW c \in Calls, BeginEffect(e, c) PROVE Ledger
  BY <1>0, <1>2 DEF BeginEffect
<1>3. ASSUME NEW e \in Executors, NEW c \in Calls, CallTool(e, c) PROVE Ledger
  BY <1>0, <1>3 DEF CallTool
<1>4. ASSUME NEW e \in Executors, NEW c \in Calls, NEW outcome \in {"done", "failed"},
             EndEffect(e, c, outcome)
      PROVE  Ledger
  BY <1>0, <1>4 DEF EndEffect
<1>5. ASSUME NEW e \in Executors, OwnerStep(e) PROVE Ledger
  <2>1. \/ UNCHANGED <<effects, bodies>>
        \/ \E c \in Calls : BeginEffect(e, c) \/ CallTool(e, c)
        \/ \E c \in Calls, outcome \in {"done", "failed"} : EndEffect(e, c, outcome)
    BY <1>5 DEF OwnerStep, Heartbeat, Consume, PutCheckpoint, SetCheckpoint, ledger
  <2> QED
    BY <1>1, <1>2, <1>3, <1>4, <2>1
<1>6. ASSUME NEW r \in Runs, UserStep(r) PROVE UNCHANGED <<effects, bodies>>
  BY <1>6 DEF UserStep, Create, Cancel, Resume, Retry, Rewind, ledger
<1>7. ASSUME NEW e \in Executors, ClaimStep(e) \/ FinishStep(e)
      PROVE  UNCHANGED <<effects, bodies>>
  BY <1>7 DEF ClaimStep, ClaimRefused, ClaimExpired, ClaimGranted, FinishStep, Finish,
              FinishRejected, ledger
<1>8. UNCHANGED <<effects, bodies>> \/ \E e \in Executors : OwnerStep(e)
  BY <1>6, <1>7 DEF Next, BeginClaim, ReadRow, Crash, ExpireWaiting, Acknowledge, Tick, ledger
<1> QED
  BY <1>1, <1>5, <1>8

\* Whoever is in a call works for a run, the call is in the ledger, and as long as the
\* lease lasts nobody has recorded the call as done.
CallsUnderWay ==
  \A e \in Executors, c \in Calls : exec[e].calls[c] # "none" =>
    /\ exec[e].pc = "running"
    /\ EffectOf(e, c) \in Effects /\ effects[EffectOf(e, c)] # "none"
    /\ HoldsLease(e) => effects[EffectOf(e, c)] # "done"

\* An executor with a valid lease addresses a row of the ledger.
LEMMA LeaseEffect ==
  ASSUME TypeOK, NEW e \in Executors, NEW c \in Calls, HoldsLease(e)
  PROVE  EffectOf(e, c) \in Effects
<1>1. exec[e].run \in Runs /\ row[exec[e].run].epoch \in Epochs
  BY DEF TypeOK, HoldsLease, Rows
<1> QED
  BY <1>1 DEF HoldsLease, EffectOf, Effects

\* Calls under way stay in the ledger.
LEMMA CallsNext ==
  ASSUME TypeOK, TokensUnique, CallsUnderWay, Next
  PROVE  CallsUnderWay'
<1> SUFFICES ASSUME NEW e \in Executors, NEW c \in Calls, exec'[e].calls[c] # "none"
             PROVE  /\ exec'[e].pc = "running"
                    /\ EffectOf(e, c)' \in Effects /\ effects'[EffectOf(e, c)'] # "none"
                    /\ HoldsLease(e)' => effects'[EffectOf(e, c)'] # "done"
  BY DEF CallsUnderWay
<1> DEFINE k == EffectOf(e, c)
<1>0. exec \in [Executors -> ExecStates] /\ exec[e] \in ExecStates
      /\ exec[e].calls \in [Calls -> {"none", "begun", "called"}]
  BY DEF TypeOK, ExecStates
<1>1. CASE exec[e].calls[c] = "none"
  <2>1. BeginEffect(e, c) /\ Marked(e, c, "begun")
    <3>1. ASSUME NEW b \in Calls, NEW mark, Marked(e, b, mark) PROVE b = c /\ mark # "none"
      BY <1>0, <1>1, <3>1 DEF Marked, ExecStates
    <3>2. ~Restarted(e) /\ ~RowRead(e) /\ exec'[e] # exec[e]
      BY <1>1 DEF Restarted, RowRead, NoCalls
    <3>3. ~CallTool(e, c)
      BY <1>1 DEF CallTool
    <3> QED
      BY <3>1, <3>2, <3>3, ExecNext DEF ExecChange
  <2>2. exec[e].pc = "running" /\ exec'[e].pc = "running" /\ k \in Effects
    BY <1>0, <2>1, LeaseEffect DEF BeginEffect, Active, HoldsLease, Marked, ExecStates
  <2>3. effects'[k] = "started" /\ EffectOf(e, c)' = k
    BY <2>1, <2>2, StillRunning DEF BeginEffect, TypeOK
  <2> QED
    BY <2>2, <2>3
<1>2. CASE exec[e].calls[c] # "none"
  <2>1. exec[e].pc = "running" /\ k \in Effects /\ effects[k] # "none" /\ (HoldsLease(e) => effects[k] # "done")
    BY <1>2 DEF CallsUnderWay
  <2>2. exec'[e].pc = "running"
    BY <1>0, <2>1, ExecNext DEF ExecChange, Restarted, RowRead, NoCalls, Marked, ExecStates
  <2>3. EffectOf(e, c)' = k
    BY <2>1, <2>2, StillRunning
  <2>4. effects'[k] # "none"
    BY <2>1, LedgerNext
  <2>5. ASSUME HoldsLease(e)', effects'[k] = "done" PROVE FALSE
    <3>1. HoldsLease(e)
      BY <2>1, <2>5, LeaseNotRegained
    <3>2. PICK d \in Executors, b \in Calls : EndEffect(d, b, "done") /\ EffectOf(d, b) = k
      BY <2>1, <2>5, <3>1, LedgerNext
    <3>3. HoldsLease(d) /\ exec[d].run = exec[e].run /\ b = c
      BY <3>2 DEF EndEffect, Active, EffectOf
    <3>4. d = e
      BY <3>1, <3>3 DEF TokensUnique, HoldsLease
    <3> QED
      BY <1>0, <1>2, <3>2, <3>3, <3>4 DEF EndEffect, ExecStates
  <2> QED
    BY <2>1, <2>2, <2>3, <2>4, <2>5
<1> QED
  BY <1>1, <1>2

\* Calls under way are in the ledger at all times.
LEMMA CallsKept == Spec => []CallsUnderWay
<1>1. Init => CallsUnderWay
  BY DEF Init, CallsUnderWay, IdleExec, NoCalls
<1>2. TypeOK /\ TokensUnique /\ CallsUnderWay /\ UNCHANGED vars => CallsUnderWay'
  BY DEF vars, CallsUnderWay, HoldsLease, LiveAt, EffectOf
<1>3. TypeOK /\ TokensUnique /\ CallsUnderWay /\ [Next]_vars => CallsUnderWay'
  BY <1>2, CallsNext
<1> QED
  BY <1>1, <1>3, TypeCorrect, TokensKept, PTL DEF Spec

\* A call that is done stays done, and nobody is let into its body again.
THEOREM DoneForGood == Spec => DoneIsFinal
<1>1. TypeOK /\ CallsUnderWay /\ [Next]_vars =>
        [\A k \in Effects : effects[k] = "done" =>
           /\ effects'[k] = "done"
           /\ \A e \in Executors : exec'[e].calls[k[3]] = "begun" /\ EffectOf(e, k[3]) = k
                                  => exec[e].calls[k[3]] = "begun"]_vars
  <2> SUFFICES ASSUME TypeOK, CallsUnderWay, Next, NEW k \in Effects, effects[k] = "done"
               PROVE  /\ effects'[k] = "done"
                      /\ \A e \in Executors : exec'[e].calls[k[3]] = "begun" /\ EffectOf(e, k[3]) = k
                                             => exec[e].calls[k[3]] = "begun"
    BY DEF vars
  <2>1. effects'[k] = "done"
    <3>1. ASSUME NEW e \in Executors, NEW c \in Calls, BeginEffect(e, c), EffectOf(e, c) = k
          PROVE  FALSE
      BY <3>1 DEF BeginEffect
    <3>2. ASSUME NEW e \in Executors, NEW c \in Calls, NEW outcome \in {"done", "failed"},
                 EndEffect(e, c, outcome), EffectOf(e, c) = k
          PROVE  FALSE
      BY <3>2 DEF EndEffect, Active, CallsUnderWay
    <3> QED
      BY <3>1, <3>2, LedgerNext
  <2>2. ASSUME NEW e \in Executors, exec'[e].calls[k[3]] = "begun", EffectOf(e, k[3]) = k
        PROVE  exec[e].calls[k[3]] = "begun"
    <3>0. exec \in [Executors -> ExecStates] /\ exec[e] \in ExecStates /\ k[3] \in Calls
      BY DEF TypeOK, Effects
    <3>1. ASSUME NEW c \in Calls, BeginEffect(e, c), Marked(e, c, "begun")
          PROVE  exec[e].calls[k[3]] = "begun"
      BY <2>2, <3>0, <3>1 DEF BeginEffect, Marked, ExecStates
    <3>2. ASSUME NEW c \in Calls, NEW mark \in {"none", "called"}, Marked(e, c, mark)
          PROVE  exec[e].calls[k[3]] = "begun"
      BY <2>2, <3>0, <3>2 DEF Marked, ExecStates
    <3> QED
      BY <2>2, <3>0, <3>1, <3>2, ExecNext DEF ExecChange, Restarted, RowRead, NoCalls
  <2> QED
    BY <2>1, <2>2
<1> QED
  BY <1>1, TypeCorrect, CallsKept, PTL DEF Spec, DoneIsFinal

-----------------------------------------------------------------------------
(* Writes.                                                                  *)

\* A recorded write pins the run to its epoch, because rewind refuses; a body that ran is
\* recorded; and a write that is begun has not run yet and is begun by one executor only.
WritesOnce ==
  /\ \A r \in Runs : row[r].status = "absent" => row[r].epoch = 0
  /\ \A r \in Runs, i \in Epochs, c \in WriteCalls :
       effects[<<r, i, c>>] # "none" => row[r].epoch = i
  /\ \A k \in Effects : bodies[k] > 0 => effects[k] # "none"
  /\ \A r \in Runs, i \in Epochs, c \in WriteCalls : bodies[<<r, i, c>>] <= 1
  /\ \A e \in Executors, c \in WriteCalls : exec[e].calls[c] = "begun" =>
       /\ bodies[EffectOf(e, c)] = 0
       /\ \A d \in Executors :
            exec[d].calls[c] = "begun" /\ EffectOf(d, c) = EffectOf(e, c) => d = e

\* A call that is begun after a step was begun before it, or by it.
LEMMA BegunNext ==
  ASSUME TypeOK, CallsUnderWay, Next, NEW e \in Executors, NEW c \in Calls,
         exec'[e].calls[c] = "begun"
  PROVE  /\ EffectOf(e, c)' = EffectOf(e, c)
         /\ \/ exec[e].calls[c] = "begun"
            \/ BeginEffect(e, c) /\ \A d \in Executors : d # e => exec'[d] = exec[d]
<1>0. exec \in [Executors -> ExecStates] /\ exec[e] \in ExecStates
  BY DEF TypeOK
<1>1. CASE exec[e].calls[c] = "begun"
  <2>1. exec[e].pc = "running"
    BY <1>1 DEF CallsUnderWay
  <2>2. exec'[e].pc = "running"
    BY <1>0, <2>1, ExecNext DEF ExecChange, Restarted, RowRead, NoCalls, Marked, ExecStates
  <2> QED
    BY <1>1, <2>1, <2>2, StillRunning
<1>2. CASE exec[e].calls[c] # "begun"
  <2>1. ASSUME NEW b \in Calls, NEW mark, Marked(e, b, mark) PROVE b = c /\ mark = "begun"
    BY <1>0, <1>2, <2>1 DEF Marked, ExecStates
  <2>2. ~Restarted(e) /\ ~RowRead(e) /\ exec'[e] # exec[e]
    BY <1>2 DEF Restarted, RowRead, NoCalls
  <2>3. BeginEffect(e, c) /\ Marked(e, c, "begun")
    BY <2>1, <2>2, ExecNext DEF ExecChange
  <2>4. exec[e].pc = "running" /\ exec'[e].pc = "running"
        /\ \A d \in Executors : d # e => exec'[d] = exec[d]
    BY <1>0, <2>3 DEF Marked, ExecStates
  <2> QED
    BY <2>3, <2>4, StillRunning
<1> QED
  BY <1>1, <1>2

\* The ledger keeps writes from being made twice.
LEMMA WritesNext ==
  ASSUME TypeOK, CallsUnderWay, WritesOnce, Next
  PROVE  WritesOnce'
<1>0. /\ bodies \in [Effects -> Nat]
      /\ \A r \in Runs, i \in Epochs, c \in WriteCalls : <<r, i, c>> \in Effects /\ c \in Calls
      /\ \A r \in Runs : row[r] \in Rows
  BY CallsAssumption DEF TypeOK, Effects
<1>1. ASSUME NEW r \in Runs, row'[r].status = "absent" PROVE row'[r].epoch = 0
  BY <1>1, RowNext DEF RowChange, WritesOnce
<1>2. ASSUME NEW r \in Runs, NEW i \in Epochs, NEW c \in WriteCalls, effects'[<<r, i, c>>] # "none"
      PROVE  row'[r].epoch = i
  <2> DEFINE k == <<r, i, c>>
  <2>1. CASE effects[k] # "none"
    <3>1. row[r].epoch = i
      BY <2>1 DEF WritesOnce
    <3>2. WroteSomething(r)
      BY <1>0, <2>1 DEF WroteSomething
    <3> QED
      BY <3>1, <3>2, RowNext DEF RowChange, Inserted, Updated, Leased, Rewound, WritesOnce
  <2>2. CASE effects[k] = "none"
    <3>1. PICK e \in Executors, b \in Calls : EffectOf(e, b) = k
                                              /\ (BeginEffect(e, b)
                                                  \/ \E outcome \in {"done", "failed"} :
                                                       EndEffect(e, b, outcome))
      BY <1>0, <1>2, <2>2, LedgerNext
    <3> QED
      BY <3>1 DEF BeginEffect, EndEffect, Active, HoldsLease, EffectOf
  <2> QED
    BY <2>1, <2>2
<1>3. ASSUME NEW k \in Effects, bodies'[k] > 0 PROVE effects'[k] # "none"
  <2>1. effects[k] # "none"
    <3>1. CASE bodies'[k] = bodies[k]
      BY <1>3, <3>1 DEF WritesOnce
    <3>2. CASE bodies'[k] # bodies[k]
      BY <3>2, LedgerNext DEF CallTool, CallsUnderWay
    <3> QED
      BY <3>1, <3>2
  <2> QED
    BY <2>1, LedgerNext
<1>4. ASSUME NEW r \in Runs, NEW i \in Epochs, NEW c \in WriteCalls PROVE bodies'[<<r, i, c>>] <= 1
  <2> DEFINE k == <<r, i, c>>
  <2>1. CASE bodies'[k] = bodies[k]
    BY <2>1 DEF WritesOnce
  <2>2. CASE bodies'[k] # bodies[k]
    <3>1. PICK e \in Executors, b \in Calls :
            CallTool(e, b) /\ EffectOf(e, b) = k /\ bodies'[k] = bodies[k] + 1
      BY <1>0, <2>2, LedgerNext
    <3>2. b = c /\ exec[e].calls[c] = "begun"
      BY <3>1 DEF CallTool, EffectOf
    <3>3. bodies[k] = 0
      BY <3>1, <3>2 DEF WritesOnce
    <3> QED
      BY <3>1, <3>3
  <2> QED
    BY <2>1, <2>2
<1>5. ASSUME NEW e \in Executors, NEW c \in WriteCalls, exec'[e].calls[c] = "begun"
      PROVE  /\ bodies'[EffectOf(e, c)'] = 0
             /\ \A d \in Executors :
                  exec'[d].calls[c] = "begun" /\ EffectOf(d, c)' = EffectOf(e, c)' => d = e
  <2> DEFINE k == EffectOf(e, c)
  <2>0. c \in Calls
    BY CallsAssumption
  <2>1. /\ EffectOf(e, c)' = k
        /\ \/ exec[e].calls[c] = "begun"
           \/ BeginEffect(e, c) /\ \A d \in Executors : d # e => exec'[d] = exec[d]
    BY <1>5, <2>0, BegunNext
  <2>2. k \in Effects
    BY <2>0, <2>1, LeaseEffect DEF CallsUnderWay, BeginEffect, Active
  <2>3. bodies[k] = 0
    <3>1. CASE exec[e].calls[c] = "begun"
      BY <3>1 DEF WritesOnce
    <3>2. CASE BeginEffect(e, c)
      <4>1. effects[k] = "none"
        BY <3>2 DEF BeginEffect
      <4> QED
        BY <1>0, <2>2, <4>1 DEF WritesOnce
    <3> QED
      BY <2>1, <3>1, <3>2
  <2>4. bodies'[k] = bodies[k]
    <3> SUFFICES ASSUME bodies'[k] # bodies[k] PROVE FALSE
      OBVIOUS
    <3>1. PICK d \in Executors, b \in Calls : CallTool(d, b) /\ EffectOf(d, b) = k
      BY <2>2, LedgerNext
    <3>2. b = c /\ exec[d].calls[c] = "begun" /\ exec'[d].calls[c] = "called"
      BY <3>1 DEF CallTool, EffectOf, TypeOK, ExecStates
    <3>3. exec[e].calls[c] = "begun"
      BY <2>1, <3>1, <3>2 DEF BeginEffect, CallTool, CallsUnderWay
    <3>4. d = e
      BY <3>1, <3>2, <3>3 DEF WritesOnce
    <3> QED
      BY <1>5, <3>2, <3>4
  <2>5. ASSUME NEW d \in Executors, exec'[d].calls[c] = "begun", EffectOf(d, c)' = k, d # e
        PROVE  FALSE
    <3>1. /\ EffectOf(d, c) = k
          /\ \/ exec[d].calls[c] = "begun"
             \/ BeginEffect(d, c) /\ \A b \in Executors : b # d => exec'[b] = exec[b]
      BY <2>0, <2>5, BegunNext
    <3>2. CASE exec[e].calls[c] = "begun" /\ exec[d].calls[c] = "begun"
      BY <2>5, <3>1, <3>2 DEF WritesOnce
    <3>3. CASE BeginEffect(e, c)
      <4>1. effects[k] = "none" /\ exec[d].calls[c] = "begun"
        BY <2>5, <3>1, <3>3, <2>1 DEF BeginEffect
      <4> QED
        BY <2>0, <3>1, <4>1 DEF CallsUnderWay
    <3>4. CASE BeginEffect(d, c)
      <4>1. effects[k] = "none" /\ exec[e].calls[c] = "begun"
        BY <1>5, <2>5, <3>1, <3>4, <2>1 DEF BeginEffect
      <4> QED
        BY <2>0, <4>1 DEF CallsUnderWay
    <3> QED
      BY <2>1, <3>1, <3>2, <3>3, <3>4
  <2> QED
    BY <2>1, <2>3, <2>4, <2>5
<1> QED
  BY <1>1, <1>2, <1>3, <1>4, <1>5 DEF WritesOnce

\* A write's body is invoked at most once over all epochs of its run.
THEOREM WritesAreMadeOnce == Spec => []WriteAtMostOnce
<1>1. Init => WritesOnce
  BY CallsAssumption DEF Init, WritesOnce, AbsentRow, Effects, IdleExec, NoCalls
<1>2. TypeOK /\ CallsUnderWay /\ WritesOnce /\ UNCHANGED vars => WritesOnce'
  BY DEF vars, WritesOnce, EffectOf
<1>3. TypeOK /\ CallsUnderWay /\ WritesOnce /\ [Next]_vars => WritesOnce'
  BY <1>2, WritesNext
<1>4. TypeOK /\ WritesOnce => WriteAtMostOnce
  <2> SUFFICES ASSUME TypeOK, WritesOnce, NEW r \in Runs, NEW c \in WriteCalls,
                      NEW i \in Epochs, NEW j \in Epochs,
                      bodies[<<r, i, c>>] > 0, bodies[<<r, j, c>>] > 0
               PROVE  i = j
    BY DEF WriteAtMostOnce, WritesOnce
  <2>1. <<r, i, c>> \in Effects /\ <<r, j, c>> \in Effects
    BY CallsAssumption DEF Effects
  <2> QED
    BY <2>1 DEF WritesOnce
<1> QED
  BY <1>1, <1>3, <1>4, TypeCorrect, CallsKept, PTL DEF Spec

-----------------------------------------------------------------------------
(* Owners.                                                                  *)

Holds(e, r) ==
  exec[e].pc \in {"claimed", "running"} /\ exec[e].run = r /\ exec[e].token = row[r].token

\* OwnerOf without its CHOOSE: the one executor with the row's token, while the lease lives.
OwnersKnown ==
  \A r \in Runs :
    /\ \A e \in Executors : LiveAt(r, now) /\ Holds(e, r) => OwnerOf(r) = e
    /\ ~LiveAt(r, now) \/ (\A e \in Executors : ~Holds(e, r)) => OwnerOf(r) = Nobody

LEMMA OneOwnerAtMost == TokensUnique => OwnersKnown
<1> SUFFICES ASSUME TokensUnique, NEW r \in Runs
             PROVE  /\ \A e \in Executors : LiveAt(r, now) /\ Holds(e, r) => OwnerOf(r) = e
                    /\ ~LiveAt(r, now) \/ (\A e \in Executors : ~Holds(e, r)) => OwnerOf(r) = Nobody
  BY DEF OwnersKnown
<1> DEFINE holders == {e \in Executors : /\ exec[e].pc \in {"claimed", "running"}
                                         /\ exec[e].run = r /\ exec[e].token = row[r].token}
<1>1. \A e \in Executors : Holds(e, r) <=> e \in holders
  BY DEF Holds
<1>2. \A d, e \in holders : d = e
  BY DEF TokensUnique
<1>3. OwnerOf(r) = IF LiveAt(r, now) /\ holders # {} THEN CHOOSE e \in holders : TRUE ELSE Nobody
  BY DEF OwnerOf
<1> HIDE DEF holders
<1>4. ASSUME NEW e \in Executors, LiveAt(r, now), Holds(e, r) PROVE OwnerOf(r) = e
  BY <1>1, <1>2, <1>3, <1>4
<1>5. ASSUME ~LiveAt(r, now) \/ (\A e \in Executors : ~Holds(e, r)) PROVE OwnerOf(r) = Nobody
  <2>1. CASE ~LiveAt(r, now)
    BY <1>3, <2>1
  <2>2. CASE \A e \in Executors : ~Holds(e, r)
    <3>1. holders = {}
      BY <1>1, <2>2 DEF holders
    <3> QED
      BY <1>3, <3>1
  <2> QED
    BY <1>5, <2>1, <2>2
<1> QED
  BY <1>4, <1>5

\* An owner stays or is lost when nobody gets a lease.
LEMMA OwnerStaysOrGoes ==
  ASSUME OwnersKnown, OwnersKnown', NEW r \in Runs,
         LiveAt(r, now)' => LiveAt(r, now),
         \A e \in Executors : Holds(e, r)' => Holds(e, r)
  PROVE  OwnerOf(r)' \in {OwnerOf(r), Nobody}
<1>1. CASE ~LiveAt(r, now)' \/ \A e \in Executors : ~Holds(e, r)'
  BY <1>1 DEF OwnersKnown, Nobody
<1>2. ASSUME NEW e \in Executors, LiveAt(r, now)', Holds(e, r)' PROVE OwnerOf(r)' = OwnerOf(r)
  BY <1>2 DEF OwnersKnown
<1> QED
  BY <1>1, <1>2

LEMMA OwnerStays ==
  ASSUME OwnersKnown, OwnersKnown', NEW r \in Runs,
         LiveAt(r, now)' <=> LiveAt(r, now),
         \A e \in Executors : Holds(e, r)' <=> Holds(e, r)
  PROVE  OwnerOf(r)' = OwnerOf(r)
<1>1. CASE ~LiveAt(r, now)' \/ \A e \in Executors : ~Holds(e, r)'
  BY <1>1 DEF OwnersKnown, Nobody
<1>2. ASSUME NEW e \in Executors, LiveAt(r, now)', Holds(e, r)' PROVE OwnerOf(r)' = OwnerOf(r)
  BY <1>2 DEF OwnersKnown
<1> QED
  BY <1>1, <1>2

-----------------------------------------------------------------------------
(* Abstract steps, run by run.                                              *)

Same(r) == PhaseOf(r)' = PhaseOf(r) /\ row'[r].epoch = row[r].epoch /\ OwnerOf(r)' = OwnerOf(r)

\* Nothing happens but that owners are lost.
LEMMA OwnersAreLost ==
  ASSUME \A r \in Runs : /\ PhaseOf(r)' = PhaseOf(r) /\ row'[r].epoch = row[r].epoch
                         /\ OwnerOf(r)' \in {OwnerOf(r), Nobody}
  PROVE  Authority!Next
<1> DEFINE lost == {r \in Runs : OwnerOf(r)' = Nobody}
<1>1. [r \in Runs |-> OwnerOf(r)'] = [r \in Runs |-> IF r \in lost THEN Nobody ELSE OwnerOf(r)]
  OBVIOUS
<1>2. /\ [r \in Runs |-> PhaseOf(r)'] = [r \in Runs |-> PhaseOf(r)]
      /\ [r \in Runs |-> row'[r].epoch] = [r \in Runs |-> row[r].epoch]
  OBVIOUS
<1>3. lost \in SUBSET Runs
  OBVIOUS
<1> HIDE DEF lost
<1>4. Authority!Lose(lost)
  BY <1>1, <1>2, <1>3 DEF Authority!Lose
<1> QED
  BY <1>3, <1>4 DEF Authority!Next

\* The other runs keep their owners when neither their rows nor their holders change.
LEMMA OthersAreSame ==
  ASSUME OwnersKnown, OwnersKnown', NEW r \in Runs, now' = now,
         \A s \in Runs : s # r => row'[s] = row[s],
         \A s \in Runs, e \in Executors : s # r => (Holds(e, s)' <=> Holds(e, s))
  PROVE  \A s \in Runs : s # r => Same(s)
<1> SUFFICES ASSUME NEW s \in Runs, s # r PROVE Same(s)
  OBVIOUS
<1>1. row'[s] = row[s] /\ PhaseOf(s)' = PhaseOf(s) /\ (LiveAt(s, now)' <=> LiveAt(s, now))
  BY DEF PhaseOf, LiveAt
<1>2. OwnerOf(s)' = OwnerOf(s)
  BY <1>1, OwnerStays
<1> QED
  BY <1>1, <1>2 DEF Same

-----------------------------------------------------------------------------
(* Steps of the run database.                                               *)

\* Time, heartbeats, the work of an owner and whoever gives up: nobody becomes an owner.
Calm ==
  \A r \in Runs : /\ row'[r].status = row[r].status /\ row'[r].epoch = row[r].epoch
                  /\ LiveAt(r, now)' => LiveAt(r, now)
                  /\ \A e \in Executors : Holds(e, r)' => Holds(e, r)

LEMMA CalmStep == ASSUME OwnersKnown, OwnersKnown', Calm PROVE Authority!Next
<1> SUFFICES ASSUME NEW r \in Runs
             PROVE  /\ PhaseOf(r)' = PhaseOf(r) /\ row'[r].epoch = row[r].epoch
                    /\ OwnerOf(r)' \in {OwnerOf(r), Nobody}
  BY OwnersAreLost
<1>1. PhaseOf(r)' = PhaseOf(r) /\ row'[r].epoch = row[r].epoch
  BY DEF Calm, PhaseOf
<1>2. OwnerOf(r)' \in {OwnerOf(r), Nobody}
  BY OwnerStaysOrGoes DEF Calm
<1> QED
  BY <1>1, <1>2

LEMMA CalmSteps ==
  ASSUME TypeOK,
         \/ Tick \/ UNCHANGED vars \/ \E m \in Messages : Acknowledge(m)
         \/ \E e \in Executors : \/ ClaimRefused(e) \/ ReadRow(e) \/ FinishRejected(e) \/ Crash(e) \/ OwnerStep(e)
                               \/ \E r \in Runs, want \in Wanted : BeginClaim(e, r, want)
  PROVE  Calm
<1> USE DEF Calm, Holds, LiveAt
<1>0. /\ now \in Nat /\ row \in [Runs -> Rows] /\ exec \in [Executors -> ExecStates]
      /\ \A r \in Runs : row[r].until \in Nat
  BY DEF TypeOK, Rows
<1>1. CASE UNCHANGED <<now, row, exec>>
  BY <1>1
<1>2. CASE Tick
  BY <1>0, <1>2 DEF Tick
<1>3. ASSUME NEW e \in Executors, exec' = [exec EXCEPT ![e] = IdleExec], UNCHANGED <<now, row>> PROVE Calm
  BY <1>0, <1>3 DEF IdleExec
<1>4. ASSUME NEW e \in Executors, NEW r \in Runs, NEW want \in Wanted, BeginClaim(e, r, want) PROVE Calm
  BY <1>0, <1>4 DEF BeginClaim, IdleExec
<1>5. ASSUME NEW e \in Executors, ReadRow(e) PROVE Calm
  BY <1>0, <1>5 DEF ReadRow, ExecStates
<1>6. ASSUME NEW e \in Executors, OwnerStep(e) PROVE Calm
  <2>1. UNCHANGED now /\ (exec' = exec \/ \E c \in Calls : \E mark : exec' = [exec EXCEPT ![e].calls[c] = mark])
    BY <1>6 DEF OwnerStep, Heartbeat, Consume, PutCheckpoint, SetCheckpoint, BeginEffect, CallTool, EndEffect
  <2>2. \A d \in Executors : exec'[d].pc = exec[d].pc /\ exec'[d].run = exec[d].run /\ exec'[d].token = exec[d].token
    BY <1>0, <2>1 DEF ExecStates
  <2>3. CASE UNCHANGED row
    BY <2>1, <2>2, <2>3
  <2>4. CASE Heartbeat(e)
    <3>1. row' = [row EXCEPT ![exec[e].run].until = now + LeaseSeconds] /\ LiveAt(exec[e].run, now)
      BY <2>4 DEF Heartbeat, Active, HoldsLease
    <3>2. \A r \in Runs : /\ row'[r].status = row[r].status /\ row'[r].epoch = row[r].epoch
                          /\ row'[r].token = row[r].token
                          /\ r # exec[e].run => row'[r] = row[r]
      BY <1>0, <3>1 DEF Rows
    <3> QED
      BY <2>1, <2>2, <3>1, <3>2
  <2>5. ASSUME NEW q \in Runs, NEW new, row' = [row EXCEPT ![q].checkpoint = new] \/ row' = [row EXCEPT ![q].usage = new]
        PROVE  Calm
    <3>1. \A r \in Runs : /\ row'[r].status = row[r].status /\ row'[r].epoch = row[r].epoch
                          /\ row'[r].token = row[r].token /\ row'[r].until = row[r].until
      <4>1. CASE row' = [row EXCEPT ![q].checkpoint = new]
        BY <1>0, <4>1 DEF Rows
      <4>2. CASE row' = [row EXCEPT ![q].usage = new]
        BY <1>0, <4>2 DEF Rows
      <4> QED
        BY <2>5, <4>1, <4>2
    <3> QED
      BY <2>1, <2>2, <3>1
  <2>6. CASE SetCheckpoint(e)
    <3>1. exec[e].run \in Runs
      BY <2>6 DEF SetCheckpoint, Active, HoldsLease, TypeOK
    <3> QED
      BY <2>5, <2>6, <3>1 DEF SetCheckpoint
  <2>7. CASE \E inc \in Increments : Consume(e, inc)
    <3>1. exec[e].run \in Runs
      BY <2>7 DEF Consume, Active, HoldsLease, TypeOK
    <3> QED
      BY <2>5, <2>7, <3>1 DEF Consume
  <2> QED
    BY <1>6, <2>3, <2>4, <2>6, <2>7 DEF OwnerStep, PutCheckpoint, BeginEffect, CallTool, EndEffect
<1> QED
  BY <1>1, <1>2, <1>3, <1>4, <1>5, <1>6 DEF vars, Acknowledge, ClaimRefused, FinishRejected, Crash

\* A run that was never submitted was never rewound.
BlankRows == \A r \in Runs : row[r].status = "absent" => row[r].epoch = 0

LEMMA BlankNext == TypeOK /\ BlankRows /\ [Next]_vars => BlankRows'
<1> SUFFICES ASSUME TypeOK, BlankRows, [Next]_vars, NEW r \in Runs
             PROVE  row'[r].status = "absent" => row'[r].epoch = 0
  BY DEF BlankRows
<1>1. row'[r] = row[r] \/ RowChange(r)
  BY RowNext DEF vars
<1> QED
  BY <1>1 DEF BlankRows, RowChange, Inserted, Updated, Leased, Rewound

\* Users: the row of one run changes, nobody has it afterwards.
LEMMA UserSteps ==
  ASSUME TypeOK, BlankRows, OwnersKnown, OwnersKnown', NEW r \in Runs, UserStep(r)
  PROVE  Authority!Next
<1>0. now \in Nat /\ row \in [Runs -> Rows] /\ row[r] \in Rows /\ UNCHANGED <<now, exec>>
  BY DEF TypeOK, UserStep, Create, Cancel, Resume, Retry, Rewind
<1>1. \A s \in Runs : s # r => row'[s] = row[s]
  BY <1>0 DEF UserStep, Create, Cancel, Resume, Retry, Rewind
<1>2. \A s \in Runs : s # r => Same(s)
  <2>1. \A s \in Runs, e \in Executors : s # r => (Holds(e, s)' <=> Holds(e, s))
    BY <1>0, <1>1 DEF Holds
  <2> QED
    BY <1>0, <1>1, <2>1, OthersAreSame
<1>3. row'[r].status # "running" => OwnerOf(r)' = Nobody
  BY DEF OwnersKnown, LiveAt, Nobody
<1>4. row[r].status # "running" => OwnerOf(r) = Nobody
  BY DEF OwnersKnown, LiveAt, Nobody
<1>5. CASE \E transport \in Transports : Create(r, transport)
  <2>1. row[r].status = "absent" /\ row'[r].status = "queued" /\ row'[r].epoch = 0
    BY <1>0, <1>5 DEF Create, AbsentRow
  <2>2. PhaseOf(r) = "absent" /\ PhaseOf(r)' = "open" /\ row'[r].epoch = row[r].epoch
    BY <2>1 DEF PhaseOf, BlankRows
  <2>3. OwnerOf(r)' = OwnerOf(r)
    BY <1>3, <1>4, <2>1
  <2>4. Authority!Submit(r)
    BY <2>2, <2>3, <1>2 DEF Authority!Submit, Same
  <2> QED
    BY <2>4 DEF Authority!Next
<1>6. CASE Cancel(r)
  <2>1. row[r].status \in Open /\ row'[r].status = "cancelled" /\ row'[r].epoch = row[r].epoch
    BY <1>0, <1>6 DEF Cancel, Rows
  <2>2. PhaseOf(r) \in {"open", "asking"} /\ PhaseOf(r)' = "closed"
    BY <2>1 DEF PhaseOf, Open
  <2>3. OwnerOf(r)' = Nobody
    BY <1>3, <2>1
  <2>4. Authority!Withdraw(r)
    BY <2>1, <2>2, <2>3, <1>2 DEF Authority!Withdraw, Same
  <2> QED
    BY <2>4 DEF Authority!Next
<1>7. CASE \/ \E answer \in Answers, notify \in Notify : Resume(r, answer, notify)
           \/ \E notify \in Notify : Retry(r, notify)
  <2>1. row[r].status \in {"waiting_input", "failed"} /\ row'[r].status = "queued" /\ row'[r].epoch = row[r].epoch
    BY <1>0, <1>7 DEF Resume, Retry, Rows
  <2>2. PhaseOf(r) \in {"asking", "failed"} /\ PhaseOf(r)' = "open"
    BY <2>1 DEF PhaseOf
  <2>3. OwnerOf(r)' = OwnerOf(r)
    BY <1>3, <1>4, <2>1
  <2>4. Authority!Continue(r)
    BY <2>1, <2>2, <2>3, <1>2 DEF Authority!Continue, Same
  <2> QED
    BY <2>4 DEF Authority!Next
<1>8. CASE \E checkpoint \in saved[r].writers, notify \in Notify : Rewind(r, checkpoint, notify)
  <2>1. /\ row[r].status \notin {"absent", "queued", "running"} /\ row'[r].status = "queued"
        /\ row'[r].epoch = row[r].epoch + 1
    BY <1>0, <1>8 DEF Rewind, Rows
  <2>2. PhaseOf(r) \in {"asking", "failed", "closed"} /\ PhaseOf(r)' = "open"
    BY <2>1 DEF PhaseOf
  <2>3. OwnerOf(r)' = OwnerOf(r)
    BY <1>3, <1>4, <2>1
  <2>4. Authority!GoBack(r)
    BY <2>1, <2>2, <2>3, <1>2 DEF Authority!GoBack, Same
  <2> QED
    BY <2>4 DEF Authority!Next
<1> QED
  BY <1>5, <1>6, <1>7, <1>8 DEF UserStep

\* finish by the owner.
LEMMA FinishSteps ==
  ASSUME TypeOK, OwnersKnown, OwnersKnown', TokensUnique, NEW e \in Executors, NEW verdict \in Verdicts,
         Finish(e, verdict)
  PROVE  Authority!Next
<1> PICK r \in Runs : r = exec[e].run
  BY DEF TypeOK, Finish, HoldsLease
<1>0. /\ r \in Runs /\ row \in [Runs -> Rows] /\ row[r] \in Rows /\ UNCHANGED now
      /\ exec \in [Executors -> ExecStates] /\ LiveAt(r, now) /\ Holds(e, r)
  BY DEF TypeOK, Finish, HoldsLease, Holds
<1>1. /\ \A s \in Runs : s # r => row'[s] = row[s]
      /\ row'[r].status = verdict /\ row'[r].epoch = row[r].epoch
  BY <1>0 DEF Finish, Rows
<1>2. \A s \in Runs : s # r => Same(s)
  <2>1. \A d \in Executors : d # e => exec'[d] = exec[d]
    BY <1>0 DEF Finish
  <2>2. exec'[e].pc = "idle" /\ exec[e].run = r
    BY <1>0 DEF Finish, IdleExec
  <2>3. \A s \in Runs, d \in Executors : s # r => (Holds(d, s)' <=> Holds(d, s))
    BY <1>1, <2>1, <2>2 DEF Holds
  <2> QED
    BY <1>0, <1>1, <2>3, OthersAreSame
<1>3. OwnerOf(r) = e /\ OwnerOf(r)' = Nobody /\ e # Nobody
  BY <1>0, <1>1, ExecutorsAssumption DEF OwnersKnown, LiveAt, Nobody, Verdicts
<1>4. PhaseOf(r) = "open" /\ PhaseOf(r)' \in {"asking", "failed", "closed"}
  BY <1>0, <1>1 DEF PhaseOf, LiveAt, Verdicts
<1>5. Authority!Settle(r, PhaseOf(r)')
  BY <1>0, <1>1, <1>2, <1>3, <1>4 DEF Authority!Settle, Same
<1> QED
  BY <1>0, <1>4, <1>5 DEF Authority!Next

\* A claim of a run that is over its deadline closes it; nobody has it.
LEMMA ExpiredClaims ==
  ASSUME TypeOK, OwnersKnown, OwnersKnown', NEW e \in Executors, ClaimExpired(e)
  PROVE  Authority!Next
<1> PICK r \in Runs : r = exec[e].run
  BY DEF TypeOK, ClaimExpired
<1>0. /\ r \in Runs /\ row \in [Runs -> Rows] /\ row[r] \in Rows /\ UNCHANGED now
      /\ exec \in [Executors -> ExecStates] /\ row[r].status \in {"queued", "running"} /\ ~LiveAt(r, now)
      /\ exec[e].pc = "claiming"
  BY DEF TypeOK, ClaimExpired, Claimable, LiveAt, Rows, ExecStates
<1>1. /\ \A s \in Runs : s # r => row'[s] = row[s]
      /\ row'[r].status = "timed_out" /\ row'[r].epoch = row[r].epoch
  BY <1>0 DEF ClaimExpired, Rows
<1>2. \A s \in Runs : s # r => Same(s)
  <2>1. /\ \A d \in Executors : d # e => exec'[d] = exec[d]
        /\ exec'[e].pc = "idle"
    BY <1>0 DEF ClaimExpired, IdleExec
  <2>2. \A s \in Runs, d \in Executors : s # r => (Holds(d, s)' <=> Holds(d, s))
    BY <1>0, <1>1, <2>1 DEF Holds
  <2> QED
    BY <1>0, <1>1, <2>2, OthersAreSame
<1>3. OwnerOf(r) = Nobody /\ OwnerOf(r)' = Nobody
  BY <1>0, <1>1 DEF OwnersKnown, LiveAt, Nobody
<1>4. PhaseOf(r) = "open" /\ PhaseOf(r)' = "closed"
  BY <1>0, <1>1 DEF PhaseOf
<1>5. Authority!Expire({r})
  <2>1. /\ [s \in Runs |-> PhaseOf(s)'] = [s \in Runs |-> IF s \in {r} THEN "closed" ELSE PhaseOf(s)]
        /\ [s \in Runs |-> row'[s].epoch] = [s \in Runs |-> row[s].epoch]
        /\ [s \in Runs |-> OwnerOf(s)'] = [s \in Runs |-> OwnerOf(s)]
    BY <1>1, <1>2, <1>3, <1>4 DEF Same
  <2> QED
    BY <1>0, <1>3, <1>4, <2>1 DEF Authority!Expire
<1> QED
  BY <1>0, <1>5 DEF Authority!Next

\* expire_waiting closes runs that wait for an answer: nobody has them.
LEMMA ExpireSteps ==
  ASSUME TypeOK, OwnersKnown, OwnersKnown', ExpireWaiting
  PROVE  Authority!Next
<1>0. /\ row \in [Runs -> Rows] /\ UNCHANGED <<now, exec>> /\ Overdue \subseteq Runs
      /\ \A r \in Overdue : row[r].status = "waiting_input"
  BY DEF TypeOK, ExpireWaiting, Overdue
<1>1. \A r \in Runs : /\ r \notin Overdue => row'[r] = row[r]
                      /\ r \in Overdue => row'[r].status = "timed_out"
                      /\ row'[r].epoch = row[r].epoch /\ row'[r].token = row[r].token
  BY <1>0 DEF ExpireWaiting, Rows
<1> HIDE DEF Overdue
<1>2. \A r \in Runs : /\ PhaseOf(r)' = IF r \in Overdue THEN "closed" ELSE PhaseOf(r)
                      /\ OwnerOf(r)' = OwnerOf(r)
                      /\ r \in Overdue => PhaseOf(r) = "asking" /\ OwnerOf(r) = Nobody
  <2> TAKE r \in Runs
  <2>1. CASE r \in Overdue
    BY <1>0, <1>1, <2>1 DEF PhaseOf, OwnersKnown, LiveAt, Nobody
  <2>2. CASE r \notin Overdue
    <3>0. row'[r] = row[r] /\ UNCHANGED <<now, exec>>
      BY <1>0, <1>1, <2>2
    <3>1. LiveAt(r, now)' <=> LiveAt(r, now)
      BY <3>0 DEF LiveAt
    <3>2. \A e \in Executors : Holds(e, r)' <=> Holds(e, r)
      BY <3>0 DEF Holds
    <3>3. PhaseOf(r)' = PhaseOf(r)
      BY <3>0 DEF PhaseOf
    <3> QED
      BY <2>2, <3>1, <3>2, <3>3, OwnerStays
  <2> QED
    BY <2>1, <2>2
<1>3. /\ [r \in Runs |-> PhaseOf(r)'] = [r \in Runs |-> IF r \in Overdue THEN "closed" ELSE PhaseOf(r)]
      /\ [r \in Runs |-> row'[r].epoch] = [r \in Runs |-> row[r].epoch]
      /\ [r \in Runs |-> OwnerOf(r)'] = [r \in Runs |-> OwnerOf(r)]
  BY <1>1, <1>2
<1>4. Authority!Expire(Overdue)
  BY <1>0, <1>2, <1>3 DEF Authority!Expire
<1> QED
  BY <1>0, <1>4 DEF Authority!Next

\* RunAuthority counts with its own copy of the library's definition.
LEMMA SameCount == ASSUME NEW S PROVE Authority!Cardinality(S) = Cardinality(S)
  BY DEF Authority!Cardinality, Cardinality

\* A granted claim makes its executor the owner, unless the lease it was granted at an
\* old clock reading has lapsed already: then nothing happened.
LEMMA GrantedClaims ==
  ASSUME TypeOK, OwnersKnown, OwnersKnown', NEW e \in Executors, ClaimGranted(e)
  PROVE  Authority!Next
<1> PICK r \in Runs : r = exec[e].run
  BY DEF TypeOK, ClaimGranted
<1> PICK c \in Nat : c = exec[e].clock /\ c <= now
  BY DEF TypeOK, ClaimGranted, ExecStates
<1>0. /\ r \in Runs /\ row \in [Runs -> Rows] /\ row[r] \in Rows /\ UNCHANGED now
      /\ exec \in [Executors -> ExecStates] /\ exec[e].pc = "claiming" /\ now \in Nat
      /\ row[r].status \in {"queued", "running"} /\ ~LiveAt(r, now)
      /\ \A s \in Runs : row[s].until \in Nat
  <2>1. row[r].status \in {"queued", "running"} /\ ~LiveAt(r, c) /\ row[r].until \in Nat
    BY DEF TypeOK, ClaimGranted, Claimable, Rows
  <2>2. ~LiveAt(r, now)
    BY <2>1 DEF LiveAt, TypeOK
  <2> QED
    BY <2>1, <2>2 DEF TypeOK, ClaimGranted, Rows
<1>1. /\ \A s \in Runs : s # r => row'[s] = row[s]
      /\ row'[r].status = "running" /\ row'[r].epoch = row[r].epoch /\ row'[r].token = nextToken
  BY <1>0 DEF ClaimGranted, Rows
<1>2. /\ \A d \in Executors : d # e => exec'[d] = exec[d]
      /\ exec'[e].pc = "claimed" /\ exec'[e].run = r /\ exec'[e].token = nextToken
  BY <1>0 DEF ClaimGranted, IdleExec
<1>3. \A s \in Runs : s # r => Same(s)
  <2>1. \A s \in Runs, d \in Executors : s # r => (Holds(d, s)' <=> Holds(d, s))
    BY <1>0, <1>1, <1>2 DEF Holds
  <2> QED
    BY <1>0, <1>1, <2>1, OthersAreSame
<1>4. PhaseOf(r) = "open" /\ PhaseOf(r)' = "open"
  BY <1>0, <1>1 DEF PhaseOf
<1>5. OwnerOf(r) = Nobody
  BY <1>0 DEF OwnersKnown
<1>6. CASE ~LiveAt(r, now)'
  <2>1. OwnerOf(r)' = Nobody
    BY <1>6 DEF OwnersKnown, Nobody
  <2> QED
    BY <1>1, <1>3, <1>4, <2>1, OwnersAreLost DEF Same
<1>7. CASE LiveAt(r, now)'
  <2>1. OwnerOf(r)' = e
    BY <1>1, <1>2, <1>7 DEF OwnersKnown, Holds
  <2> DEFINE others == {s \in Runs \ {r} : LiveAt(s, c)}
             owned  == {s \in Runs : OwnerOf(s) # Nobody}
  <2>2. Cardinality(others) < MaxRunning
    BY DEF ClaimGranted, RoomToRun
  <2>3. owned \subseteq others
    <3> SUFFICES ASSUME NEW s \in Runs, OwnerOf(s) # Nobody PROVE s # r /\ LiveAt(s, c)
      OBVIOUS
    <3>1. LiveAt(s, now)
      BY DEF OwnersKnown
    <3> QED
      BY <1>0, <1>5, <3>1 DEF LiveAt
  <2>4. Cardinality(owned) < MaxRunning
    <3>1. IsFiniteSet(others)
      BY RunsAssumption, FS_Subset
    <3>2. IsFiniteSet(owned) /\ Cardinality(owned) <= Cardinality(others)
      BY <2>3, <3>1, FS_Subset
    <3>3. Cardinality(others) \in Nat /\ Cardinality(owned) \in Nat
      BY <3>1, <3>2, FS_CardinalityType
    <3> QED
      BY <2>2, <3>2, <3>3, TimeAssumption
  <2>5. {s \in Runs : [t \in Runs |-> OwnerOf(t)][s] # Nobody} = owned
    OBVIOUS
  <2> HIDE DEF others, owned
  <2>6. /\ [s \in Runs |-> PhaseOf(s)'] = [s \in Runs |-> PhaseOf(s)]
        /\ [s \in Runs |-> row'[s].epoch] = [s \in Runs |-> row[s].epoch]
        /\ [s \in Runs |-> OwnerOf(s)'] = [[s \in Runs |-> OwnerOf(s)] EXCEPT ![r] = e]
    BY <1>1, <1>3, <1>4, <2>1 DEF Same
  <2>7. Authority!Acquire(r, e)
    BY <1>4, <1>5, <2>4, <2>5, <2>6, SameCount DEF Authority!Acquire, Authority!Owned
  <2> QED
    BY <2>7 DEF Authority!Next
<1> QED
  BY <1>6, <1>7

-----------------------------------------------------------------------------
(* The refinement.                                                          *)

\* Every step of the run database is a step of the authority or leaves it alone.
LEMMA AuthorityStep ==
  TypeOK /\ BlankRows /\ TokensUnique /\ OwnersKnown /\ OwnersKnown' /\ [Next]_vars => Authority!Next
<1> SUFFICES ASSUME TypeOK, BlankRows, TokensUnique, OwnersKnown, OwnersKnown', [Next]_vars
             PROVE  Authority!Next
  OBVIOUS
<1>1. ASSUME NEW r \in Runs, UserStep(r) PROVE Authority!Next
  BY <1>1, UserSteps
<1>2. ASSUME NEW e \in Executors, ClaimStep(e), ~ClaimRefused(e) PROVE Authority!Next
  BY <1>2, ExpiredClaims, GrantedClaims DEF ClaimStep
<1>3. ASSUME NEW e \in Executors, FinishStep(e), ~FinishRejected(e) PROVE Authority!Next
  BY <1>3, FinishSteps DEF FinishStep
<1>4. CASE ExpireWaiting
  BY <1>4, ExpireSteps
<1>5. CASE \/ Tick \/ UNCHANGED vars \/ \E m \in Messages : Acknowledge(m)
           \/ \E e \in Executors : \/ ClaimRefused(e) \/ ReadRow(e) \/ FinishRejected(e)
                                 \/ Crash(e) \/ OwnerStep(e)
                                 \/ \E r \in Runs, want \in Wanted : BeginClaim(e, r, want)
  BY <1>5, CalmSteps, CalmStep
<1> QED
  BY <1>1, <1>2, <1>3, <1>4, <1>5 DEF Next

\* "The authority of a run is the database", for any number of runs and executors: the
\* run database implements RunAuthority, in which only leases, users and owners decide.
THEOREM StoreImplementsAuthority == Spec => ImplementsAuthority
<1>1. Init => Authority!Init /\ BlankRows
  <2> SUFFICES ASSUME Init PROVE Authority!Init /\ BlankRows
    OBVIOUS
  <2>1. \A r \in Runs : PhaseOf(r) = "absent" /\ row[r].epoch = 0 /\ OwnerOf(r) = Nobody
    BY DEF Init, AbsentRow, PhaseOf, OwnerOf, LiveAt
  <2> QED
    BY <2>1 DEF Authority!Init, BlankRows
<1>2. TokensUnique => OwnersKnown
  BY OneOwnerAtMost
<1>3. TypeOK /\ BlankRows /\ [Next]_vars => BlankRows'
  BY BlankNext
<1>4. TypeOK /\ BlankRows /\ TokensUnique /\ OwnersKnown /\ OwnersKnown' /\ [Next]_vars
      => [Authority!Next]_(Authority!vars)
  BY AuthorityStep
<1>5. Spec => [](TypeOK /\ BlankRows /\ TokensUnique)
  BY <1>1, <1>3, TypeCorrect, TokensKept, PTL DEF Spec
<1> QED
  BY <1>1, <1>2, <1>4, <1>5, PTL DEF Spec, ImplementsAuthority, Authority!Spec
=============================================================================
