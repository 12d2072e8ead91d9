------------------------------ MODULE RunStore ------------------------------
(***************************************************************************)
(* The run authority of the legal agent: agent_runtime/store.py, the       *)
(* SQLite database that owns every run, with the fenced checkpoint         *)
(* database of agent_runtime/checkpointer.py beside it.                    *)
(*                                                                         *)
(* Each method of RunStore is one SQLite transaction (BEGIN IMMEDIATE), so *)
(* each is one action here.  What is not atomic is kept apart: claim reads *)
(* the clock BEFORE it waits for the write lock (BeginClaim, then one of   *)
(* the three Claim actions), AgentService.execute reads the row in a       *)
(* second transaction after the claim (ReadRow), and a tool's body runs    *)
(* outside every transaction (CallTool).                                   *)
(*                                                                         *)
(* The callers are the executors: threads and processes that went through  *)
(* claim.  An executor may call any method in any order, may be overtaken  *)
(* (its lease lapses while it still runs) and may crash.  What             *)
(* AgentService.execute does in which order belongs to RunExecution.       *)
(*                                                                         *)
(* Left out: the events table (an append-only log nothing reads back), the *)
(* text of requests, results and errors, and the intents kept inside an    *)
(* effect row.                                                             *)
(***************************************************************************)
EXTENDS Naturals, FiniteSets

CONSTANTS
  Runs,           \* run ids that submit may hand out
  Executors,      \* the threads and processes that execute runs
  Transports,     \* where requests come from: a subset of {"local", "kafka"}
  Calls,          \* identities of tool calls within one epoch of a run
  WriteCalls,     \* those made with read_only=False
  Answers,        \* what a user may answer
  Revisions,      \* knowledge revisions an executor may pin
  Counters,       \* budget counters: model_calls, text_tokens, node_steps
  Increments,     \* the amounts one consume call may ask for
  Budget,         \* the request's budget of each counter
  NoRun, NoAnswer, NoPin,   \* SQL NULLs
  MaxRunning,     \* scheduler.max_running_runs
  LeaseSeconds,   \* lease_seconds (30 in the code)
  BudgetSeconds,  \* budgets.seconds: the deadline is created + BudgetSeconds
  \* Bounds of the model, not of the code:
  MaxTime,        \* the clock stops here
  MaxCreate,      \* no run is submitted later than this
  MaxEpoch,       \* no run is rewound more often than this
  MaxClaims,      \* no more leases are granted than this
  MaxBodies       \* no read-only body is started again after this many calls

ASSUME RunsAssumption == IsFiniteSet(Runs) /\ NoRun \notin Runs
ASSUME ExecutorsAssumption == NoRun \notin Executors
ASSUME TransportsAssumption == Transports \subseteq {"local", "kafka"}
ASSUME CallsAssumption == WriteCalls \subseteq Calls
ASSUME NullsAssumption == NoAnswer \notin Answers /\ NoPin \notin Revisions
ASSUME BudgetAssumption ==
  /\ Budget \in [Counters -> Nat]
  /\ Increments \subseteq [Counters -> Nat]
ASSUME TimeAssumption ==
  /\ MaxRunning \in Nat \ {0}
  /\ LeaseSeconds \in Nat \ {0}
  /\ BudgetSeconds \in Nat \ {0}
ASSUME BoundAssumption ==
  /\ MaxTime \in Nat /\ MaxCreate \in Nat /\ MaxEpoch \in Nat
  /\ MaxClaims \in Nat /\ MaxBodies \in Nat

VARIABLES
  now,        \* time.time()
  row,        \* the runs table
  exec,       \* per executor: what it took out of the store
  nextToken,  \* lease tokens are fresh uuids: numbers handed out in order
  saved,      \* the checkpoint database: who wrote checkpoints of the run's thread
  outbox,     \* how many unsent messages there are of each kind
  effects,    \* the effects table: the status of each tool call
  bodies,     \* how often each tool body was really invoked (observed only)
  pins        \* the pins table: the knowledge revision an epoch reads

vars == <<now, row, exec, nextToken, saved, outbox, effects, bodies, pins>>
ledger == <<effects, bodies, pins>>

-----------------------------------------------------------------------------

Epochs   == 0 .. MaxEpoch
AnyEpoch == MaxEpoch + 1     \* execute(run_id) without an epoch
Status   == {"absent", "queued", "running", "waiting_input", "succeeded",
             "failed", "cancelled", "timed_out"}
Open     == {"queued", "running", "waiting_input"}
Settled  == {"succeeded", "cancelled", "timed_out"}
Effects  == Runs \X Epochs \X Calls
Messages == {"pending", "result"} \X Runs \X Epochs
NoToken  == 0
NullTime == 0

\* The columns of a row that was never inserted.
AbsentRow ==
  [status |-> "absent", epoch |-> 0, created |-> 0, deadline |-> 0,
   token |-> NoToken, until |-> NullTime, resume |-> NoAnswer, checkpoint |-> NoToken,
   usage |-> [c \in Counters |-> 0], transport |-> "local"]

\* A thread without checkpoints: its writers, and the writer of the latest one.
NoThread == [writers |-> {}, last |-> NoToken]

NoCalls == [c \in Calls |-> "none"]
IdleExec ==
  [pc |-> "idle", run |-> NoRun, epoch |-> 0, token |-> NoToken, clock |-> 0, calls |-> NoCalls]

Init ==
  /\ now = 1
  /\ row = [r \in Runs |-> AbsentRow]
  /\ exec = [e \in Executors |-> IdleExec]
  /\ nextToken = 1
  /\ saved = [r \in Runs |-> NoThread]
  /\ outbox = [m \in Messages |-> 0]
  /\ effects = [k \in Effects |-> "none"]
  /\ bodies = [k \in Effects |-> 0]
  /\ pins = [k \in Runs \X Epochs |-> NoPin]

-----------------------------------------------------------------------------
(* Helpers of the store.                                                    *)

\* A running row whose lease has not lapsed at time t.
LiveAt(r, t) == row[r].status = "running" /\ row[r].until > t

\* Variant: requests that did not come from Kafka are announced as well.
EnqueueAlways(send, topic, r, epoch) == outbox' = [outbox EXCEPT ![<<topic, r, epoch>>] = @ + 1]

\* _enqueue: one more unsent message, inserted by the same transaction.
Enqueue(send, topic, r, epoch) ==
  outbox' = IF send THEN [outbox EXCEPT ![<<topic, r, epoch>>] = @ + 1] ELSE outbox

\* Variant: finish does not compare the token: every executor of the epoch passes.
HoldsLeaseAnyToken(e) ==
  exec[e].pc = "running" /\ row[exec[e].run].epoch = exec[e].epoch /\ LiveAt(exec[e].run, now)

\* What finish demands of its caller: the same epoch, the same token, a live lease.
HoldsLease(e) ==
  LET x == exec[e] IN
  /\ x.pc = "running"
  /\ row[x.run].epoch = x.epoch
  /\ row[x.run].token = x.token
  /\ LiveAt(x.run, now)

\* Variant: _active does not compare the token.
ActiveAnyToken(e) == HoldsLeaseAnyToken(e) /\ row[exec[e].run].deadline > now

\* _active: every other write also demands that the deadline lies ahead.
Active(e) == HoldsLease(e) /\ row[exec[e].run].deadline > now

-----------------------------------------------------------------------------
(* Submitting and claiming.                                                 *)

Create(r, transport) ==
  /\ row[r].status = "absent"
  /\ now <= MaxCreate
  /\ row' = [row EXCEPT ![r] =
       [AbsentRow EXCEPT !.status = "queued", !.deadline = now + BudgetSeconds,
                         !.created = Cardinality({s \in Runs : row[s].status # "absent"}),
                         !.transport = transport]]
  /\ Enqueue(transport = "kafka", "pending", r, 0)
  /\ UNCHANGED <<now, exec, nextToken, saved, ledger>>

\* The bound on leases: a claim is begun only while a token is left for it, or
\* when it can no longer need one.
ClaimInBounds(r) ==
  \/ nextToken + Cardinality({e \in Executors : exec[e].pc = "claiming"}) <= MaxClaims
  \/ row[r].deadline <= now

\* claim reads the clock, then waits for the write lock.
BeginClaim(e, r, want) ==
  /\ exec[e].pc = "idle"
  /\ row[r].status # "absent"
  /\ ClaimInBounds(r)
  /\ exec' = [exec EXCEPT ![e] =
       [IdleExec EXCEPT !.pc = "claiming", !.run = r, !.epoch = want, !.clock = now]]
  /\ UNCHANGED <<now, row, nextToken, saved, outbox, ledger>>

\* Variant: claim does not look at a running row's lease.
ClaimableWhileLive(e) ==
  /\ exec[e].epoch \in {AnyEpoch, row[exec[e].run].epoch}
  /\ row[exec[e].run].status \in {"queued", "running"}

\* The row can be claimed, as seen at the clock the claim read.
Claimable(e) ==
  LET r == exec[e].run IN
  /\ exec[e].epoch \in {AnyEpoch, row[r].epoch}
  /\ row[r].status \in {"queued", "running"}
  /\ ~LiveAt(r, exec[e].clock)

\* Variant: one run too many is let in.
RoomToRunOffByOne(e) ==
  Cardinality({r \in Runs \ {exec[e].run} : LiveAt(r, exec[e].clock)}) <= MaxRunning

RoomToRun(e) ==
  Cardinality({r \in Runs \ {exec[e].run} : LiveAt(r, exec[e].clock)}) < MaxRunning

ClaimRefused(e) ==
  /\ exec[e].pc = "claiming"
  /\ ~(Claimable(e) /\ RoomToRun(e))
  /\ exec' = [exec EXCEPT ![e] = IdleExec]
  /\ UNCHANGED <<now, row, nextToken, saved, outbox, ledger>>

\* Variant: an overdue run is left as it is.
ClaimExpiredKeepsQueued(e) ==
  /\ exec[e].pc = "claiming"
  /\ Claimable(e) /\ RoomToRun(e)
  /\ row[exec[e].run].deadline <= exec[e].clock
  /\ exec' = [exec EXCEPT ![e] = IdleExec]
  /\ UNCHANGED <<now, row, nextToken, saved, outbox, ledger>>

\* Variant: claim writes a status that RunStatus does not have.
ClaimExpiredUnknownStatus(e) ==
  LET r == exec[e].run IN
  /\ exec[e].pc = "claiming"
  /\ Claimable(e) /\ RoomToRun(e)
  /\ row[r].deadline <= exec[e].clock
  /\ row' = [row EXCEPT ![r].status = "expired"]
  /\ Enqueue(row[r].transport = "kafka", "result", r, row[r].epoch)
  /\ exec' = [exec EXCEPT ![e] = IdleExec]
  /\ UNCHANGED <<now, nextToken, saved, ledger>>

\* The run outlived its deadline unclaimed: claim itself settles it.
ClaimExpired(e) ==
  LET r == exec[e].run IN
  /\ exec[e].pc = "claiming"
  /\ Claimable(e) /\ RoomToRun(e)
  /\ row[r].deadline <= exec[e].clock
  /\ row' = [row EXCEPT ![r].status = "timed_out"]
  /\ Enqueue(row[r].transport = "kafka", "result", r, row[r].epoch)
  /\ exec' = [exec EXCEPT ![e] = IdleExec]
  /\ UNCHANGED <<now, nextToken, saved, ledger>>

ClaimGranted(e) ==
  LET r == exec[e].run IN
  /\ exec[e].pc = "claiming"
  /\ Claimable(e) /\ RoomToRun(e)
  /\ row[r].deadline > exec[e].clock
  /\ nextToken' = nextToken + 1
  /\ row' = [row EXCEPT ![r].status = "running", ![r].token = nextToken,
                        ![r].until = exec[e].clock + LeaseSeconds]
  /\ exec' = [exec EXCEPT ![e] =
       [IdleExec EXCEPT !.pc = "claimed", !.run = r, !.token = nextToken]]
  /\ UNCHANGED <<now, saved, outbox, ledger>>

\* execute reads the row after the claim committed: the epoch it will present.
ReadRow(e) ==
  /\ exec[e].pc = "claimed"
  /\ exec' = [exec EXCEPT ![e].pc = "running", ![e].epoch = row[exec[e].run].epoch]
  /\ UNCHANGED <<now, row, nextToken, saved, outbox, ledger>>

-----------------------------------------------------------------------------
(* What the owner of a run may write.                                       *)

\* The heartbeat thread and RunContext.check.
Heartbeat(e) ==
  /\ Active(e)
  /\ row' = [row EXCEPT ![exec[e].run].until = now + LeaseSeconds]
  /\ UNCHANGED <<now, exec, nextToken, saved, outbox, ledger>>

\* Variant: the budget is compared before it is charged.
ConsumeUnchecked(e, inc) ==
  /\ Active(e)
  /\ row' = [row EXCEPT ![exec[e].run].usage = [c \in Counters |-> @[c] + inc[c]]]
  /\ \A c \in Counters : row[exec[e].run].usage[c] <= Budget[c]
  /\ UNCHANGED <<now, exec, nextToken, saved, outbox, ledger>>

\* Counters are charged one by one; an overrun rolls the whole call back.
Consume(e, inc) ==
  LET used == row[exec[e].run].usage IN
  /\ Active(e)
  /\ \A c \in Counters : used[c] + inc[c] <= Budget[c]
  /\ row' = [row EXCEPT ![exec[e].run].usage = [c \in Counters |-> used[c] + inc[c]]]
  /\ UNCHANGED <<now, exec, nextToken, saved, outbox, ledger>>

\* FencedSqliteSaver.put writes the graph checkpoint inside the authority's
\* transaction.  A checkpoint is known here by the token of its writer.
PutCheckpoint(e) ==
  /\ Active(e)
  /\ saved' = [saved EXCEPT ![exec[e].run] =
       [writers |-> @.writers \cup {exec[e].token}, last |-> exec[e].token]]
  /\ UNCHANGED <<now, row, exec, nextToken, outbox, ledger>>

\* The caller passes the thread's latest checkpoint, whoever wrote it.
SetCheckpoint(e) ==
  /\ Active(e)
  /\ saved[exec[e].run].writers # {}
  /\ row' = [row EXCEPT ![exec[e].run].checkpoint = saved[exec[e].run].last]
  /\ UNCHANGED <<now, exec, nextToken, saved, outbox, ledger>>

\* pin inserts once per (run, epoch); its primary key is its only fence.
InsertPin(e, revision) ==
  LET k == <<exec[e].run, exec[e].epoch>> IN
  /\ exec[e].pc = "running"
  /\ pins[k] = NoPin
  /\ pins' = [pins EXCEPT ![k] = revision]
  /\ UNCHANGED <<now, row, exec, nextToken, saved, outbox, effects, bodies>>

EffectOf(e, c) == <<exec[e].run, exec[e].epoch, c>>

\* Variant: begin_effect without the cache of finished calls.
BeginEffectForgetsDone(e, c) ==
  /\ Active(e)
  /\ exec[e].calls[c] = "none"
  /\ effects[EffectOf(e, c)] # "none" => c \notin WriteCalls /\ bodies[EffectOf(e, c)] < MaxBodies
  /\ effects' = [effects EXCEPT ![EffectOf(e, c)] = "started"]
  /\ exec' = [exec EXCEPT ![e].calls[c] = "begun"]
  /\ UNCHANGED <<now, row, nextToken, saved, outbox, bodies, pins>>

\* begin_effect lets the body run: a new call, or an unfinished read-only one.
\* A call that is done is answered from the ledger and an unfinished write raises
\* OutcomeUnknown; neither changes the store.
BeginEffect(e, c) ==
  LET k == EffectOf(e, c) IN
  /\ Active(e)
  /\ exec[e].calls[c] = "none"
  /\ \/ effects[k] = "none"
     \/ /\ effects[k] \in {"started", "failed"}
        /\ c \notin WriteCalls
        /\ bodies[k] < MaxBodies
  /\ effects' = [effects EXCEPT ![k] = "started"]
  /\ exec' = [exec EXCEPT ![e].calls[c] = "begun"]
  /\ UNCHANGED <<now, row, nextToken, saved, outbox, bodies, pins>>

\* The tool's body: outside the store, so no fence stops a lapsed owner here.
CallTool(e, c) ==
  /\ exec[e].pc = "running"
  /\ exec[e].calls[c] = "begun"
  /\ bodies' = [bodies EXCEPT ![EffectOf(e, c)] = @ + 1]
  /\ exec' = [exec EXCEPT ![e].calls[c] = "called"]
  /\ UNCHANGED <<now, row, nextToken, saved, outbox, effects, pins>>

EndEffect(e, c, outcome) ==
  /\ Active(e)
  /\ exec[e].calls[c] = "called"
  /\ effects' = [effects EXCEPT ![EffectOf(e, c)] = outcome]
  /\ exec' = [exec EXCEPT ![e].calls[c] = "none"]
  /\ UNCHANGED <<now, row, nextToken, saved, outbox, bodies, pins>>

\* finish: the owner's verdict.  It tests the lease but not the deadline, so that an
\* executor that ran into its deadline can still record timed_out.
Verdicts == {"waiting_input", "succeeded", "failed", "timed_out"}

Finish(e, verdict) ==
  LET r == exec[e].run IN
  /\ HoldsLease(e)
  /\ row' = [row EXCEPT ![r].status = verdict, ![r].token = NoToken, ![r].until = NullTime]
  /\ Enqueue(row[r].transport = "kafka", "result", r, row[r].epoch)
  /\ exec' = [exec EXCEPT ![e] = IdleExec]
  /\ UNCHANGED <<now, nextToken, saved, ledger>>

\* finish by anyone else returns False and changes nothing.
FinishRejected(e) ==
  /\ exec[e].pc = "running"
  /\ ~HoldsLease(e)
  /\ exec' = [exec EXCEPT ![e] = IdleExec]
  /\ UNCHANGED <<now, row, nextToken, saved, outbox, ledger>>

\* The process dies: nothing of what it held in memory is left.
Crash(e) ==
  /\ exec[e].pc # "idle"
  /\ exec' = [exec EXCEPT ![e] = IdleExec]
  /\ UNCHANGED <<now, row, nextToken, saved, outbox, ledger>>

-----------------------------------------------------------------------------
(* What users and the recovery loop may do.                                 *)

\* cancel clears the token and leaves lease_until behind.
Cancel(r) ==
  /\ row[r].status \in Open
  /\ row' = [row EXCEPT ![r].status = "cancelled", ![r].token = NoToken]
  /\ UNCHANGED <<now, exec, nextToken, saved, outbox, ledger>>

\* requeue(answer=...): a waiting run goes back into the queue.
Resume(r, answer, notify) ==
  /\ row[r].status = "waiting_input"
  /\ row[r].deadline > now
  /\ row' = [row EXCEPT ![r].status = "queued", ![r].resume = answer]
  /\ Enqueue(notify, "pending", r, row[r].epoch)
  /\ UNCHANGED <<now, exec, nextToken, saved, ledger>>

\* requeue(retry=True): a failed run does, and keeps the answer of its last resume.
Retry(r, notify) ==
  /\ row[r].status = "failed"
  /\ row[r].deadline > now
  /\ row' = [row EXCEPT ![r].status = "queued"]
  /\ Enqueue(notify, "pending", r, row[r].epoch)
  /\ UNCHANGED <<now, exec, nextToken, saved, ledger>>

\* Variant: rewind keeps the epoch.
RewindSameEpoch(r, checkpoint, notify) ==
  /\ row[r].status \notin {"absent", "queued", "running"}
  /\ row[r].deadline > now
  /\ checkpoint \in saved[r].writers
  /\ row' = [row EXCEPT ![r].status = "queued", ![r].checkpoint = checkpoint,
                        ![r].resume = NoAnswer, ![r].token = NoToken]
  /\ Enqueue(notify, "pending", r, row[r].epoch)
  /\ UNCHANGED <<now, exec, nextToken, saved, ledger>>

\* Variant: rewind does not look at the effects table.
RewindOverWrites(r, checkpoint, notify) ==
  /\ row[r].status \notin {"absent", "queued", "running"}
  /\ row[r].deadline > now
  /\ checkpoint \in saved[r].writers
  /\ row[r].epoch < MaxEpoch
  /\ row' = [row EXCEPT ![r].epoch = @ + 1, ![r].status = "queued",
                        ![r].checkpoint = checkpoint, ![r].resume = NoAnswer,
                        ![r].token = NoToken]
  /\ UNCHANGED <<now, exec, nextToken, saved, outbox, ledger>>

WroteSomething(r) ==
  \E k \in Effects : k[1] = r /\ k[3] \in WriteCalls /\ effects[k] # "none"

Rewind(r, checkpoint, notify) ==
  LET old == row[r].epoch IN
  /\ row[r].status \notin {"absent", "queued", "running"}
  /\ row[r].deadline > now
  /\ checkpoint \in saved[r].writers
  /\ ~WroteSomething(r)
  /\ old < MaxEpoch
  /\ row' = [row EXCEPT ![r].epoch = old + 1, ![r].status = "queued",
                        ![r].checkpoint = checkpoint, ![r].resume = NoAnswer,
                        ![r].token = NoToken]
  /\ pins' = [pins EXCEPT ![<<r, old + 1>>] = IF pins[<<r, old>>] = NoPin THEN @ ELSE pins[<<r, old>>]]
  /\ Enqueue(notify, "pending", r, old + 1)
  /\ UNCHANGED <<now, exec, nextToken, saved, effects, bodies>>

\* expire_waiting: every waiting run past its deadline, in one transaction.
Overdue == {r \in Runs : row[r].status = "waiting_input" /\ row[r].deadline < now}

ExpireWaiting ==
  /\ Overdue # {}
  /\ row' = [r \in Runs |-> IF r \in Overdue THEN [row[r] EXCEPT !.status = "timed_out"] ELSE row[r]]
  /\ outbox' = [m \in Messages |->
       IF /\ m[1] = "result" /\ m[2] \in Overdue
          /\ row[m[2]].transport = "kafka" /\ row[m[2]].epoch = m[3]
       THEN outbox[m] + 1 ELSE outbox[m]]
  /\ UNCHANGED <<now, exec, nextToken, saved, ledger>>

\* acknowledge_outbox: the broker confirmed a message, which is never sent again.
Acknowledge(m) ==
  /\ outbox[m] > 0
  /\ outbox' = [outbox EXCEPT ![m] = @ - 1]
  /\ UNCHANGED <<now, row, exec, nextToken, saved, ledger>>

Tick ==
  /\ now < MaxTime
  /\ now' = now + 1
  /\ UNCHANGED <<row, exec, nextToken, saved, outbox, ledger>>

-----------------------------------------------------------------------------
(* The specification.                                                       *)

\* Whom InsertPin pins for what is a matter of the service: it is a step of RunExecution.
OwnerStep(e) ==
  \/ Heartbeat(e)
  \/ \E inc \in Increments : Consume(e, inc)
  \/ PutCheckpoint(e)
  \/ SetCheckpoint(e)
  \/ \E c \in Calls : BeginEffect(e, c)
  \/ \E c \in Calls : CallTool(e, c)
  \/ \E c \in Calls, outcome \in {"done", "failed"} : EndEffect(e, c, outcome)

ClaimStep(e) == ClaimRefused(e) \/ ClaimExpired(e) \/ ClaimGranted(e)
FinishStep(e) == FinishRejected(e) \/ \E verdict \in Verdicts : Finish(e, verdict)

\* Only a service attached to Kafka passes a topic along with resume and rewind, and
\* only the receiver of a Kafka message names the epoch it wants to execute.
Kafka  == "kafka" \in Transports
Notify == {FALSE, Kafka}
Wanted == {AnyEpoch} \cup {epoch \in Epochs : Kafka}

UserStep(r) ==
  \/ \E transport \in Transports : Create(r, transport)
  \/ Cancel(r)
  \/ \E answer \in Answers, notify \in Notify : Resume(r, answer, notify)
  \/ \E notify \in Notify : Retry(r, notify)
  \/ \E checkpoint \in saved[r].writers, notify \in Notify : Rewind(r, checkpoint, notify)

Next ==
  \/ \E r \in Runs : UserStep(r)
  \/ \E e \in Executors, r \in Runs, want \in Wanted : BeginClaim(e, r, want)
  \/ \E e \in Executors : ClaimStep(e)
  \/ \E e \in Executors : ReadRow(e)
  \/ \E e \in Executors : OwnerStep(e)
  \/ \E e \in Executors : FinishStep(e)
  \/ \E e \in Executors : Crash(e)
  \/ ExpireWaiting
  \/ \E m \in Messages : Acknowledge(m)
  \/ Tick

Spec == Init /\ [][Next]_vars

\* recoverable(), cut to the first MaxRunning runs in submission order: what one
\* round of AgentService.recover executes.
Recoverable == {r \in Runs : \/ row[r].status = "queued"
                             \/ row[r].status = "running" /\ row[r].until < now}
RecoverHead == {r \in Recoverable :
  Cardinality({s \in Recoverable : row[s].created < row[r].created}) < MaxRunning}
RecoverClaim(e, r) == r \in RecoverHead /\ BeginClaim(e, r, AnyEpoch)
RecoveringClaim(e, r) == exec[e].run = r /\ exec[e].epoch = AnyEpoch

\* Time passes; the recovery loop runs every round (a round tries each run of the
\* head, so a run that keeps coming back to the head is tried again and again, and
\* whoever tries it does not die in the middle of every claim); and an execution ends,
\* because model and tool calls have time limits of their own.
Fairness ==
  /\ WF_vars(Tick)
  /\ WF_vars(ExpireWaiting)
  /\ \A r \in Runs : /\ SF_vars(\E e \in Executors : RecoverClaim(e, r))
                    /\ SF_vars(\E e \in Executors : RecoveringClaim(e, r) /\ ClaimStep(e))
  /\ \A e \in Executors : WF_vars(ReadRow(e)) /\ WF_vars(FinishStep(e))

FairSpec == Spec /\ Fairness

-----------------------------------------------------------------------------
(* Properties.                                                              *)

Rows ==
  [status : Status, epoch : Epochs, created : Nat, deadline : Nat, token : Nat,
   until : Nat, resume : Answers \cup {NoAnswer}, checkpoint : Nat,
   usage : [Counters -> Nat], transport : {"local", "kafka"}]

ExecStates ==
  [pc : {"idle", "claiming", "claimed", "running"}, run : Runs \cup {NoRun},
   epoch : Epochs \cup {AnyEpoch}, token : Nat, clock : Nat,
   calls : [Calls -> {"none", "begun", "called"}]]

\* The columns hold values of their types, an executor that is past claim names a
\* run, and no clock reading lies in the future.
TypeOK ==
  /\ now \in Nat
  /\ row \in [Runs -> Rows]
  /\ exec \in [Executors -> ExecStates]
  /\ nextToken \in Nat \ {0}
  /\ saved \in [Runs -> [writers : SUBSET Nat, last : Nat]]
  /\ outbox \in [Messages -> Nat]
  /\ effects \in [Effects -> {"none", "started", "failed", "done"}]
  /\ bodies \in [Effects -> Nat]
  /\ pins \in [Runs \X Epochs -> Revisions \cup {NoPin}]
  /\ \A e \in Executors : exec[e].pc # "idle" => exec[e].run \in Runs /\ exec[e].clock <= now

\* "The run database limits the number of runs at a time to max_running_runs": never
\* more live leases than that, although claim counts them at a clock reading that may
\* be older than its transaction and heartbeats keep prolonging the others.
RunningLimit == Cardinality({r \in Runs : LiveAt(r, now)}) <= MaxRunning

\* "A run has one valid owner": no two executors pass the checks of finish for the
\* same run, however often its lease lapsed and was granted again.
SoleOwner ==
  \A e1, e2 \in Executors :
    HoldsLease(e1) /\ HoldsLease(e2) /\ exec[e1].run = exec[e2].run => e1 = e2

\* "Writes of an old executor are fenced by lease and epoch": within an epoch the
\* checkpoint of a run is never taken back by an executor that claimed it earlier.
NewestOwnerWins ==
  [][\A r \in Runs : row'[r].epoch = row[r].epoch => row'[r].checkpoint >= row[r].checkpoint]_vars

\* "After a cancellation or a rewind the new state cannot be overwritten": a run that
\* succeeded, was cancelled or timed out is opened again by a rewind only, which
\* starts a new epoch, and never once its deadline has passed.
SettledStays ==
  [][\A r \in Runs : row[r].status \in Settled /\ row'[r].status # row[r].status
       => row'[r].epoch = row[r].epoch + 1 /\ row[r].deadline > now]_vars

\* "An interrupted write is never retried or rewound blindly": whatever crashes, lapses,
\* retries and rewinds happen, a write's body is invoked at most once over all epochs.
WriteAtMostOnce ==
  \A r \in Runs, c \in WriteCalls : \A i, j \in Epochs :
    /\ bodies[<<r, i, c>>] <= 1
    /\ bodies[<<r, i, c>>] > 0 /\ bodies[<<r, j, c>>] > 0 => i = j

\* "A recorded result is reused on replay": once a call is done it stays done, and no
\* executor is let into its body again.
DoneIsFinal ==
  [][\A k \in Effects : effects[k] = "done" =>
       /\ effects'[k] = "done"
       /\ \A e \in Executors : exec'[e].calls[k[3]] = "begun" /\ EffectOf(e, k[3]) = k
                              => exec[e].calls[k[3]] = "begun"]_vars

\* "Recovery does not reset the budget": usage of every counter only grows, up to its
\* budget, through lapses, retries and rewinds alike.
BudgetKept ==
  [][\A r \in Runs, c \in Counters :
       row[r].status # "absent" =>
         row'[r].usage[c] >= row[r].usage[c] /\ row'[r].usage[c] <= Budget[c]]_vars

\* "Message and state are recorded atomically": a result message of an epoch is inserted
\* by exactly the transactions that end that epoch's work on a Kafka run - finish, an
\* expired claim, expire_waiting over several runs - and by no other.  A cancellation is
\* not announced.
Announced == {"waiting_input", "succeeded", "failed", "timed_out"}

ResultAnnounced ==
  [][\A r \in Runs, i \in Epochs :
       outbox'[<<"result", r, i>>] > outbox[<<"result", r, i>>] <=>
       (/\ row[r].transport = "kafka" /\ row[r].epoch = i
        /\ row'[r].status # row[r].status /\ row'[r].status \in Announced)]_vars

\* The deadline bounds the life of a run: whatever users and executors do, a submitted
\* run settles for good.
EventuallySettled ==
  \A r \in Runs : row[r].status # "absent" ~> [](row[r].status \in Settled \cup {"failed"})

\* RunStore implements the promise RunAuthority makes.
Nobody == NoRun
OwnerOf(r) ==
  LET holders == {e \in Executors : /\ exec[e].pc \in {"claimed", "running"}
                                    /\ exec[e].run = r /\ exec[e].token = row[r].token}
  IN IF LiveAt(r, now) /\ holders # {} THEN CHOOSE e \in holders : TRUE ELSE Nobody

PhaseOf(r) ==
  CASE row[r].status = "absent" -> "absent"
    [] row[r].status \in {"queued", "running"} -> "open"
    [] row[r].status = "waiting_input" -> "asking"
    [] row[r].status = "failed" -> "failed"
    [] OTHER -> "closed"

Authority == INSTANCE RunAuthority WITH
  phase <- [r \in Runs |-> PhaseOf(r)],
  generation <- [r \in Runs |-> row[r].epoch],
  owner <- [r \in Runs |-> OwnerOf(r)]

ImplementsAuthority == Authority!Spec
=============================================================================
