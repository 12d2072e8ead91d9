# A verification project for the legal research agent

The program is a legal research agent: a user submits a question, a LangGraph
workflow plans tasks, retrieves law and case material, asks the user back when
facts are missing, calculates in a sandbox, and writes a report. What makes it
more than a pipeline is `agent_runtime/`: every run lives in a SQLite database, is
executed under a lease by any of several processes, survives crashes by replaying
its checkpoints, and may be cancelled, answered, retried or rewound meanwhile.

This directory holds TLA+ modules translated from that code, TLC configurations
that check them on small instances, and theorems checked by TLAPS.

    tlc -workers 2 -config RunStoreOwnership.cfg MCRunStore.tla
    tlc -workers 2 -config ProjectMemory.cfg MCProjectMemory.tla
    tlapm RunStoreSafety.tla
    tlapm LegacyPipelineProofs.tla

`PROJECT.json` lists the runs, the source lines each definition stands for, the
hazards of the code and the properties that watch over them.

## 1. Inventory

Paths are relative to `src/`.

### Run authority: `agent_runtime/store.py`
* State: `runs` (status, epoch, deadline, lease token and time, resume answer,
  checkpoint, usage), `effects` (one row per tool call of an epoch), `outbox`,
  `pins` (which knowledge an epoch reads), `events` (a log).
* Operations: `create`, `claim`, `heartbeat`, `consume`, `finish`, `cancel`,
  `requeue`, `rewind`, `set_checkpoint`, `begin_effect`, `end_effect`,
  `record_effect_request`, `pin`, `expire_waiting`, `recoverable`,
  `pending_outbox`, `acknowledge_outbox`. Each is one `BEGIN IMMEDIATE` transaction.
* Hard: `claim` reads the clock before it waits for the write lock; leases lapse
  while their holder still runs; users change a run that is being executed.
* Correct when: one owner per run, a limit on running runs, a settled run stays
  settled, an old epoch or owner cannot write, a write is made at most once, the
  budget survives every restart, messages and states change together.

### Fenced checkpoints: `agent_runtime/checkpointer.py`
* State: LangGraph's checkpoint tables in a second database.
* Operations: `put`, `put_writes`, each inside the authority's transaction, so that
  a lapsed owner cannot add a checkpoint.
* Correct when: the checkpoint the row names exists and is never older than it was.

### Execution service: `agent_runtime/service.py`, `context.py`
* State: none of its own; per execution a `RunContext` (run, epoch, token), the
  local copy of the row and a heartbeat thread.
* Operations: `submit`, `execute`, `resume`, `rewind`, `checkpoints`, `recover`,
  `backup`; `tool_call` in `context.py` brackets a tool body with `begin_effect` and
  `end_effect`.
* Interacts with: the store (every step), the checkpoint database, the project
  memory (a pinned snapshot of it), the sandbox (destroyed at the end).
* Hard: at every point between two transactions the process may die or be overtaken;
  the row is read once and used until the end.
* Correct when: a new executor continues where the row says, the answer of the user
  reaches the question it was given to, all of a run reads one knowledge revision.

### Kafka transport and front ends: `transport.py`, `worker.py`, `api.py`, `__main__.py`
* State: the outbox rows still to send, the consumer's offset, a dead-letter file or
  topic. In local mode the API's own thread calls `recover` in a loop; in Kafka mode
  the worker process does, and the API only submits.
* Operations: `dispatch` (send, wait for the broker, acknowledge), `accept`,
  `receive`, quarantine and commit; the worker's main thread and its recovery thread.
* Hard: a crash between send and acknowledgement sends twice; a message that cannot be
  accepted has to be quarantined durably before its offset is committed; one exception
  of the wrong type ends the recovery thread while the process lives on.
* Correct when: no submitted run is lost, no duplicate executes twice, the outbox drains.

### Task graph and workflow: `legal_agent/scheduling.py`, `workflow.py`, `nodes.py`
* State: the LangGraph state: task queue, completed tasks, facts, retry contexts,
  pending question, recursion depth, sandbox retries.
* Operations: the nodes (L0_Gateway, Planner, Executor, Replanner, AwaitInput,
  Generate, WriteCode, ExecuteCode, InjectResult, Cleanup) and the routes between them;
  `execute_ready` runs several ready tasks in threads and merges their deltas.
* Hard: results merge while siblings ask the user; replanning rewrites tasks others
  depend on; retry counters that must end each loop; one failing sibling loses the
  others' deltas, which only the effects table still has.
* Correct when: a task is completed once, after its dependencies; answers reach the task
  they were given to; the loops end; a success implies an empty queue.

### Reasoning, retrieval, routing: `reasoning.py`, `retrieval.py`, `routing.py`, `operators.py`, `llm.py`, `gateway.py`, `evidence.py`, `cache.py`
* State: caches of embeddings per process. No protocol state beyond the retries of the
  model client.
* Operations: a reading of the project memory by navigation or vector search, grading,
  an answer with citations.
* Correct when: what is read and cited is stored, undeleted original text, within the
  budget of pages and tokens over all turns.

### Resource slots: `agent_runtime/resources.py`
* State: lock files, one per slot and one per waiting place, shared by all processes.
* Operations: `slot` (take a waiting place, poll for a slot, give the place back, work,
  release), `accelerator_owner`.
* Hard: locks shared by processes that die; the check that raises between two locks.
* Correct when: no more holders than slots, nobody keeps a lock after leaving.

### Sandbox: `agent_tools/sandbox/`
* State: sessions of a remote SPACE service or of the local Docker; for each SPACE call an
  intent inside the effect row, written before the request goes out.
* Operations: `start_session`, `execute_code`, `destroy_session`, `run_code_once`.
* Hard: a request whose answer is lost has an unknown outcome; a deletion is accepted long
  before it is over; sessions leak when the process dies between the start and its record.
* Correct when: an unknown outcome is never repeated blindly, a session runs one
  command, the ledger never claims a release that did not happen.

### Project memory: `dataset/long_term_memory.py`, `graph.py`
* State: one row (revision, digest, payload) per project; an in-memory copy per process.
* Operations: `load`, `save` (only from the revision it loaded), `persist_memory`,
  `refresh_memory`, `memory_transaction`, additions, deletions, imports, rewriting.
* Hard: two writers, and what a graph object holds after a failed save.
* Correct when: no committed source is lost, a deletion is final and reaches every summary
  made from the page.

### Summary tree: `dataset/IncrementalMemoryManager.py`, `memory_graph_bridge.py`, `graph.py`
* State: dirty marks on the nodes of a summary tree and of the graph behind it; the vector
  memory of a process, with an id counter of its own.
* Operations: inject, propagate upwards, rewriting, synchronisation.
* Hard: marks cleared before the work is stored; two counters for one id space.
* Correct when: a mark goes only when the wording it stands for is committed.

### Document intake: `dataset/pdf_intake.py`, `material_routing.py`, `document_index.py`, `index_cache.py`, ...
* State: an index cache per process; otherwise functions of a document.
* Operations: routing of material, intake of a PDF, its section tree, navigation.
* Hard: outlines at page boundaries; budgets over several turns; eviction by count and size.
* Correct when: only completely readable, original material is imported, and no page of it
  is lost from the tree.

### Legacy pipeline: `asynchronization/`
* State: one session object in Redis, task topics in Kafka.
* Operations: planner, retriever, grader, replanner and reasoner workers, each reading
  the session, working, saving it, sending on and committing its offset.
* Hard: delivery at least once over steps that are not idempotent.
* Correct when: a session is never dropped silently, its loops end, a task is graded by the
  documents retrieved for it.

### Causal evidence: `causal_evidence/`
Windows of text, extracted relations, a graph of causes, its search and the calibration of
supports: functions of their inputs. Correct when nothing dated after the cutoff is used,
no text is lost between windows and no chain is lost by pruning.

### Outside the running system
`benchmark*`, `model/`, `tools/`, `spikes/`, `training_data_guide.py` (training and
evaluation), `agent_runtime/backup.py` (an operator's tool), `config_loader.py`,
`observability.py`.

### How the parts interact

    user -> API / CLI -> AgentService -> RunStore <- recover loop (API thread or worker)
                              |              |-> outbox -> Kafka -> worker -> RunStore
                              v
                    LangGraph workflow -> FencedSqliteSaver (inside RunStore's transactions)
                              |-> tool_call -> effects -> sandbox, models (through slots)
                              |-> pinned snapshot of the project memory
    importer / bridge -> project memory <- readings (workflow, legacy retriever)

## 2. Plan

| # | module | what it models | extends | state |
|---|--------|----------------|---------|-------|
| 1 | `RunStore`, abstract `RunAuthority` | the run database with leases, effects, outbox, pins | | done |
| 2 | `RunExecution` | `AgentService.execute`, checkpoints, resume, rewind, the pinned view | `RunStore` | done |
| 3 | `RunTransport` | dispatch, broker, accept, quarantine, offsets, the worker's two threads | `RunStore` | done |
| 4 | `TaskGraph` | the whole workflow graph with parallel branches, ledger, rules, budgets | | done |
| 5 | `SpaceSandbox`, `ResourceSlots` | a sandbox call from node to clean-up, both backends, slots | | done |
| 6 | `ProjectMemory`, `MemoryBridge` | revisions, conflicting saves, imports, rewriting, the bridge | | done |
| 7 | `DocumentReading`, `DocumentIntake`, `PdfOutline` | what is read, and what is let in | `ProjectMemory` | done |
| 8 | `CausalEvidence` | windows, relation graph, chains, calibration | | done |
| 9 | `LegacyPipeline` | five workers over one session with at-least-once delivery | | done |

Proofs (section 5): `RunStoreProofs`, `RunStoreSafety` (with the refinement of `RunAuthority`),
`RunTransportProofs`, `RunExecutionProofs`, `SpaceSandboxProofs`, `ProjectMemoryProofs`,
`LegacyPipelineProofs` and `TaskGraphProofs` are done: every safety property that a passing run
checks has a theorem. Next: the lemmas that relate the operators of `DocumentIntake` and
`CausalEvidence` to what they promise, for inputs of any size where no recursion is in the way.

## 3. Modules

### RunStore
One action per method of `RunStore`, because each method is one transaction.

| code | model |
|------|-------|
| a row of `runs` | `row[r]`; `absent` before `create`; `deadline`, `until` on the clock `now` |
| `lease_token` (a fresh uuid) | numbers handed out by `nextToken`; `NoToken` is NULL |
| `claim` | `BeginClaim` (reads the clock), then `ClaimRefused`, `ClaimExpired` or `ClaimGranted` at that old reading |
| `execute`'s `store.get` after the claim | `ReadRow` |
| `_active` / the test in `finish` | `Active(e)` / `HoldsLease(e)`; both look at the executor's own run, epoch and token |
| `heartbeat`, `consume`, `finish`, `cancel` | `Heartbeat`, `Consume`, `Finish` and `FinishRejected`, `Cancel` |
| `requeue(answer=)`, `requeue(retry=True)`, `rewind`, `expire_waiting` | `Resume`, `Retry`, `Rewind`, `ExpireWaiting` |
| `FencedSqliteSaver.put`, `set_checkpoint`, `pin` | `PutCheckpoint`, `SetCheckpoint`, `InsertPin` |
| `begin_effect`, the body, `end_effect` | `BeginEffect`, `CallTool` (outside every transaction, unfenced), `EndEffect` |
| `_enqueue`, `acknowledge_outbox` | `Enqueue`, `Acknowledge`; `outbox` counts unsent messages by kind |
| a process dies | `Crash` |

`bodies` is not in the code: it counts how often a tool body really ran. An executor may
call the methods in any order, so the invariants do not lean on what `execute` happens to do.

### RunAuthority
The promise to users: phases, an owner, a generation. `RunStore` is checked to implement
it under a refinement mapping that reads the owner off the live lease whose token an
executor still holds (`OwnerOf`).

### RunExecution
Extends `RunStore` with the program of `AgentService.execute`. `prog[e].stage` is the
program counter between two transactions; `graph[r]` is the thread's checkpoints,
`shown[r]` the index of the one `runs.checkpoint` names (`RunStore` itself knows a
checkpoint by its writer's token only, and `ExecutionTypeOK` ties the two together). The
workflow is a `Script` of working and asking nodes. LangGraph is not in the repository
(1.2.16 is pinned): how it resumes, from the checkpoint named with the interrupt recorded
on it, is modelled from how `service.py` uses it; the stream is taken to yield a value
after each checkpoint it puts and after an interrupt, and `set_checkpoint` then names the
latest checkpoint of the thread, whoever wrote it. The result of a run is the latest
checkpoint's values (`service.py:243`), so that is what `SuccessIsComplete` speaks of: the
checkpoint the row names may lag behind it, or be missing, when executors died between
`put` and `set_checkpoint` and the last one had nothing left to stream.

For the same reason `AskedOnce` excepts one case: a run rewound to a checkpoint at
which its workflow was over. `execute` finds nothing to stream there and takes its verdict from the
latest checkpoint of the thread. If that is one of a branch the user left by
an earlier rewind and it waits at a question, the run waits, and asks the same question again after
every answer. It takes two rewinds, one more than `MCRunExecution` allows; the attempt to prove
`AskedOnce` showed the case and TLC, with the bound raised to two, its trace. Left out: a rewind to a checkpoint that
waits at a question (which of the recorded writes LangGraph replays is not decided in this
repository) and the configuration hashes beside a pin.

### RunTransport
Extends `RunStore` with one worker process. `process` tells a worker whose recovery thread
has died (`headless`) from a healthy one; `sending` is the message between the broker's
acknowledgement and `acknowledge_outbox`; `log`, `position` and `committed` are the topic,
the consumer and the group's offset. `Publish` may be followed by `Die`, which is the lost
answer as well as the dead process. `Handle` is `accept`: it only reads the
database, so that a late, doubled or stale message changes nothing, and it quarantines
what is not a message of a known run. The topic of results has no consumer in the repository.

### TaskGraph
`at` is the next node; the other variables are the keys of the LangGraph state, changed
as a node returns them. `execute_ready` is split where it can be interrupted: `Branch` (a
task's reasoner returns and its result is recorded in `ledger`), then the merge of the whole
batch; a crash or a failing sibling throws the batch away and keeps the ledger. What a
branch finds out is nondeterministic: any grade, a question, any rule's trigger. Drafts of
the planning model include the malformed ones the parser refuses.

A wording is the set of rule keywords it contains, and whether it is a rule's own. The code
takes any `task_desc` from the replanning model and sets only ids and dependencies
(`operators.py:105-116`, `nodes.py:209-223`), so `Rewordings`, the replies the model may give, may
hold any keywords: a rule's task may lose its own, another may gain one. A supplement is written
behind the first 40 characters (`nodes.py:127`); a rule's wording is shorter and keeps its
keyword there. Left out is a model that repeats a rule's wording to the letter, which could
only keep the rule from adding that task again.

### SpaceSandbox and ResourceSlots
A tool call is named by its run and its code, as in the ledger. For SPACE each request has a
`fate`, a pair of what the service did and what the client learnt, which need not agree; the
polls and the event stream are reduced to the verdicts they can end in, named in tables
(`BootVerdicts`, `StreamVerdicts`). For Docker the same nodes surround `StartContainer` and
`RunInContainer`. `ResourceSlots` has one action per lock file tried. The run with a SPACE
session cannot be rewound (a write is recorded), so there are no epochs here.

### ProjectMemory and MemoryBridge
`store` is the row, `mem[p]` a process's graph object. A node's text is the set of source
texts its wording is made from, so that "this summary still words a deleted page" is a
state predicate. `Persist` is `persist_memory` (the change stays in the object when the save
fails), `Transaction` is `memory_transaction` (the object is restored; it saves, and counts up
the revision, even if there was nothing to rewrite). `MemoryBridge` adds the vector memory `mm`
of a process, which lives as long as the process. A synchronisation raises when the
summaries to write form a cycle (`Cyclic`). `DeletedPageMarked` is about documents whose
sections lie side by side: with nested sections and an id that the bridge took from
a page or section (`memory_ids` in section 6), a synchronisation can reword a parent from
the old wording of its child and clear the parent's mark. TLC's simulation finds that in
larger instances. Without a bridge there is no such step, whatever the document
(`DeletionsReachSections` in section 5).

### DocumentReading, DocumentIntake, PdfOutline, CausalEvidence
Algorithms without a life of their own, as operators. `DocumentReading` computes every
reading a snapshot allows - mode, turns, batches, citations - and is checked as part of the
invariant `MemoryIsReadable` on every snapshot the `memory` run reaches. The other three
state what they promise as named assumptions over all inputs within small bounds, which
TLC evaluates at the start of the memory runs: `DerivedStaysOut`, `ImportedIsReadable`,
`CacheIsBounded` (intake), `OutlinesBecomeTrees` (section trees), `TextIsCovered`,
`ChainsAreFound`, `FutureIsUnseen`, `DistancesReach`, `CalibrationIsMonotone` (causal evidence).

### LegacyPipeline
One session, five workers, `topic[s]` the uncommitted messages. A worker loads, works and
saves in one step after `Load`, then sends, then commits, and may die or fail before each.
Two messages of one session may be on their way after a crash, and each worker writes back
the copy it loaded.

### Variants
An operator whose comment starts with "Variant:" is deliberately wrong: it is the form
the code would have with one plausible slip. No specification uses it. `PROJECT.json`
("mutants") names for each property the variant that breaks it.

## 4. Runs

| run | instance | question |
|-----|----------|----------|
| `ownership` | 2 runs, 2 executors, 1 slot, 3 leases, 1 rewind, clock to 3 | Do ownership, the limit and settled runs survive stale clocks, lapsing leases, cancels and rewinds, and is the abstract promise implemented? |
| `ledger` | 1 Kafka run, 2 executors, a read and a write call, 2 epochs | Are writes made once, finished calls reused and budgets kept? |
| `deadline` | 2 runs, 1 executor, 1 slot, fairness | Does every run come to rest? |
| `execution` | 1 run with two questions, 2 executors, 2 corpus revisions, 4 leases, 1 rewind | Is progress kept, is an answer used, is one revision read, is a success complete? |
| `stale_answer` | the same with two possible answers | Does every answer reach the question it was given to? **No**, section 6. |
| `transport` | 1 run, local or Kafka, 1 worker that dies once, 1 foreign message, fairness | Is every message sent, handled or quarantined, is every result announced, does every run settle? |
| `memory` | 2 processes, 1 with a bridge, 3 nodes, a document of one page, 2 snapshots | Are committed sources safe, deletions complete, marks honest and readings sound? |
| `memory_ids` | 1 process with a bridge that also imports | Do sources stay evidence? **No**, section 6. |
| `sandbox` | 1 run, 2 programs, 2 tries, both backends, 2 other users of 1 slot and 1 waiting place, fairness | Is nothing run twice, everything recorded, every release true, every slot given back? |
| `workflow` | a chain of 3 tasks, 2 flat ones and malformed plans, rewordings with and without the keyword of the rule about injuries, 2 branches, depth 4, 16 steps, fairness | Is the plan sound, each task solved once, each answer in place, a success whole, and does the run end? |
| `workflow_rules` | the same with the contract rule, 18 steps | Do the rules add their tasks once? **No**, section 6. |
| `pipeline` | 1 session, 1 crash, depth 0, queue to 2, fairness | Is the session never dropped, each task judged fairly, and does it end? |

Bounds of the run database. A lease lasts 1 tick, so it lapses one tick after it was granted or
renewed, and a budget of 2 or 3 ticks lets one lapse, be taken over, and still leaves the
deadline to pass before the clock stops (`MaxTime`). Two executors are what a takeover takes;
two runs are what competition for one slot takes. `MaxClaims` counts leases: two for a
takeover, more for a takeover after a rewind. `MaxEpoch` 1 allows one rewind. Everything
about a run ends at its deadline, so a larger `MaxTime` adds only idle ticks, and `MaxCreate`
keeps submissions early enough for that. `ClaimInBounds` lets a claim of an overdue run
through even when the leases are used up, so that the bound never hides a settlement.
`MaxBodies` bounds repetitions of read-only bodies; writes are not bounded. Pins are left to
`execution` and the ledger to `ledger`, whose one run comes from Kafka. Symmetry is used over
runs and executors, or over executors and revisions, and never in a run with a liveness property.

Bounds of the others. `transport`: one death is enough to separate any two steps of the
dispatcher, and one run has up to two messages. `memory`: two snapshots let one process
overtake the other; three ids hold a page, its section and one more node, which is what an
id clash and a mount take; a third process or page repeats these. `sandbox`: two programs and two tries
give a failed call, a repeated identity and a reused session; one slot, one place and
three users give a queue, a full queue and a refusal. `workflow`: three tasks are a
chain with a transitive dependency, two branches a batch with a sibling; the plans have no
name in common, so that a success is compared with the plan it began with. Depth 4 and 16
steps end every loop in the code's own way and are themselves limits of the code; a rule's two
tasks reworded one after the other and then refused take 14 steps, four passes with the
report and the clean-up take 16. The two replies of the instance are one task without the
keyword and two tasks the last of which has it.

What no instance holds is left to the theorems, which have no bounds: several overdue runs
settled in one transaction (`WorkerTellsEveryResult`), a page below several nested summaries
(`DeletionsReachSections`), other replies and rules (`PlansStaySound`). Usage is one counter
in `RunStore`; that `consume` refuses several of them together is its transaction's doing and
is not checked.
`pipeline`: depth 0 and queue 2 are the smallest that let a task fail, be supplemented, be
replanned and run out of depth; the theorems of section 5 cover all other values.
Deadlock is not checked: every one of these systems comes to rest.

Fairness. `deadline` (`FairSpec` of `RunStore`): time passes (`Tick`). The recovery loop runs
every 0.2 s in the worker and every 0.5 s in the API, calls `expire_waiting` first
and then tries every run of the first `max_running_runs` of `recoverable()`: a run that
is in that head again and again is tried again and again, hence strong fairness of
`RecoverClaim` for each run, and of the rest of that claim, which a process does not die
in every time. An execution that has its lease ends (`ReadRow`, `FinishStep`), because model
and tool calls have time limits of their own. Nothing is assumed of users, heartbeats or crashes.
`transport`: a process that ended is started again (the deployment's restart policy), its main
loop and its recovery loop go on, each as one weakly fair process. `sandbox`: every request
has a timeout and every wait a deadline, so a call under way and the other users of the slot go
on; nothing is assumed of the nodes around it. `workflow`: the run's own steps go on; crashes and
answers are not forced. `pipeline`: every worker goes on and is started again when it died.

## 5. Proofs

`RunStoreProofs` proves, for every number of runs, executors, calls, epochs and seconds:

* `TypeCorrect`: `Spec => []TypeOK`, one lemma per group of actions (users, claim,
  owner, end of an execution, maintenance).
* `LimitKept`: `Spec => []RunningLimit`. The invariant is inductive as it stands: claim
  counts the other runs' leases at a clock that is not later than now (part of
  `TypeOK`), so it counts a superset of those that live now; every other action only
  lets leases end, or prolongs one that is live already (lemma `FewerLive`).
* `OneOwner`: `Spec => []SoleOwner`. `SoleOwner` is not inductive: nothing in it keeps two
  executors from having the same token. The strengthening `TokensUnique` says that tokens
  in the hands of executors that are past their claim are below `nextToken` and
  pairwise different; then two executors that match the row's token are the same.

`RunStoreSafety` builds on it. Two lemmas say once what a step may do to a row
(`RowNext`: insert it, update it under the same token and epoch, lease it, rewind it) and
to an executor (`ExecNext`), so that the invariants need not be taken through every
action; `LeaseNotRegained` says that an execution that lost its lease never passes the
fence again.

* `SettledForGood`: `Spec => SettledStays`, straight from the types.
* `BudgetSurvives`: `Spec => BudgetKept`, with the invariant that usage is within the budget.
* `NewestOwner`: `Spec => NewestOwnerWins`. Strengthening `ThreadsInOrder`: nobody newer than the
  run's lease has written to its thread, so a valid owner's checkpoint is the
  newest; the row names none that is newer than the latest.
* `DoneForGood`: `Spec => DoneIsFinal`. Strengthening `CallsUnderWay`: while its lease
  lasts, nobody else can have recorded the call an executor is in, so the late answer of
  an overtaken executor cannot undo the result of its successor.
* `WritesAreMadeOnce`: `Spec => []WriteAtMostOnce`. Strengthening `WritesOnce`: a recorded write
  keeps `rewind` away and pins its run to its epoch, a body that ran is recorded, and a
  write that is begun has not run yet and is begun by one executor only.

`RunStoreProofs` ends with the outbox, `EveryResultTold`: a result message is inserted by exactly the steps
that end the work on a Kafka run's epoch (`ResultAnnounced`). `EnqueueOne` says what one
`_enqueue` adds; then each group of transactions is shown to announce and to end together.

`RunStoreSafety` ends with the refinement, `StoreImplementsAuthority`: `Spec => ImplementsAuthority`.
`TokensUnique` makes the owner that the mapping reads off a row unique (`OwnersKnown`), and
`BlankRows` says that a run nobody submitted has an empty row. Most steps are `Calm`: they keep
phases and generations and at most lose owners, which the authority may do one at a time or all
together when the clock moves (`CalmStep`). What is left - users' steps, ends of executions,
expiries and granted claims - is mapped to the authority's action of that name.

`RunExecutionProofs` proves the three invariants and the two action properties of `execute`, for any script, runs, executors,
answers and knowledge revisions. Every step is a step of `RunStore`'s transactions or of the
program alone (`StoreSteps`, `EndSteps`, `LocalSteps`, `PutSteps`), so its types are reused.

* `ExecutionTyped`: `ExecutionSpec => []ExecutionTypeOK`, with `ThreadsStored` (the saver's
  last writer is the writer of the thread's last checkpoint) and `ProgramsInOrder` (how far an
  executor may be past the row it read).
* `RevisionsAgree`: `ExecutionSpec => []OneRevision`. Strengthening `ViewsPinned`: whoever reads
  knowledge has the pin of its epoch, and so has every checkpoint of the thread; a pin
  is inserted once, and a rewind takes it along into the new epoch.
* `SuccessesAreComplete`: `ExecutionSpec => []SuccessIsComplete`. A run is settled as a success
  by an executor that reached the end of a thread whose latest checkpoint is the last node's,
  and nobody puts into the thread of a settled run; every question passed is answered
  (`QuestionsAnswered`).
* `ProgressIsKept`: `ExecutionSpec => ProgressKept`. Strengthening `ProgressInv`: the holder of the
  lease continues from the checkpoint the row names and is at most one node ahead of it
  (`HolderInOrder`), so the latest checkpoint of the thread, which `set_checkpoint` names, lies
  nowhere behind it (`PublishInOrder`), whoever put it.
* `QuestionsAskedOnce`: `ExecutionSpec => AskedOnce`. `RunInOrder` says where an answer of this
  epoch is: behind the checkpoint the row names, or in the row, where the next executor
  finds it. A run that comes to wait does so at a question that is in neither place
  (`WaitsToAsk`). TLC checked `ProgressInv` with two rewinds before it was proved.

`RunTransportProofs` takes the results about the run database to the Kafka worker. `StoreSteps`: a step of the
transport is a step of `RunStore`, or leaves its tables alone and at most ends all
executions at once (a process that dies).

* `WorkerKeepsOwnership`: `TransportSpec => [](RunningLimit /\ SoleOwner)`.
* `WorkerTellsEveryResult`: `TransportSpec => ResultAnnounced`.
* `SentBeforeMarked`: `TransportSpec => []MarkedIsPublished`. Strengthening `Marked`: the
  message between the broker's answer and `acknowledge_outbox` has been taken once more
  than it was marked.
* `NothingIsSkipped`: `TransportSpec => []CommittedIsHandled`. Strengthening `Consumed`: the
  offset follows the reader, the reader the log, and all that was read is settled.

`SpaceSandboxProofs` proves all four safety properties of the sandbox calls, for any runs,
programs, tries and slots, and for both backends.

* `SandboxTyped`: `Spec => []SandboxTypeOK`, with `HasCode` (whoever is in a call has a program)
  and `HasOwn` (whoever is about to run a command has a sandbox).
* `NothingIsUnrecorded`: `Spec => []NothingUnrecorded`, as only two steps have requests carried
  out and both record them in the same step (`RecordedFirst`).
* `NothingRunsTwice`: `Spec => []RunsAtMostOnce`. Strengthening `Once`: a call the ledger does not
  know has left no trace, whoever makes a sandbox is the first to use its name, and
  what the manager takes for unused is unused. All steps but four are `Quiet`.
* `ReleasesAreReal`: `Spec => []ReleasedMeansGone`. Strengthening `Tidy`, one run at a time: a run
  handles sandboxes of its own only, a call under way is so in the ledger, a usable
  sandbox is that of the call about to use it, and a success is settled only when its
  sandbox is gone or named. `StepApart` says that a step leaves the other runs alone.

`ProjectMemoryProofs` proves what the memory promises of any number of processes, with and
without a bridge, whose saves fail and are repeated. The invariant `BridgeInv` has two halves.
`ObjectsInv` says that an object at the store's revision grew out of what is stored: it has
every stored node, has revived none and altered no source (`Kept`). Every method is then shown
to let objects grow (`Grows`), for which a new id must be new: `LargestId` proves that the
greatest id exists (by well-founded induction on a set of ids; no operator parameter is
needed for that). `DraftsInv` keeps the counter of a vector memory ahead of its own ids.

* `NothingUnsavedPasses`: `Spec => []UnmarkedIsStored`.
* `CommittedForGood`: `Spec => CommittedStays`: a save succeeds only at the store's revision.
* `AcknowledgedByCommit`: `Spec => AcknowledgedAfterCommit`: the only step that takes a mark away
  is the one whose save went through.
* `MemoryTyped`: `Spec => []MemoryTypeOK`. Strengthening `InShape`: a section lies under an earlier
  section, a summary under a later summary, a source under one of them (`Placed`); only
  sources are pages, and a section stands for sources (`Fits`). It is what makes the
  recursive wordings well defined. `LeastUnion` shows that a function given by unions of its own
  values exists even where the definition runs in circles (the least one); `SumTyped`, that
  its values stay in their set where none is defined by itself. Ids order the sections downwards
  and the summaries upwards (`UpEnds`, `DownEnds`), and of drafts the synchronisation
  refuses a cycle. With sections that could begin at page 0 the theorem fails:
  the attempt is why `DocumentAssumption` says `0 < first`, as `dataset/page_index_memory.py:19` does.
* `MemoryReadable`: `Spec => []MemoryIsReadable`: a memory in shape is read soundly by every
  question (`ReadingsSound`). `AgentReading` is the inductive invariant of the agent's loop: original
  texts within both budgets, and as many tokens counted as they have. `Tokens` is a fold;
  `TokensCounted` shows that it is the size of a set (by the least set of sources for
  which it is not), so that what a batch adds is what it has that was not read before.
* `DeletionsReachSections`: `Spec => []DeletedPageMarked` if sections lie side by side or no process
  has a bridge. Strengthening `Marked`: a source is worded by itself, a section by its own
  sources, among which are those of the sections below it, and unless it is marked no word of
  it is dead. A deletion marks whoever has the source (`DeadMarked`), an addition or a
  move of text only adds marks (`OnlyMarks`, `Undisturbed`). That rewriting may take the marks
  away is argued from below (`RewrittenMarked`, along `DownEnds`): a section is reworded
  from sources that are alive and from sections that are reworded with it, or have no dead words.
  That a section has the sources of those below is the containment in `DocumentAssumption`,
  `Section.valid_range` in `dataset/page_index_memory.py:30`; a synchronisation keeps `Marked`
  where sections have no parent (`SyncedMarked`).

`LegacyPipelineProofs` proves all three safety properties of the pipeline, for any plans, rule,
limits and number of crashes.

* `PipelineTyped`: `Spec => []PipelineTypeOK`; the depth stays within one of its limit because
  the replanner alone raises it, from a copy that was not out of depth.
* `NothingIsDropped`: `Spec => []BatonKept`. `BatonKept` says nothing of a worker that has sent
  its message and still owes a commit. `Carried` counts messages as `OnTheWay` does (one
  less for such a worker): the count is never negative, a worker at work or with something
  to send has a message that counts, and one counts as long as the session has not ended.
* `TasksAreJudgedFairly`: `Spec => []StrictHandover`. Strengthening `Handover`: until a worker
  dies, one message counts, whoever works holds the state as it is stored, and the grader's
  message finds a session whose last documents are those of its first task (`Matching`).

`TaskGraphProofs` proves all five safety properties of the workflow, for any drafts, alphabet, rules
and limits. Plans are built by recursion: an order is peeled off a draft, tasks are filtered
and joined, identities grow. No induction theorem with an operator parameter can be used, so the
module starts from two of its own: `Induction`, over sets of numbers (the least
number outside is the contradiction), and `Recursion`, that a recursive function over
`0 .. N` exists. `OnlyWalk`, `FlattenWalk` and `OrderWalk` then give each recursive
definition as a sequence of steps, and every fact about one is a set of numbers that
contains all of them.

* `GraphTyped`: `Spec => []GraphTypeOK`, with the shape of every task (`TasksTyped`), the
  batch of a Merge (`BatchTyped`: nothing is in a batch but what its plan allows, and the
  plan was accepted) and `QuestionOpen`. `Selected` respects the passes left, hence `depth`.
* `TasksAreSolvedOnce`: `Spec => []SolvedOnce`. Strengthening `SolvedInv`: what was found
  sufficient once is done, or is open and its finding is in the ledger under the key the
  task still has; a key changes only with a merge, which takes the finding over.
* `SuccessesAreWhole`: `Spec => []SuccessIsWhole`. Strengthening `WholeInv`: while nothing
  stopped the run, a plan it began with is among the open and the done tasks, and every retry
  and every answer belongs to one of them; once it reports, nothing is open.
* `AnswersReachDependents`: `Spec => []AnswersFollowDependencies`. The property speaks of the
  least set closed under dependencies, the code passes facts on one step at a time.
  `AnswersInv` says that a completed task was handed what lies behind it (`Behind`, by closed
  sets of completed tasks), that what completed tasks wait for is completed, and that the
  task asked about is not done; `BehindStep` is the induction step that takes one dependency more.
* `PlansStaySound`: `Spec => []PlanStaysSound`, whatever the models word.
  `validate_plan` asks for no cycle, which is not inductive; `SoundInv`
  has the stronger `Sound`: the queue is in an order in which every task
  stands behind what it waits for (`OrderedIsValid` and `FirstIsReady` give the
  property back). The planner's order is such a one (`OrderProperties`: the counters of
  `topological_order` count what is missing), a merge keeps it, and a replaced task's
  replacements fit in where it stood (`Takes`, `OrderedFlatten`). That new identities are
  new is the hard part: `Named` says that whatever came out of an open task carries an earlier
  revision of it in its identity, so those made under the present one are not taken;
  `Rooted` says that what came out of a rule's task never outlives it: while any of it is
  open or done, so is the task itself. An addition whose root is gone is therefore new, and
  one whose identity is taken is `RuleRepeats` (`AddedAgain`, `RepeatsInvalid`): the only
  reason for which `validate_plan` refuses a plan.

The strengthenings were model-checked on the instances of the runs before they were proved.

Assumed: the named assumptions on the constants of `RunStore` (that the set of runs is finite
among them, as the number of live leases is a cardinality), `RunTransport`, `SpaceSandbox`,
`ResourceSlots`, `LegacyPipeline` and `TaskGraph` (`DraftsAssumption`: what a draft looks like, and
that an order of names has no name twice; `LimitsAssumption`; `NoTaskAssumption`: the value for
"no question" is no identity; `RewordingsAssumption`: a replanned task becomes at least one
task, as `replan_with_wormhole` raises for an empty list); that the value for "no run" is no executor
(`ExecutorsAssumption`), that local runs exist (`LocalAssumption`), that the bounds of the
memory are numbers (`MemoryBoundsAssumption`), what a document's sections look like
(`DocumentAssumption`) and that the limits of a reading are positive (`NavigationAssumption`).
TLC evaluates them on every run. `DeletionsReachSections` has its condition as a
hypothesis; the document of the run `memory` satisfies it, with a bridge.

Only model-checked: the promises of `DocumentIntake`, `PdfOutline` and `CausalEvidence` over their
bounded inputs. Out of the prover's reach: the liveness properties (`EventuallySettled`,
`OutboxDrains`, `RunsSettle`, `SlotsComeBack`, `RunEnds`, `SessionEnds`), as they need fairness
and ENABLED, and what the recursive definitions of `PdfOutline`, `CausalEvidence`,
`DocumentReading` and `MemoryBridge` compute for every input, as no induction theorem with an
operator parameter can be used; that the wordings among them have values, and of which
kind, is proved.

## 6. Findings

`stale_answer`: `execute` resumes with `runs.resume` whenever the checkpoint it loads
has an interrupt (`agent_runtime/service.py:225`), and neither `finish` nor the retry form of
`requeue` clears that column. TLC's trace: the run asks its first question; the user answers;
the executor puts the checkpoint with that answer, goes on to the second question, records
its interrupt, and dies before `finish`; the lease lapses; the next executor loads the
checkpoint with the second interrupt, finds the first answer still in the row, and
resumes the second question with it. `docs/PARALLEL_AGENT.md:61` says that an answer is
passed only to the task it belongs to and its explicit dependants.

`memory_ids`: `inject_knowledge` uses the id its vector memory hands out for the graph too
(`dataset/memory_graph_bridge.py:128`). The graph's own additions are unknown to that counter, so
the next summary of the vector memory may have the id of an imported page, and the
synchronisation turns the page into derived navigation. The comment above the line asks for a
unique id, the graph's counter first.

`workflow_rules`: the contract rule looks for 双倍工资 and adds tasks that say 二倍工资
(`replanner_rules.py:48`), so it fires in every round. A task it added that was reworded meanwhile
is added again under the same id, and `validate_plan` ends the run, although
`legal_agent/scheduling.py:154` says that deterministic ids prevent duplicates. The rules that
do find their own keyword, such as 工伤, come to the same end once both of their tasks were
reworded without it: run `workflow` contains these ends (`at = "invalid"`), and
`PlanStaysSound` says that nothing else leads there.

Observed, without a document that says otherwise, and stated by the models as they are:

* In the legacy pipeline a message delivered again after `save_state` makes the grader judge,
  and remove, the next task by the documents of the one before; `docs/CONTRACTS.md:136-138`
  calls repeated messages safe. `StrictHandover` is therefore asserted until a worker dies.
* A cancelled Kafka run inserts no result message (`agent_runtime/store.py:195`), unlike
  every other end of a run.
* `build_pdf_tree` raises for bookmarks that pass all its checks, exactly if one lies on the
  page where the next sibling of a section around it starts (`OnTheSeam`,
  `dataset/document_index.py:74`); the document is then not imported.
* A container whose process died, or whose start failed after it was made, stays:
  `cleanup_orphans` (`agent_tools/sandbox/manager.py:102`) has no caller. A Docker session
  kept after a failed removal makes the next call a `ValueError`, which is counted as a
  fault of the code.
* When the graph's save fails in `inject_knowledge` and the snapshot is reloaded, the vector
  memory keeps the leaf; the next synchronisation stores its id as a source nobody has, and a
  search through that summary raises (`dataset/long_term_memory.py:187`).
* Deleting a section but not the sections below it leaves a document whose structure can no
  longer be read (`dataset/document_store.py:59`): `CanReadStructure`.

## 7. Not modelled

* Without a caller outside the tests: `reconcile_intent`, `cleanup_idle`, `cleanup_orphans`,
  `nightly_rewrite` of the vector memory, the dead-letter queue's replay. `retry_pending_sync`
  has work only when long-term memory is off.
* The API's own recovery loop beside the worker's, the command line, backup and restore: no
  step of theirs adds an interleaving that `RunStore` and `RunTransport` do not have.
* The `events` log: append-only, nothing reads it back to decide anything.
* Prompts, scores, model calls, text extraction, chunking of corpora, heading detection,
  similarity edges and clustering: functions over text and floating-point numbers.
* Model adapters, demos, training, benchmarks, spikes, configuration and observability.
* LangGraph, Kafka, Redis, Docker and SPACE themselves: external, modelled only by what the
  code relies on.
