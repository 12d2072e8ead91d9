---------------------------- MODULE RunExecution ----------------------------
(***************************************************************************)
(* One execution of a run, agent_runtime/service.py: AgentService.execute  *)
(* over the run authority (RunStore) and the LangGraph thread of the run,  *)
(* whose checkpoints FencedSqliteSaver writes.                             *)
(*                                                                         *)
(* RunStore lets an executor call the store in any order; here it follows  *)
(* the program: claim, read the row, pin the knowledge it will read, load  *)
(* the checkpoint the row names, choose between the user's answer and a    *)
(* plain continuation, then node by node put a checkpoint and publish it   *)
(* in the row, and finish with the verdict the last checkpoint calls for.  *)
(* It may die, fail or be overtaken between any two of these.              *)
(*                                                                         *)
(* The workflow is reduced to the Script of its nodes: "work" computes,    *)
(* "ask" is AwaitInput.  A node's position in the Script names the         *)
(* question it asks.                                                       *)
(***************************************************************************)
EXTENDS RunStore, Sequences, SequencesExt

CONSTANT Script     \* a sequence over {"work", "ask"}

ASSUME ScriptAssumption == Script \in Seq({"work", "ask"})
ASSUME LocalAssumption == "local" \in Transports   \* requests reach AgentService.submit locally

VARIABLES
  corpus,   \* the knowledge revision of the live corpus
  graph,    \* the checkpoints of each run's thread, oldest first
  shown,    \* which of them runs.checkpoint names (0: none)
  prog,     \* the local variables of execute, per executor
  given     \* what the user answered, and to which question (observed only)

world    == <<corpus, graph, shown, given>>
allvars  == <<vars, world, prog>>

Questions == {q \in 1 .. Len(Script) : Script[q] = "ask"}

\* The values of the graph state: how many nodes are done, the answer each question
\* got, and the knowledge revision they were computed from.
Start(view) == [at |-> 0, view |-> view, answers |-> [q \in Questions |-> NoAnswer]]

\* A checkpoint: its values, whether an interrupt is recorded on it, and its writer.
Checkpoint(values, e) == [values |-> values, asked |-> FALSE, by |-> exec[e].token]

IdleProg == [stage |-> "row", view |-> NoPin, resume |-> NoAnswer, from |-> 0]

ExecutionInit ==
  /\ Init
  /\ corpus \in Revisions
  /\ graph = [r \in Runs |-> <<>>]
  /\ shown = [r \in Runs |-> 0]
  /\ prog = [e \in Executors |-> IdleProg]
  /\ given = [r \in Runs |-> {}]

-----------------------------------------------------------------------------

At(e, stage) == exec[e].pc = "running" /\ prog[e].stage = stage
Thread(e)    == graph[exec[e].run]
Base(e)      == Thread(e)[prog[e].from]        \* the checkpoint e continues from
Latest(e)    == Last(Thread(e))
Done(values) == values.at = Len(Script)
NextIs(node, values) == ~Done(values) /\ Script[values.at + 1] = node

\* The row e works from: the answer it holds and the checkpoint it names.
ReadRun(e) ==
  /\ ReadRow(e)
  /\ prog' = [prog EXCEPT ![e] = [IdleProg EXCEPT !.resume = row[exec[e].run].resume,
                                                  !.from = shown[exec[e].run]]]
  /\ UNCHANGED world

\* _pinned_engine: the epoch's pin, or else a snapshot of the corpus as it is now...
ReadPin(e) ==
  LET pin == pins[<<exec[e].run, exec[e].epoch>>] IN
  /\ At(e, "row")
  /\ prog' = [prog EXCEPT ![e].view = IF pin = NoPin THEN corpus ELSE pin,
                          ![e].stage = IF pin = NoPin THEN "snapshot" ELSE "viewed"]
  /\ UNCHANGED <<vars, world>>

\* Variant: INSERT OR REPLACE.
WritePinReplacing(e) ==
  /\ At(e, "snapshot")
  /\ pins' = [pins EXCEPT ![<<exec[e].run, exec[e].epoch>>] = prog[e].view]
  /\ prog' = [prog EXCEPT ![e].stage = "viewed"]
  /\ UNCHANGED <<now, row, exec, nextToken, saved, outbox, effects, bodies, world>>

\* ...which becomes the pin, unless somebody else's INSERT came first: then the
\* primary key refuses this one and the execution fails (Fail).
WritePin(e) ==
  /\ At(e, "snapshot")
  /\ InsertPin(e, prog[e].view)
  /\ prog' = [prog EXCEPT ![e].stage = "viewed"]
  /\ UNCHANGED world

\* Variant: without an answer to pass on, execution starts from the request again.
LoadStateOrRestart(e) ==
  LET from == IF prog[e].from # 0 THEN prog[e].from ELSE Len(Thread(e))
      answered == from # 0 /\ Thread(e)[from].asked /\ prog[e].resume # NoAnswer
  IN
  /\ At(e, "viewed")
  /\ prog' = [prog EXCEPT ![e].stage = "stream", ![e].from = IF answered THEN from ELSE 0,
                          ![e].resume = IF answered THEN @ ELSE NoAnswer]
  /\ UNCHANGED <<vars, world>>

\* Variant: the row's answer is ignored.
LoadStateWithoutAnswer(e) ==
  /\ At(e, "viewed")
  /\ prog' = [prog EXCEPT ![e].stage = "stream", ![e].resume = NoAnswer,
                          ![e].from = IF @ # 0 THEN @ ELSE Len(Thread(e))]
  /\ UNCHANGED <<vars, world>>

\* get_state: the checkpoint the row names, or else the latest one of the thread.  The
\* row's answer is used whenever that checkpoint has an interrupt.
LoadState(e) ==
  LET from == IF prog[e].from # 0 THEN prog[e].from ELSE Len(Thread(e))
      asked == from # 0 /\ Thread(e)[from].asked
  IN
  /\ At(e, "viewed")
  /\ prog' = [prog EXCEPT ![e].stage = "stream", ![e].from = from,
                          ![e].resume = IF asked THEN @ ELSE NoAnswer]
  /\ UNCHANGED <<vars, world>>

\* The saver writes a checkpoint inside the store's transaction.
Put(e, values) ==
  /\ PutCheckpoint(e)
  /\ graph' = [graph EXCEPT ![exec[e].run] = Append(@, Checkpoint(values, e))]
  /\ UNCHANGED <<corpus, shown, given>>

\* A run without a checkpoint starts from the request.
PutInput(e) ==
  /\ At(e, "stream") /\ prog[e].from = 0
  /\ Put(e, Start(prog[e].view))
  /\ prog' = [prog EXCEPT ![e].stage = "put", ![e].from = Len(Thread(e)) + 1]

Work(e) ==
  LET values == Base(e).values IN
  /\ At(e, "stream") /\ prog[e].from # 0 /\ NextIs("work", values)
  /\ Put(e, [values EXCEPT !.at = @ + 1, !.view = prog[e].view])
  /\ prog' = [prog EXCEPT ![e].stage = "put", ![e].from = Len(Thread(e)) + 1]

\* AwaitInput with an answer at hand: Command(resume=answer) is used up by it.
TakeAnswer(e) ==
  LET values == Base(e).values IN
  /\ At(e, "stream") /\ prog[e].from # 0 /\ NextIs("ask", values)
  /\ prog[e].resume # NoAnswer
  /\ Put(e, [values EXCEPT !.at = @ + 1, !.answers[values.at + 1] = prog[e].resume])
  /\ prog' = [prog EXCEPT ![e].stage = "put", ![e].resume = NoAnswer,
                          ![e].from = Len(Thread(e)) + 1]

\* AwaitInput without one: put_writes records the interrupt, and the stream ends.
Ask(e) ==
  LET values == Base(e).values IN
  /\ At(e, "stream") /\ prog[e].from # 0 /\ NextIs("ask", values)
  /\ prog[e].resume = NoAnswer
  /\ Active(e)
  /\ graph' = [graph EXCEPT ![exec[e].run][prog[e].from].asked = TRUE]
  /\ prog' = [prog EXCEPT ![e].stage = "asked"]
  /\ UNCHANGED <<vars, corpus, shown, given>>

\* Variant: the row is given the checkpoint before the latest.
PublishPrevious(e) ==
  /\ At(e, "put") \/ At(e, "asked")
  /\ SetCheckpoint(e)
  /\ shown' = [shown EXCEPT ![exec[e].run] = Len(Thread(e)) - 1]
  /\ prog' = [prog EXCEPT ![e].stage = IF @ = "put" THEN "stream" ELSE "over"]
  /\ UNCHANGED <<corpus, graph, given>>

\* Each value of the stream is followed by set_checkpoint with the thread's latest.
Publish(e) ==
  /\ At(e, "put") \/ At(e, "asked")
  /\ SetCheckpoint(e)
  /\ shown' = [shown EXCEPT ![exec[e].run] = Len(Thread(e))]
  /\ prog' = [prog EXCEPT ![e].stage = IF @ = "put" THEN "stream" ELSE "over"]
  /\ UNCHANGED <<corpus, graph, given>>

StreamOver(e) == At(e, "over") \/ (At(e, "stream") /\ prog[e].from # 0 /\ Done(Base(e).values))

\* Variant: an interrupt ends the run like its last node.
VerdictOfNodesOnly(e) == IF Done(Latest(e).values) \/ Latest(e).asked THEN "succeeded" ELSE "failed"

\* The verdict on the latest checkpoint of the thread.
VerdictOf(e) ==
  CASE Latest(e).asked -> "waiting_input"
    [] ~Latest(e).asked /\ ~Done(Latest(e).values) -> "failed"
    [] OTHER -> "succeeded"

Leave(e) == prog' = [prog EXCEPT ![e] = IdleProg] /\ UNCHANGED world

Conclude(e) ==
  /\ StreamOver(e)
  /\ Finish(e, VerdictOf(e)) \/ FinishRejected(e)
  /\ Leave(e)

\* An exception anywhere on the way: a refused write, an exhausted budget, a failed
\* model call, a pin that exists by now.
Fail(e) ==
  /\ exec[e].pc = "running"
  /\ Finish(e, "failed") \/ Finish(e, "timed_out") \/ FinishRejected(e)
  /\ Leave(e)

Die(e) == Crash(e) /\ Leave(e)

-----------------------------------------------------------------------------
(* Users, the corpus, and the rest of the store.                            *)

\* The question the user is shown is that of the thread's latest checkpoint.
Answer(r, answer) ==
  /\ graph[r] # <<>>
  /\ Resume(r, answer, FALSE)
  /\ given' = [given EXCEPT ![r] =
       @ \cup {[epoch |-> row[r].epoch, question |-> Last(graph[r]).values.at + 1,
                answer |-> answer]}]
  /\ UNCHANGED <<corpus, graph, shown, prog>>

\* rewind to a checkpoint of the run.  One that waits at a question is left out: which
\* of the writes recorded on it LangGraph replays is not decided in this repository.
RewindTo(r, i) ==
  /\ ~NextIs("ask", graph[r][i].values)
  /\ Rewind(r, graph[r][i].by, FALSE)
  /\ shown' = [shown EXCEPT ![r] = i]
  /\ UNCHANGED <<corpus, graph, given, prog>>

\* Documents are added to the live corpus at any time.
Ingest ==
  /\ \E revision \in Revisions \ {corpus} : corpus' = revision
  /\ UNCHANGED <<vars, graph, shown, prog, given>>

StoreStep ==
  /\ \/ \E r \in Runs : Create(r, "local") \/ Cancel(r) \/ Retry(r, FALSE)
     \/ \E e \in Executors, r \in Runs : BeginClaim(e, r, AnyEpoch)
     \/ \E e \in Executors : ClaimStep(e) \/ Heartbeat(e)
     \/ ExpireWaiting
     \/ Tick
  /\ UNCHANGED <<world, prog>>

ExecutorStep(e) ==
  \/ ReadRun(e) \/ ReadPin(e) \/ WritePin(e) \/ LoadState(e)
  \/ PutInput(e) \/ Work(e) \/ TakeAnswer(e) \/ Ask(e) \/ Publish(e)
  \/ Conclude(e) \/ Fail(e) \/ Die(e)

ExecutionNext ==
  \/ StoreStep
  \/ Ingest
  \/ \E e \in Executors : ExecutorStep(e)
  \/ \E r \in Runs, answer \in Answers : Answer(r, answer)
  \/ \E r \in Runs : \E i \in DOMAIN graph[r] : RewindTo(r, i)

ExecutionSpec == ExecutionInit /\ [][ExecutionNext]_allvars

-----------------------------------------------------------------------------
(* Properties.                                                              *)

\* The thread and the locals hold values of their types, and the row names a checkpoint
\* exactly when one was published: the row's checkpoint is that of the writer shown.
ExecutionTypeOK ==
  /\ corpus \in Revisions
  /\ prog \in [Executors -> [stage : {"row", "snapshot", "viewed", "stream", "put", "asked", "over"},
                             view : Revisions \cup {NoPin}, resume : Answers \cup {NoAnswer},
                             from : Nat]]
  /\ \A e \in Executors : exec[e].pc = "running" => prog[e].from \in 0 .. Len(Thread(e))
  /\ \A r \in Runs :
       /\ shown[r] \in 0 .. Len(graph[r])
       /\ row[r].checkpoint = IF shown[r] = 0 THEN NoToken ELSE graph[r][shown[r]].by

\* "A run does not move on to a newer revision of the knowledge": all checkpoints of a
\* run, of all its executors and epochs, are computed from one revision, although the
\* corpus changes under it and two executors may pin at the same time.
OneRevision ==
  \A r \in Runs : \A i, j \in DOMAIN graph[r] : graph[r][i].values.view = graph[r][j].values.view

\* "Only a run whose tasks are all complete yields a success": the result of a succeeded
\* run is the latest checkpoint of its thread; in it every node ran and every question has
\* its answer, whichever executors wrote the thread and died.
SuccessIsComplete ==
  \A r \in Runs : row[r].status = "succeeded" =>
    /\ graph[r] # <<>>
    /\ Done(Last(graph[r]).values)
    /\ \A q \in Questions : Last(graph[r]).values.answers[q] # NoAnswer

\* "A new executor resumes": within an epoch the progress the row names never goes back,
\* whoever crashes, lapses or replays.
ProgressKept ==
  [][\A r \in Runs :
       row'[r].epoch = row[r].epoch /\ shown[r] # 0 =>
         /\ shown'[r] # 0
         /\ graph'[r][shown'[r]].values.at >= graph[r][shown[r]].values.at]_allvars

\* No question is put to the user again once he answered it, unless he rewound the run:
\* an answer survives the failures and crashes between resume and its checkpoint.  Not
\* so after a rewind to a checkpoint at which the workflow was over: execute has nothing
\* to run then and takes its verdict from the latest checkpoint of the thread, that of
\* a branch the user left, whose question comes back after every answer.
AskedOnce ==
  [][\A r \in Runs :
       /\ row[r].status # "waiting_input" /\ row'[r].status = "waiting_input"
       /\ shown[r] # 0 => ~Done(graph[r][shown[r]].values)
       => \A g \in given[r] : g.epoch = row[r].epoch => g.question # Last(graph[r]).values.at + 1]_allvars

\* docs/PARALLEL_AGENT.md:61 says of several questions that they are asked one after the
\* other and that an answer is passed only to the task it belongs to (and its explicit
\* dependants): what a checkpoint holds as the answer to a question was given to it.
AnswersBelong ==
  \A r \in Runs : \A i \in DOMAIN graph[r] : \A q \in Questions :
    LET answer == graph[r][i].values.answers[q] IN
    answer # NoAnswer => \E g \in given[r] : g.question = q /\ g.answer = answer
=============================================================================
