------------------------- MODULE RunExecutionProofs -------------------------
(***************************************************************************)
(* What AgentService.execute keeps for any script, any number of runs,     *)
(* executors, answers and knowledge revisions, and however often           *)
(* executors die: the row names a checkpoint that is there, a thread is    *)
(* computed from one revision, and a success has everything.               *)
(***************************************************************************)
EXTENDS RunExecution, RunStoreSafety, SequenceTheorems

-----------------------------------------------------------------------------
(* The inductive invariant.                                                 *)

Values ==
  [at : 0 .. Len(Script), view : Revisions, answers : [Questions -> Answers \cup {NoAnswer}]]
Checkpoints == [values : Values, asked : BOOLEAN, by : Nat]

ThreadsTyped == graph \in [Runs -> Seq(Checkpoints)] /\ shown \in [Runs -> Nat]

\* What the saver wrote is what the graph's thread holds.
ThreadsStored ==
  \A r \in Runs :
    /\ saved[r].last = IF graph[r] = <<>> THEN NoToken ELSE Last(graph[r]).by
    /\ graph[r] = <<>> => saved[r].writers = {}

\* A run nobody submitted has no past.
Unsubmitted == \A r \in Runs : row[r].status = "absent" => row[r].epoch = 0 /\ shown[r] = 0

\* The two halves of ExecutionTypeOK.
RowNamesCheckpoint ==
  \A r \in Runs :
    /\ shown[r] \in 0 .. Len(graph[r])
    /\ row[r].checkpoint = IF shown[r] = 0 THEN NoToken ELSE graph[r][shown[r]].by

LocalsTyped ==
  /\ corpus \in Revisions
  /\ prog \in [Executors -> [stage : {"row", "snapshot", "viewed", "stream", "put", "asked", "over"},
                             view : Revisions \cup {NoPin}, resume : Answers \cup {NoAnswer},
                             from : Nat]]
  /\ \A e \in Executors : exec[e].pc = "running" => prog[e].from \in 0 .. Len(Thread(e))

\* How far an executor that read its row may be.
ProgramsInOrder ==
  \A e \in Executors : exec[e].pc = "running" =>
    /\ exec[e].epoch <= row[exec[e].run].epoch
    /\ prog[e].stage \in {"put", "asked", "over"} => prog[e].from # 0
    /\ prog[e].stage # "row" => prog[e].view \in Revisions

\* Who reads knowledge reads the epoch's pin, and so did whoever wrote the thread.
ViewsPinned ==
  /\ \A e \in Executors :
       exec[e].pc = "running" /\ prog[e].stage \notin {"row", "snapshot"} =>
         prog[e].view = pins[<<exec[e].run, exec[e].epoch>>]
  /\ \A r \in Runs : \A i \in 1 .. Len(graph[r]) :
       graph[r][i].values.view = pins[<<r, row[r].epoch>>]

\* A question that was passed has its answer.
QuestionsAnswered ==
  \A r \in Runs : \A i \in 1 .. Len(graph[r]) : \A q \in Questions :
    q <= graph[r][i].values.at => graph[r][i].values.answers[q] # NoAnswer

ThreadInv == ThreadsTyped /\ ThreadsStored /\ Unsubmitted /\ RowNamesCheckpoint /\ QuestionsAnswered
LocalInv  == LocalsTyped /\ ProgramsInOrder

\* A thread with one checkpoint more.
LEMMA OneMore ==
  ASSUME NEW S, NEW s \in Seq(S), NEW x \in S
  PROVE  /\ Append(s, x) \in Seq(S) /\ Append(s, x) # <<>>
         /\ Len(Append(s, x)) = Len(s) + 1
         /\ Append(s, x)[Len(s) + 1] = x
         /\ \A i \in 1 .. Len(s) : Append(s, x)[i] = s[i]
  OBVIOUS

-----------------------------------------------------------------------------
(* Steps that leave the threads alone.                                      *)

\* A row keeps what its thread is about.
Plain(r) ==
  /\ row'[r].epoch = row[r].epoch /\ row'[r].checkpoint = row[r].checkpoint
  /\ row'[r].status = "absent" => row[r].status = "absent"

\* An executor that works on a run has read its row before.
Runner(e) ==
  exec'[e].pc = "running" =>
    exec[e].pc = "running" /\ exec'[e].run = exec[e].run /\ exec'[e].epoch = exec[e].epoch

\* Users, claims, heartbeats and time.
LEMMA StoreSteps ==
  ASSUME TypeOK, Unsubmitted, RowNamesCheckpoint, StoreStep
  PROVE  /\ \A r \in Runs : Plain(r)
         /\ \A e \in Executors : Runner(e)
         /\ UNCHANGED <<saved, pins, world, prog>>
<1>0. row \in [Runs -> Rows] /\ exec \in [Executors -> ExecStates]
  BY DEF TypeOK
<1>1. ASSUME NEW s \in Runs, Create(s, "local") PROVE \A r \in Runs : Plain(r)
  <2>1. row[s].epoch = 0 /\ row[s].checkpoint = NoToken /\ row[s].status = "absent"
    BY <1>1 DEF Create, Unsubmitted, RowNamesCheckpoint
  <2>2. /\ \A r \in Runs : r # s => row'[r] = row[r]
        /\ row'[s].epoch = 0 /\ row'[s].checkpoint = NoToken
    BY <1>0, <1>1 DEF Create, AbsentRow
  <2> QED
    BY <2>1, <2>2 DEF Plain
<1>2. ASSUME NEW s \in Runs, Cancel(s) \/ Retry(s, FALSE) PROVE \A r \in Runs : Plain(r)
  <2>1. CASE Cancel(s)
    BY <1>0, <2>1 DEF Cancel, Plain, Rows
  <2>2. CASE Retry(s, FALSE)
    BY <1>0, <2>2 DEF Retry, Plain, Rows
  <2> QED
    BY <1>2, <2>1, <2>2
<1>3. ASSUME NEW e \in Executors, ClaimStep(e) \/ Heartbeat(e) PROVE \A r \in Runs : Plain(r)
  BY <1>0, <1>3 DEF ClaimStep, ClaimRefused, ClaimExpired, ClaimGranted, Heartbeat, Plain, Rows
<1>4. ASSUME ExpireWaiting, NEW r \in Runs PROVE Plain(r)
  <2>1. CASE r \in Overdue
    <3>1. row'[r] = [row[r] EXCEPT !.status = "timed_out"]
      BY <1>4, <2>1 DEF ExpireWaiting
    <3> QED
      BY <1>0, <3>1 DEF Plain, Rows
  <2>2. CASE r \notin Overdue
    BY <1>4, <2>2 DEF ExpireWaiting, Plain
  <2> QED
    BY <2>1, <2>2
<1>5. \A r \in Runs : Plain(r)
  BY <1>1, <1>2, <1>3, <1>4 DEF StoreStep, BeginClaim, Tick, Plain
<1>6. \A e \in Executors : Runner(e)
  <2>1. ASSUME NEW d \in Executors, NEW r \in Runs, BeginClaim(d, r, AnyEpoch)
        PROVE  \A e \in Executors : Runner(e)
    BY <1>0, <2>1 DEF BeginClaim, IdleExec, Runner
  <2>2. ASSUME NEW d \in Executors, ClaimStep(d) PROVE \A e \in Executors : Runner(e)
    <3>1. CASE ClaimGranted(d)
      BY <1>0, <3>1 DEF ClaimGranted, IdleExec, Runner
    <3>2. CASE ClaimRefused(d) \/ ClaimExpired(d)
      BY <1>0, <3>2 DEF ClaimRefused, ClaimExpired, IdleExec, Runner
    <3> QED
      BY <2>2, <3>1, <3>2 DEF ClaimStep
  <2> QED
    BY <2>1, <2>2 DEF StoreStep, Create, Cancel, Retry, Heartbeat, ExpireWaiting, Tick, Runner
<1>7. UNCHANGED <<saved, pins, world, prog>>
  BY DEF StoreStep, Create, Cancel, Retry, BeginClaim, ClaimStep, ClaimRefused, ClaimExpired,
         ClaimGranted, Heartbeat, ExpireWaiting, Tick, ledger
<1> QED
  BY <1>5, <1>6, <1>7

\* The end of an execution.
LEMMA EndSteps ==
  ASSUME TypeOK, NEW e \in Executors, Conclude(e) \/ Fail(e) \/ Die(e)
  PROVE  /\ \A r \in Runs : Plain(r) /\ row'[r].resume = row[r].resume
         /\ \A d \in Executors : d # e => exec'[d] = exec[d]
         /\ exec'[e].pc = "idle" /\ prog' = [prog EXCEPT ![e] = IdleProg]
         /\ UNCHANGED <<saved, pins, world>>
<1>0. row \in [Runs -> Rows] /\ exec \in [Executors -> ExecStates]
  BY DEF TypeOK
<1>1. PICK verdict : Finish(e, verdict) \/ FinishRejected(e) \/ Crash(e)
  BY DEF Conclude, Fail, Die
<1>2. /\ exec' = [exec EXCEPT ![e] = IdleExec] /\ UNCHANGED <<saved, pins>>
      /\ row' = row \/ \E new \in {"waiting_input", "failed", "succeeded", "timed_out"} :
           row' = [row EXCEPT ![exec[e].run].status = new, ![exec[e].run].token = NoToken,
                              ![exec[e].run].until = NullTime]
  BY DEF Conclude, Fail, Die, Finish, FinishRejected, Crash, VerdictOf, ledger
<1>3. \A r \in Runs : Plain(r) /\ row'[r].resume = row[r].resume
  BY <1>0, <1>2 DEF Plain, Rows
<1> QED
  BY <1>0, <1>2, <1>3 DEF IdleExec, Conclude, Fail, Die, Leave

\* A step of the execution that only its program sees.
LEMMA LocalSteps ==
  ASSUME TypeOK, LocalsTyped, NEW e \in Executors, ReadRun(e) \/ ReadPin(e) \/ LoadState(e)
  PROVE  /\ row' = row /\ \A d \in Executors : d # e => exec'[d] = exec[d] /\ prog'[d] = prog[d]
         /\ UNCHANGED <<saved, pins, corpus, graph, shown, given>>
<1>0. exec \in [Executors -> ExecStates] /\ DOMAIN prog = Executors
  BY DEF TypeOK, LocalsTyped
<1>1. CASE ReadRun(e)
  BY <1>0, <1>1 DEF ReadRun, ReadRow, world, ledger
<1>2. CASE ReadPin(e) \/ LoadState(e)
  BY <1>0, <1>2 DEF ReadPin, LoadState, vars, world
<1> QED
  BY <1>1, <1>2

\* The saver's transaction.
LEMMA PutSteps ==
  ASSUME TypeOK, ThreadsTyped, NEW e \in Executors, NEW values \in Values, Put(e, values)
  PROVE  /\ exec[e].run \in Runs /\ exec[e].pc = "running"
         /\ row[exec[e].run].epoch = exec[e].epoch /\ row[exec[e].run].status = "running"
         /\ \A r \in Runs : r # exec[e].run => graph'[r] = graph[r] /\ saved'[r] = saved[r]
         /\ graph'[exec[e].run] = Append(graph[exec[e].run], Checkpoint(values, e))
         /\ Checkpoint(values, e) \in Checkpoints
         /\ saved'[exec[e].run].last = exec[e].token
         /\ UNCHANGED <<row, exec, pins, corpus, shown, given>>
<1> PICK r \in Runs : r = exec[e].run
  BY DEF TypeOK, Put, PutCheckpoint, Active, HoldsLease
<1>1. /\ saved \in [Runs -> [writers : SUBSET Nat, last : Nat]] /\ graph \in [Runs -> Seq(Checkpoints)]
      /\ exec[e].token \in Nat
  BY DEF TypeOK, ThreadsTyped, ExecStates
<1>2. Checkpoint(values, e) \in Checkpoints
  BY <1>1 DEF Checkpoint, Checkpoints
<1> QED
  BY <1>1, <1>2 DEF Put, PutCheckpoint, Active, HoldsLease, LiveAt, ledger

-----------------------------------------------------------------------------
(* Threads.                                                                 *)

\* Nothing happens to a thread while its row keeps what it says about it.
LEMMA ThreadsAlone ==
  ASSUME ThreadInv, \A r \in Runs : Plain(r), UNCHANGED <<graph, shown, saved>>
  PROVE  ThreadInv'
<1>1. ThreadsTyped' /\ ThreadsStored' /\ QuestionsAnswered'
  BY DEF ThreadInv, ThreadsTyped, ThreadsStored, QuestionsAnswered
<1>2. Unsubmitted' /\ RowNamesCheckpoint'
  BY DEF ThreadInv, Plain, Unsubmitted, RowNamesCheckpoint
<1> QED
  BY <1>1, <1>2 DEF ThreadInv

\* A thread grows by one checkpoint that has the answers it passed.
LEMMA ThreadsGrow ==
  ASSUME TypeOK, ThreadInv, NEW e \in Executors, NEW values \in Values, Put(e, values),
         \A q \in Questions : q <= values.at => values.answers[q] # NoAnswer
  PROVE  ThreadInv'
<1> PICK r \in Runs : r = exec[e].run
  BY PutSteps DEF ThreadInv
<1>0. graph \in [Runs -> Seq(Checkpoints)] /\ shown \in [Runs -> Nat]
  BY DEF ThreadInv, ThreadsTyped
<1>1. /\ \A s \in Runs : s # r => graph'[s] = graph[s] /\ saved'[s] = saved[s]
      /\ graph'[r] = Append(graph[r], Checkpoint(values, e)) /\ Checkpoint(values, e) \in Checkpoints
      /\ saved'[r].last = exec[e].token
      /\ UNCHANGED <<row, shown>>
  BY PutSteps DEF ThreadInv
<1>2. /\ graph'[r] \in Seq(Checkpoints) /\ graph'[r] # <<>> /\ Len(graph'[r]) = Len(graph[r]) + 1
      /\ graph'[r][Len(graph'[r])] = Checkpoint(values, e)
      /\ \A i \in 1 .. Len(graph[r]) : graph'[r][i] = graph[r][i]
      /\ Len(graph[r]) \in Nat
  <2> DEFINE new == Checkpoint(values, e)
  <2>1. graph[r] \in Seq(Checkpoints) /\ new \in Checkpoints /\ graph'[r] = Append(graph[r], new)
    BY <1>0, <1>1
  <2>2. new = Checkpoint(values, e) /\ Len(graph[r]) \in Nat
    BY <2>1
  <2> HIDE DEF new
  <2>3. Append(graph[r], new)[Len(graph[r]) + 1] = new /\ Len(Append(graph[r], new)) = Len(graph[r]) + 1
    BY <2>1, OneMore
  <2>4. Append(graph[r], new)[Len(Append(graph[r], new))] = new
    BY <2>3
  <2> QED
    BY <2>1, <2>2, <2>3, <2>4, OneMore
<1>3. ThreadsTyped'
  BY <1>0, <1>1, <1>2 DEF ThreadsTyped, Put
<1>4. ThreadsStored'
  <2> SUFFICES ASSUME NEW s \in Runs
               PROVE  /\ saved'[s].last = IF graph'[s] = <<>> THEN NoToken ELSE Last(graph'[s]).by
                      /\ graph'[s] = <<>> => saved'[s].writers = {}
    BY DEF ThreadsStored
  <2>1. CASE s = r
    BY <1>1, <1>2, <2>1 DEF Last, Checkpoint
  <2>2. CASE s # r
    BY <1>1, <2>2 DEF ThreadInv, ThreadsStored
  <2> QED
    BY <2>1, <2>2
<1>5. Unsubmitted'
  BY <1>1 DEF ThreadInv, Unsubmitted
<1>6. RowNamesCheckpoint'
  <2> SUFFICES ASSUME NEW s \in Runs
               PROVE  /\ shown'[s] \in 0 .. Len(graph'[s])
                      /\ row'[s].checkpoint = IF shown'[s] = 0 THEN NoToken ELSE graph'[s][shown'[s]].by
    BY DEF RowNamesCheckpoint
  <2>0. /\ shown[s] \in 0 .. Len(graph[s])
        /\ row[s].checkpoint = IF shown[s] = 0 THEN NoToken ELSE graph[s][shown[s]].by
    BY DEF ThreadInv, RowNamesCheckpoint
  <2>1. CASE s = r
    BY <1>1, <1>2, <2>0, <2>1
  <2>2. CASE s # r
    BY <1>1, <2>0, <2>2
  <2> QED
    BY <2>1, <2>2
<1>7. QuestionsAnswered'
  <2> SUFFICES ASSUME NEW s \in Runs, NEW i \in 1 .. Len(graph'[s]), NEW q \in Questions,
                      q <= graph'[s][i].values.at
               PROVE  graph'[s][i].values.answers[q] # NoAnswer
    BY DEF QuestionsAnswered
  <2>1. CASE s # r \/ (s = r /\ i \in 1 .. Len(graph[r]))
    <3>1. i \in 1 .. Len(graph[s]) /\ graph'[s][i] = graph[s][i]
      BY <1>1, <1>2, <2>1
    <3> QED
      BY <3>1 DEF ThreadInv, QuestionsAnswered
  <2>2. CASE s = r /\ i = Len(graph'[r])
    BY <1>2, <2>2 DEF Checkpoint
  <2> QED
    BY <1>2, <2>1, <2>2
<1> QED
  BY <1>3, <1>4, <1>5, <1>6, <1>7 DEF ThreadInv

\* The nodes put checkpoints in which the questions they passed have their answers.
LEMMA NodeSteps ==
  ASSUME TypeOK, ThreadInv, LocalInv, NEW e \in Executors, PutInput(e) \/ Work(e) \/ TakeAnswer(e)
  PROVE  \E values \in Values :
           /\ Put(e, values)
           /\ \A q \in Questions : q <= values.at => values.answers[q] # NoAnswer
           /\ prog[e].from # 0 => values.at = graph[exec[e].run][prog[e].from].values.at + 1
           /\ \/ values.view = prog[e].view
              \/ \E i \in 1 .. Len(graph[exec[e].run]) : values.view = graph[exec[e].run][i].values.view
<1> PICK r \in Runs : r = exec[e].run
  BY DEF TypeOK, PutInput, Work, TakeAnswer, At
<1>0. /\ exec[e].pc = "running" /\ prog[e].stage = "stream" /\ prog[e].view \in Revisions
      /\ graph[r] \in Seq(Checkpoints) /\ Len(Script) \in Nat /\ Questions \subseteq 1 .. Len(Script)
      /\ prog[e].resume \in Answers \cup {NoAnswer} /\ prog[e].from \in 0 .. Len(graph[r])
  BY ScriptAssumption
  DEF ThreadInv, ThreadsTyped, LocalInv, LocalsTyped, ProgramsInOrder, PutInput, Work, TakeAnswer, At, Questions,
      Thread
<1>1. CASE PutInput(e)
  <2>1. Start(prog[e].view) \in Values
    BY <1>0 DEF Start, Values
  <2>2. \A q \in Questions : ~(q <= Start(prog[e].view).at)
    BY <1>0 DEF Start
  <2> QED
    BY <1>1, <2>1, <2>2 DEF PutInput, Start
<1>2. ASSUME prog[e].from # 0
      PROVE  /\ Base(e).values = graph[r][prog[e].from].values /\ prog[e].from \in 1 .. Len(graph[r])
             /\ Base(e).values \in Values
             /\ \A q \in Questions : q <= Base(e).values.at => Base(e).values.answers[q] # NoAnswer
  <2>1. prog[e].from \in 1 .. Len(graph[r]) /\ Base(e) = graph[r][prog[e].from]
    BY <1>0, <1>2 DEF Base, Thread
  <2>2. Base(e) \in Checkpoints
    BY <1>0, <2>1, ElementOfSeq
  <2> QED
    BY <2>1, <2>2 DEF ThreadInv, QuestionsAnswered, Checkpoints
<1> DEFINE base == Base(e).values
<1>3. CASE Work(e)
  <2> DEFINE new == [base EXCEPT !.at = base.at + 1, !.view = prog[e].view]
  <2>1. Put(e, new) /\ base.at # Len(Script) /\ Script[base.at + 1] = "work"
    BY <1>3 DEF Work, NextIs, Done
  <2>2. base \in Values /\ \A q \in Questions : q <= base.at => base.answers[q] # NoAnswer
    BY <1>2, <1>3 DEF Work
  <2>0. base = graph[r][prog[e].from].values
    BY <1>2, <1>3 DEF Work
  <2> HIDE DEF base
  <2>3. new \in Values /\ new.at = base.at + 1 /\ new.answers = base.answers /\ new.view = prog[e].view
    <3>1. base.at + 1 \in 0 .. Len(Script)
      BY <1>0, <2>1, <2>2 DEF Values
    <3>2. new.at = base.at + 1 /\ new.answers = base.answers /\ new.view = prog[e].view
      BY <2>2 DEF Values
    <3>3. new \in Values
      BY <1>0, <2>2, <3>1 DEF Values
    <3> QED
      BY <3>2, <3>3
  <2>4. \A q \in Questions : q <= new.at => new.answers[q] # NoAnswer
    <3> SUFFICES ASSUME NEW q \in Questions, q <= new.at PROVE q <= base.at
      BY <2>2, <2>3
    <3>1. q # base.at + 1 /\ q \in Nat /\ base.at \in Nat
      BY <1>0, <2>1, <2>2 DEF Questions, Values
    <3> QED
      BY <2>3, <3>1
  <2> QED
    BY <2>0, <2>1, <2>3, <2>4
<1>4. CASE TakeAnswer(e)
  <2> DEFINE new == [base EXCEPT !.at = base.at + 1, !.answers[base.at + 1] = prog[e].resume]
  <2>1. Put(e, new) /\ base.at # Len(Script) /\ prog[e].resume # NoAnswer
    BY <1>4 DEF TakeAnswer, NextIs, Done
  <2>2. base \in Values /\ \A q \in Questions : q <= base.at => base.answers[q] # NoAnswer
    BY <1>2, <1>4 DEF TakeAnswer
  <2>3. /\ \E i \in 1 .. Len(graph[r]) : base.view = graph[r][i].values.view
        /\ base = graph[r][prog[e].from].values
    BY <1>2, <1>4 DEF TakeAnswer
  <2> HIDE DEF base
  <2>4. /\ new \in Values /\ new.at = base.at + 1 /\ new.view = base.view
        /\ \A q \in Questions : new.answers[q] = IF q = base.at + 1 THEN prog[e].resume ELSE base.answers[q]
    <3> DEFINE answers == [base.answers EXCEPT ![base.at + 1] = prog[e].resume]
    <3>1. base.at + 1 \in 0 .. Len(Script)
      BY <1>0, <2>1, <2>2 DEF Values
    <3>2. new = [base EXCEPT !.at = base.at + 1, !.answers = answers]
      OBVIOUS
    <3>3. /\ answers \in [Questions -> Answers \cup {NoAnswer}]
          /\ \A q \in Questions : answers[q] = IF q = base.at + 1 THEN prog[e].resume ELSE base.answers[q]
      BY <1>0, <2>2 DEF Values
    <3> HIDE DEF answers, new
    <3>4. new.at = base.at + 1 /\ new.view = base.view /\ new.answers = answers
      BY <2>2, <3>2 DEF Values
    <3>5. new \in Values
      BY <2>2, <3>1, <3>2, <3>3 DEF Values
    <3> QED
      BY <3>3, <3>4, <3>5
  <2>5. \A q \in Questions : q <= new.at => new.answers[q] # NoAnswer
    <3> SUFFICES ASSUME NEW q \in Questions, q <= new.at, q # base.at + 1 PROVE q <= base.at
      BY <2>1, <2>2, <2>4
    <3>1. q \in Nat /\ base.at \in Nat
      BY <1>0, <2>2 DEF Values
    <3> QED
      BY <2>4, <3>1
  <2> QED
    <3>1. Put(e, new) /\ new \in Values
      BY <2>1, <2>4
    <3>2. new.at = graph[exec[e].run][prog[e].from].values.at + 1
      BY <2>3, <2>4
    <3>3. \E i \in 1 .. Len(graph[exec[e].run]) : new.view = graph[exec[e].run][i].values.view
      BY <2>3, <2>4
    <3> HIDE DEF new
    <3> QED
      BY <2>5, <3>1, <3>2, <3>3
<1> QED
  BY <1>1, <1>3, <1>4

\* An interrupt is recorded on a checkpoint that is there.
LEMMA AskSteps ==
  ASSUME TypeOK, ThreadInv, LocalInv, NEW e \in Executors, Ask(e)
  PROVE  /\ \A r \in Runs : /\ graph'[r] \in Seq(Checkpoints) /\ Len(graph'[r]) = Len(graph[r])
                            /\ \A i \in 1 .. Len(graph[r]) : /\ graph'[r][i].values = graph[r][i].values
                                                             /\ graph'[r][i].by = graph[r][i].by
         /\ graph' \in [Runs -> Seq(Checkpoints)]
         /\ UNCHANGED <<vars, corpus, shown, given>>
<1> PICK r \in Runs : r = exec[e].run
  BY DEF TypeOK, Ask, At
<1>0. /\ graph \in [Runs -> Seq(Checkpoints)] /\ graph[r] \in Seq(Checkpoints)
      /\ prog[e].from \in 1 .. Len(graph[r])
  BY DEF ThreadInv, ThreadsTyped, LocalInv, LocalsTyped, Ask, At, Thread
<1> DEFINE old == graph[r][prog[e].from]
           new == [old EXCEPT !.asked = TRUE]
<1>1. old \in Checkpoints
  BY <1>0, ElementOfSeq
<1>2. new \in Checkpoints /\ new.values = old.values /\ new.by = old.by
  BY <1>1 DEF Checkpoints
<1>3. graph' = [graph EXCEPT ![r] = [graph[r] EXCEPT ![prog[e].from] = new]]
  BY <1>0 DEF Ask
<1> HIDE DEF new
<1>4. /\ graph'[r] \in Seq(Checkpoints) /\ Len(graph'[r]) = Len(graph[r])
      /\ \A i \in 1 .. Len(graph[r]) : graph'[r][i] = IF i = prog[e].from THEN new ELSE graph[r][i]
  BY <1>0, <1>2, <1>3, ExceptSeq
<1>5. \A s \in Runs : s # r => graph'[s] = graph[s] /\ graph[s] \in Seq(Checkpoints)
  BY <1>0, <1>3
<1>6. graph' \in [Runs -> Seq(Checkpoints)] /\ UNCHANGED <<vars, corpus, shown, given>>
  BY <1>0, <1>3, <1>4, <1>5 DEF Ask
<1>7. \A i \in 1 .. Len(graph[r]) : graph'[r][i].values = graph[r][i].values /\ graph'[r][i].by = graph[r][i].by
  BY <1>2, <1>4
<1> QED
  BY <1>4, <1>5, <1>6, <1>7

\* The row of one run names another checkpoint that is there.
LEMMA ThreadsNamed ==
  ASSUME ThreadInv, UNCHANGED <<graph, saved>>, NEW r \in Runs, NEW i \in 1 .. Len(graph[r]),
         shown' \in [Runs -> Nat],
         \A s \in Runs : s # r => row'[s] = row[s] /\ shown'[s] = shown[s],
         row[r].status # "absent", row'[r].status # "absent",
         row'[r].checkpoint = graph[r][i].by, shown'[r] = i
  PROVE  ThreadInv'
<1>0. Len(graph[r]) \in Nat
  BY DEF ThreadInv, ThreadsTyped
<1>1. ThreadsTyped' /\ ThreadsStored' /\ QuestionsAnswered'
  BY DEF ThreadInv, ThreadsTyped, ThreadsStored, QuestionsAnswered
<1>2. Unsubmitted'
  BY DEF ThreadInv, Unsubmitted
<1>3. RowNamesCheckpoint'
  BY <1>0 DEF ThreadInv, RowNamesCheckpoint
<1> QED
  BY <1>1, <1>2, <1>3 DEF ThreadInv

\* Every step keeps the threads and what the rows say about them.
LEMMA ThreadsInvNext ==
  ASSUME TypeOK, ThreadInv, LocalInv, [ExecutionNext]_allvars
  PROVE  ThreadInv'
<1>0. /\ row \in [Runs -> Rows] /\ saved \in [Runs -> [writers : SUBSET Nat, last : Nat]]
      /\ graph \in [Runs -> Seq(Checkpoints)] /\ shown \in [Runs -> Nat]
  BY DEF TypeOK, ThreadInv, ThreadsTyped
<1>1. CASE StoreStep
  BY <1>1, StoreSteps, ThreadsAlone DEF ThreadInv, world
<1>2. CASE Ingest \/ UNCHANGED allvars
  BY <1>2, ThreadsAlone DEF Ingest, allvars, vars, world, Plain
<1>3. ASSUME NEW e \in Executors, ReadRun(e) \/ ReadPin(e) \/ LoadState(e) PROVE ThreadInv'
  BY <1>3, LocalSteps, ThreadsAlone DEF LocalInv, Plain
<1>4. ASSUME NEW e \in Executors, WritePin(e) PROVE ThreadInv'
  BY <1>4, ThreadsAlone DEF WritePin, InsertPin, world, Plain
<1>5. ASSUME NEW e \in Executors, PutInput(e) \/ Work(e) \/ TakeAnswer(e) PROVE ThreadInv'
  BY <1>5, NodeSteps, ThreadsGrow
<1>6. ASSUME NEW e \in Executors, Ask(e) PROVE ThreadInv'
  <2>1. /\ \A r \in Runs : /\ graph'[r] \in Seq(Checkpoints) /\ Len(graph'[r]) = Len(graph[r])
                           /\ \A i \in 1 .. Len(graph[r]) : /\ graph'[r][i].values = graph[r][i].values
                                                            /\ graph'[r][i].by = graph[r][i].by
        /\ graph' \in [Runs -> Seq(Checkpoints)] /\ UNCHANGED <<row, saved, shown>>
    BY <1>6, AskSteps DEF vars
  <2>2. \A r \in Runs : Len(graph[r]) \in Nat /\ (graph[r] = <<>> <=> Len(graph[r]) = 0)
                                             /\ (graph'[r] = <<>> <=> Len(graph[r]) = 0)
    BY <1>0, <2>1, EmptySeq
  <2>3. ThreadsTyped'
    BY <1>0, <2>1 DEF ThreadsTyped
  <2>4. ThreadsStored'
    BY <2>1, <2>2 DEF ThreadInv, ThreadsStored, Last
  <2>5. Unsubmitted' /\ RowNamesCheckpoint'
    <3>1. Unsubmitted'
      BY <2>1 DEF ThreadInv, Unsubmitted
    <3> SUFFICES ASSUME NEW r \in Runs
                 PROVE  /\ shown'[r] \in 0 .. Len(graph'[r])
                        /\ row'[r].checkpoint = IF shown'[r] = 0 THEN NoToken ELSE graph'[r][shown'[r]].by
      BY <3>1 DEF RowNamesCheckpoint
    <3>2. /\ shown[r] \in 0 .. Len(graph[r])
          /\ row[r].checkpoint = IF shown[r] = 0 THEN NoToken ELSE graph[r][shown[r]].by
      BY DEF ThreadInv, RowNamesCheckpoint
    <3> QED
      BY <2>1, <2>2, <3>2
  <2>6. QuestionsAnswered'
    BY <2>1 DEF ThreadInv, QuestionsAnswered
  <2> QED
    BY <2>3, <2>4, <2>5, <2>6 DEF ThreadInv
<1>7. ASSUME NEW e \in Executors, Publish(e) PROVE ThreadInv'
  <2> PICK r \in Runs : r = exec[e].run
    BY <1>7 DEF TypeOK, Publish, At
  <2>1. graph[r] # <<>> /\ saved[r].last = Last(graph[r]).by
    BY <1>7 DEF Publish, SetCheckpoint, ThreadInv, ThreadsStored
  <2>2. Len(graph[r]) \in 1 .. Len(graph[r])
    BY <1>0, <2>1, EmptySeq
  <2>3. /\ row' = [row EXCEPT ![r].checkpoint = saved[r].last] /\ row[r].status = "running"
        /\ shown' = [shown EXCEPT ![r] = Len(graph[r])]
        /\ UNCHANGED <<graph, saved>>
    BY <1>7 DEF Publish, SetCheckpoint, Active, HoldsLease, LiveAt, Thread
  <2>4. /\ \A s \in Runs : s # r => row'[s] = row[s] /\ shown'[s] = shown[s]
        /\ row'[r].status = "running" /\ row'[r].checkpoint = graph[r][Len(graph[r])].by
        /\ shown'[r] = Len(graph[r]) /\ shown' \in [Runs -> Nat]
    BY <1>0, <2>1, <2>2, <2>3 DEF Rows, Last
  <2> QED
    BY <2>2, <2>3, <2>4, ThreadsNamed
<1>8. ASSUME NEW e \in Executors, Conclude(e) \/ Fail(e) \/ Die(e) PROVE ThreadInv'
  BY <1>8, EndSteps, ThreadsAlone DEF world
<1>9. ASSUME NEW r \in Runs, NEW answer \in Answers, Answer(r, answer) PROVE ThreadInv'
  <2>1. \A s \in Runs : Plain(s)
    BY <1>0, <1>9 DEF Answer, Resume, Plain, Rows
  <2> QED
    BY <1>9, <2>1, ThreadsAlone DEF Answer, Resume
<1>10. ASSUME NEW r \in Runs, NEW i \in DOMAIN graph[r], RewindTo(r, i) PROVE ThreadInv'
  <2>1. i \in 1 .. Len(graph[r])
    BY <1>0
  <2>2. /\ \A s \in Runs : s # r => row'[s] = row[s] /\ shown'[s] = shown[s]
        /\ row[r].status # "absent" /\ row'[r].status # "absent"
        /\ row'[r].checkpoint = graph[r][i].by /\ shown'[r] = i
        /\ UNCHANGED <<graph, saved>>
    BY <1>0, <1>10 DEF RewindTo, Rewind, Rows
  <2>3. shown' \in [Runs -> Nat]
    BY <1>0, <1>10, <2>1 DEF RewindTo
  <2> QED
    BY <2>1, <2>2, <2>3, ThreadsNamed
<1> QED
  BY <1>1, <1>2, <1>3, <1>4, <1>5, <1>6, <1>7, <1>8, <1>9, <1>10 DEF ExecutionNext, ExecutorStep

-----------------------------------------------------------------------------
(* Programs.                                                                *)

Stages == {"row", "snapshot", "viewed", "stream", "put", "asked", "over"}
Locals == [stage : Stages, view : Revisions \cup {NoPin}, resume : Answers \cup {NoAnswer}, from : Nat]

\* What an executor that works on a run may rely on.
InOrder(e) ==
  exec[e].pc = "running" =>
    /\ prog[e].from \in 0 .. Len(graph[exec[e].run])
    /\ exec[e].epoch <= row[exec[e].run].epoch
    /\ prog[e].stage \in {"put", "asked", "over"} => prog[e].from # 0
    /\ prog[e].stage # "row" => prog[e].view \in Revisions

LEMMA LocalsInOrder ==
  LocalInv <=> corpus \in Revisions /\ prog \in [Executors -> Locals] /\ \A e \in Executors : InOrder(e)
  BY DEF LocalInv, LocalsTyped, ProgramsInOrder, Locals, Stages, InOrder, Thread

\* Threads only grow and epochs only rise.
Growing ==
  \A r \in Runs : /\ Len(graph[r]) \in Nat /\ Len(graph'[r]) \in Nat /\ Len(graph[r]) <= Len(graph'[r])
                  /\ row[r].epoch \in Nat /\ row'[r].epoch \in Nat /\ row[r].epoch <= row'[r].epoch

LEMMA GrowingNext ==
  ASSUME TypeOK, ThreadInv, ThreadInv', LocalInv, [ExecutionNext]_allvars
  PROVE  Growing
<1>0. /\ row \in [Runs -> Rows] /\ graph \in [Runs -> Seq(Checkpoints)] /\ graph' \in [Runs -> Seq(Checkpoints)]
      /\ \A r \in Runs : /\ Len(graph[r]) \in Nat /\ Len(graph'[r]) \in Nat
                         /\ row[r].epoch \in Nat /\ row[r].epoch + 1 \in Nat
  <2>1. \A r \in Runs : row[r].epoch \in Nat /\ row[r].epoch + 1 \in Nat
    BY BoundAssumption DEF TypeOK, Rows, Epochs
  <2>2. graph \in [Runs -> Seq(Checkpoints)] /\ graph' \in [Runs -> Seq(Checkpoints)]
    BY DEF ThreadInv, ThreadsTyped
  <2>3. \A r \in Runs : Len(graph[r]) \in Nat /\ Len(graph'[r]) \in Nat
    BY <2>2, LenProperties
  <2> QED
    BY <2>1, <2>2, <2>3 DEF TypeOK
<1>1. ASSUME \A r \in Runs : Plain(r), graph' = graph PROVE Growing
  BY <1>0, <1>1 DEF Plain, Growing
<1>2. CASE StoreStep
  BY <1>1, <1>2, StoreSteps DEF ThreadInv, world
<1>3. CASE Ingest \/ UNCHANGED allvars
  BY <1>0, <1>3 DEF Ingest, allvars, vars, world, Growing
<1>4. ASSUME NEW e \in Executors, ReadRun(e) \/ ReadPin(e) \/ LoadState(e) PROVE Growing
  BY <1>0, <1>4, LocalSteps DEF LocalInv, Growing
<1>5. ASSUME NEW e \in Executors, WritePin(e) PROVE Growing
  BY <1>0, <1>5 DEF WritePin, InsertPin, world, Growing
<1>6. ASSUME NEW e \in Executors, PutInput(e) \/ Work(e) \/ TakeAnswer(e) PROVE Growing
  <2> PICK values \in Values : Put(e, values)
    BY <1>6, NodeSteps
  <2>1. /\ row' = row
        /\ \A r \in Runs : \/ graph'[r] = graph[r]
                           \/ \E new \in Checkpoints : graph'[r] = Append(graph[r], new)
    BY PutSteps DEF ThreadInv
  <2>2. \A r \in Runs : Len(graph[r]) <= Len(graph'[r])
    BY <1>0, <2>1, OneMore
  <2> QED
    BY <1>0, <2>1, <2>2 DEF Growing
<1>7. ASSUME NEW e \in Executors, Ask(e) PROVE Growing
  BY <1>0, <1>7, AskSteps DEF vars, Growing
<1>8. ASSUME NEW e \in Executors, Publish(e) PROVE Growing
  <2>1. graph' = graph /\ \A r \in Runs : row'[r].epoch = row[r].epoch
    BY <1>0, <1>8 DEF Publish, SetCheckpoint, Rows
  <2> QED
    BY <1>0, <2>1 DEF Growing
<1>9. ASSUME NEW e \in Executors, Conclude(e) \/ Fail(e) \/ Die(e) PROVE Growing
  BY <1>1, <1>9, EndSteps DEF world
<1>10. ASSUME NEW r \in Runs, NEW answer \in Answers, Answer(r, answer) PROVE Growing
  BY <1>0, <1>10 DEF Answer, Resume, Rows, Growing
<1>11. ASSUME NEW r \in Runs, NEW i \in DOMAIN graph[r], RewindTo(r, i) PROVE Growing
  <2>1. /\ graph' = graph /\ row'[r].epoch = row[r].epoch + 1
        /\ \A s \in Runs : s # r => row'[s] = row[s]
    BY <1>0, <1>11 DEF RewindTo, Rewind, Rows
  <2> QED
    BY <1>0, <2>1 DEF Growing
<1> QED
  BY <1>2, <1>3, <1>4, <1>5, <1>6, <1>7, <1>8, <1>9, <1>10, <1>11 DEF ExecutionNext, ExecutorStep

\* What others rely on stays.
LEMMA OthersInOrder ==
  ASSUME TypeOK, Growing, NEW e \in Executors, InOrder(e), Runner(e), prog'[e] = prog[e]
  PROVE  InOrder(e)'
<1>1. exec[e].epoch \in Nat /\ (exec[e].pc = "running" => exec[e].run \in Runs)
  BY BoundAssumption DEF TypeOK, ExecStates, Epochs, AnyEpoch
<1> QED
  BY <1>1 DEF Growing, InOrder, Runner

\* An executor that moves on keeps its own order.
LEMMA OwnInOrder ==
  ASSUME TypeOK, ThreadInv, LocalInv, Growing, NEW e \in Executors, ExecutorStep(e)
  PROVE  /\ prog' \in [Executors -> Locals] /\ InOrder(e)'
         /\ corpus' = corpus
         /\ \A d \in Executors : d # e => exec'[d] = exec[d] /\ prog'[d] = prog[d]
<1> PICK r \in Runs : exec[e].pc # "idle" => r = exec[e].run
  BY DEF TypeOK, ExecutorStep, ReadRun, ReadRow, ReadPin, WritePin, LoadState, PutInput, Work, TakeAnswer, Ask,
         Publish, Conclude, StreamOver, Fail, Die, Crash, At
<1>0. /\ exec \in [Executors -> ExecStates] /\ prog \in [Executors -> Locals] /\ prog[e] \in Locals
      /\ row \in [Runs -> Rows] /\ corpus \in Revisions /\ pins \in [Runs \X Epochs -> Revisions \cup {NoPin}]
      /\ InOrder(e) /\ IdleProg \in Locals /\ row[r].epoch \in Epochs /\ row[r].resume \in Answers \cup {NoAnswer}
  BY LocalsInOrder DEF TypeOK, Rows, Locals, Stages, IdleProg
<1>1. ASSUME NEW new \in Locals, prog' = [prog EXCEPT ![e] = new]
      PROVE  /\ prog' \in [Executors -> Locals] /\ prog'[e] = new
             /\ \A d \in Executors : d # e => prog'[d] = prog[d]
  BY <1>0, <1>1
<1>2. /\ Len(graph[r]) \in Nat /\ Len(graph'[r]) \in Nat /\ Len(graph[r]) <= Len(graph'[r])
      /\ row'[r].epoch \in Nat /\ row[r].epoch <= row'[r].epoch /\ row[r].epoch \in Nat
  BY DEF Growing
<1>3. CASE ReadRun(e)
  <2> DEFINE new == [IdleProg EXCEPT !.resume = row[exec[e].run].resume, !.from = shown[exec[e].run]]
  <2>1. /\ exec[e].pc = "claimed" /\ r = exec[e].run /\ shown[r] \in 0 .. Len(graph[r])
        /\ exec'[e].run = r /\ exec'[e].epoch = row[r].epoch /\ UNCHANGED <<row, graph, corpus>>
        /\ \A d \in Executors : d # e => exec'[d] = exec[d]
    BY <1>0, <1>3 DEF ReadRun, ReadRow, ThreadInv, RowNamesCheckpoint, world, ExecStates
  <2>2. new \in Locals /\ new.stage = "row" /\ new.from = shown[r]
    <3>1. shown[exec[e].run] \in Nat /\ row[exec[e].run].resume \in Answers \cup {NoAnswer}
      BY <1>0, <1>2, <2>1
    <3>2. new \in Locals
      BY <1>0, <3>1 DEF Locals
    <3>3. new.stage = IdleProg.stage /\ new.from = shown[r]
      BY <1>0, <2>1 DEF Locals
    <3> QED
      BY <3>2, <3>3 DEF IdleProg
  <2>3. prog' = [prog EXCEPT ![e] = new]
    BY <1>3 DEF ReadRun
  <2> HIDE DEF new
  <2> QED
    BY <1>1, <1>2, <2>1, <2>2, <2>3 DEF InOrder
<1>4. ASSUME exec[e].pc = "running", exec' = exec, corpus' = corpus,
             NEW new \in Locals, prog' = [prog EXCEPT ![e] = new],
             new.from \in 0 .. Len(graph'[r]),
             new.stage \in {"put", "asked", "over"} => new.from # 0,
             new.stage # "row" => new.view \in Revisions
      PROVE  /\ prog' \in [Executors -> Locals] /\ InOrder(e)' /\ corpus' = corpus
             /\ \A d \in Executors : d # e => exec'[d] = exec[d] /\ prog'[d] = prog[d]
  <2>1. r = exec[e].run /\ exec[e].epoch <= row[r].epoch /\ exec[e].epoch \in Nat
    BY <1>0, <1>4, BoundAssumption DEF InOrder, ExecStates, Epochs, AnyEpoch
  <2>2. exec[e].epoch <= row'[r].epoch
    BY <1>2, <2>1
  <2> QED
    BY <1>1, <1>4, <2>1, <2>2 DEF InOrder
<1>5. CASE ReadPin(e)
  <2> DEFINE pin == pins[<<exec[e].run, exec[e].epoch>>]
             new == [prog[e] EXCEPT !.view = IF pin = NoPin THEN corpus ELSE pin,
                                    !.stage = IF pin = NoPin THEN "snapshot" ELSE "viewed"]
  <2>1. exec[e].pc = "running" /\ r = exec[e].run /\ UNCHANGED <<exec, graph, corpus>>
    BY <1>5 DEF ReadPin, At, vars, world
  <2>2. exec[e].epoch \in Epochs
    BY <1>0, <2>1, BoundAssumption DEF InOrder, ExecStates, Epochs, AnyEpoch
  <2>3. pin \in Revisions \cup {NoPin}
    BY <1>0, <2>1, <2>2
  <2>4. prog' = [prog EXCEPT ![e] = new]
    BY <1>5 DEF ReadPin
  <2> HIDE DEF pin
  <2>5. new \in Locals /\ new.view \in Revisions /\ new.from = prog[e].from /\ new.stage \in {"snapshot", "viewed"}
    BY <1>0, <2>3 DEF Locals, Stages
  <2> HIDE DEF new
  <2> QED
    BY <1>0, <1>4, <2>1, <2>4, <2>5 DEF InOrder
<1>6. CASE WritePin(e)
  <2> DEFINE new == [prog[e] EXCEPT !.stage = "viewed"]
  <2>1. /\ exec[e].pc = "running" /\ prog[e].stage = "snapshot" /\ r = exec[e].run
        /\ UNCHANGED <<exec, graph, corpus>> /\ prog' = [prog EXCEPT ![e] = new]
    BY <1>6 DEF WritePin, InsertPin, At, world
  <2>2. new \in Locals /\ new.view = prog[e].view /\ new.from = prog[e].from /\ new.stage = "viewed"
    BY <1>0 DEF Locals, Stages
  <2> HIDE DEF new
  <2> QED
    BY <1>0, <1>4, <2>1, <2>2 DEF InOrder
<1>7. CASE LoadState(e)
  <2> DEFINE from == IF prog[e].from # 0 THEN prog[e].from ELSE Len(Thread(e))
             resume == IF from # 0 /\ Thread(e)[from].asked THEN prog[e].resume ELSE NoAnswer
             new == [prog[e] EXCEPT !.stage = "stream", !.from = from, !.resume = resume]
  <2>1. /\ exec[e].pc = "running" /\ prog[e].stage = "viewed" /\ r = exec[e].run
        /\ UNCHANGED <<exec, graph, corpus>> /\ prog' = [prog EXCEPT ![e] = new]
    BY <1>7 DEF LoadState, At, vars, world
  <2>2. from \in 0 .. Len(graph[r]) /\ from \in Nat
    BY <1>0, <1>2, <2>1 DEF InOrder, Thread
  <2>3. resume \in Answers \cup {NoAnswer}
    BY <1>0 DEF Locals
  <2> HIDE DEF from, resume
  <2>4. new \in Locals /\ new.view = prog[e].view /\ new.from = from /\ new.stage = "stream"
    BY <1>0, <2>2, <2>3 DEF Locals, Stages
  <2> HIDE DEF new
  <2> QED
    BY <1>0, <1>4, <2>1, <2>2, <2>4 DEF InOrder
<1>8. CASE PutInput(e) \/ Work(e) \/ TakeAnswer(e)
  <2> PICK values \in Values : Put(e, values)
    BY <1>8, NodeSteps
  <2> DEFINE from == Len(graph[r]) + 1
  <2>1. /\ exec[e].pc = "running" /\ prog[e].stage = "stream" /\ r = exec[e].run
        /\ UNCHANGED <<exec, corpus>>
    BY <1>8, PutSteps DEF PutInput, Work, TakeAnswer, At, ThreadInv
  <2>2. from \in 1 .. Len(graph'[r]) /\ from \in Nat
    <3>1. \E c \in Checkpoints : graph'[r] = Append(graph[r], c)
      BY <2>1, PutSteps DEF ThreadInv
    <3>2. graph[r] \in Seq(Checkpoints)
      BY DEF ThreadInv, ThreadsTyped
    <3> QED
      BY <1>2, <3>1, <3>2, OneMore
  <2>3. PICK resume \in Answers \cup {NoAnswer} :
          prog' = [prog EXCEPT ![e] = [prog[e] EXCEPT !.stage = "put", !.resume = resume, !.from = from]]
    <3>1. CASE PutInput(e) \/ Work(e)
      <4>1. prog' = [prog EXCEPT ![e] = [prog[e] EXCEPT !.stage = "put", !.from = from]]
        BY <2>1, <3>1 DEF PutInput, Work, Thread
      <4>2. [prog[e] EXCEPT !.stage = "put", !.from = from]
              = [prog[e] EXCEPT !.stage = "put", !.resume = prog[e].resume, !.from = from]
        BY <1>0 DEF Locals
      <4> QED
        BY <1>0, <4>1, <4>2 DEF Locals
    <3>2. CASE TakeAnswer(e)
      BY <2>1, <3>2 DEF TakeAnswer, Thread
    <3> QED
      BY <1>8, <3>1, <3>2
  <2> DEFINE new == [prog[e] EXCEPT !.stage = "put", !.resume = resume, !.from = from]
  <2> HIDE DEF from
  <2>4. new \in Locals /\ new.view = prog[e].view /\ new.from = from /\ new.stage = "put"
    BY <1>0, <2>2, <2>3 DEF Locals, Stages
  <2>5. prog' = [prog EXCEPT ![e] = new]
    BY <2>3
  <2> HIDE DEF new
  <2>6. new.from \in 0 .. Len(graph'[r]) /\ new.from # 0 /\ new.view \in Revisions
    BY <1>0, <1>2, <2>1, <2>2, <2>4 DEF InOrder
  <2> QED
    BY <1>4, <2>1, <2>4, <2>5, <2>6
<1>9. CASE Ask(e) \/ Publish(e)
  <2>1. /\ exec[e].pc = "running" /\ r = exec[e].run /\ UNCHANGED <<exec, corpus>>
        /\ prog[e].from # 0 /\ prog[e].stage # "row"
    BY <1>0, <1>9 DEF Ask, Publish, SetCheckpoint, At, vars, InOrder
  <2>2. PICK stage \in {"asked", "stream", "over"} : prog' = [prog EXCEPT ![e] = [prog[e] EXCEPT !.stage = stage]]
    BY <1>9 DEF Ask, Publish
  <2> DEFINE new == [prog[e] EXCEPT !.stage = stage]
  <2>3. new \in Locals /\ new.view = prog[e].view /\ new.from = prog[e].from /\ new.stage = stage
    BY <1>0 DEF Locals, Stages
  <2>4. prog' = [prog EXCEPT ![e] = new]
    BY <2>2
  <2> HIDE DEF new
  <2>5. new.from \in 0 .. Len(graph'[r])
    BY <1>0, <1>2, <2>1, <2>3 DEF InOrder
  <2> QED
    BY <1>0, <1>4, <2>1, <2>3, <2>4, <2>5 DEF InOrder
<1>10. CASE Conclude(e) \/ Fail(e) \/ Die(e)
  <2>1. prog' \in [Executors -> Locals] /\ \A d \in Executors : d # e => prog'[d] = prog[d]
    BY <1>0, <1>10, EndSteps
  <2> QED
    BY <1>10, <2>1, EndSteps DEF InOrder, world
<1> QED
  BY <1>3, <1>5, <1>6, <1>7, <1>8, <1>9, <1>10 DEF ExecutorStep

\* Every program stays in order.
LEMMA LocalsNext ==
  ASSUME TypeOK, ThreadInv, ThreadInv', LocalInv, [ExecutionNext]_allvars
  PROVE  LocalInv'
<1>0. Growing /\ corpus \in Revisions /\ prog \in [Executors -> Locals] /\ \A e \in Executors : InOrder(e)
  BY GrowingNext, LocalsInOrder
<1>1. ASSUME prog' = prog, \A e \in Executors : Runner(e), corpus' \in Revisions PROVE LocalInv'
  <2>1. \A e \in Executors : InOrder(e)'
    BY <1>0, <1>1, OthersInOrder
  <2> QED
    BY <1>0, <1>1, <2>1 DEF LocalInv, LocalsTyped, ProgramsInOrder, Locals, Stages, InOrder, Thread
<1>2. ASSUME NEW e \in Executors, ExecutorStep(e) PROVE LocalInv'
  <2>1. \A d \in Executors : InOrder(d)'
    BY <1>0, <1>2, OwnInOrder, OthersInOrder DEF Runner
  <2> QED
    <3>1. prog' \in [Executors -> Locals] /\ corpus' \in Revisions
      BY <1>0, <1>2, OwnInOrder
    <3> QED
      BY <2>1, <3>1 DEF LocalInv, LocalsTyped, ProgramsInOrder, Locals, Stages, InOrder, Thread
<1>3. CASE StoreStep
  BY <1>0, <1>1, <1>3, StoreSteps DEF ThreadInv, world
<1>4. CASE Ingest \/ UNCHANGED allvars
  BY <1>0, <1>1, <1>4 DEF Ingest, allvars, vars, world, Runner
<1>5. ASSUME NEW r \in Runs, NEW answer \in Answers, Answer(r, answer) PROVE LocalInv'
  BY <1>0, <1>1, <1>5 DEF Answer, Resume, Runner
<1>6. ASSUME NEW r \in Runs, NEW i \in DOMAIN graph[r], RewindTo(r, i) PROVE LocalInv'
  BY <1>0, <1>1, <1>6 DEF RewindTo, Rewind, Runner
<1> QED
  BY <1>2, <1>3, <1>4, <1>5, <1>6 DEF ExecutionNext

-----------------------------------------------------------------------------
(* One revision.                                                            *)

\* Where the two halves of ViewsPinned may be disturbed.
Viewing(e) == exec[e].pc = "running" /\ prog[e].stage \notin {"row", "snapshot"}
PinOf(e)   == pins[<<exec[e].run, exec[e].epoch>>]

ExecutorsPinned == \A e \in Executors : Viewing(e) => prog[e].view = PinOf(e)
ThreadPinned(r) == \A i \in 1 .. Len(graph[r]) : graph[r][i].values.view = pins[<<r, row[r].epoch>>]

LEMMA PinnedParts == ViewsPinned <=> ExecutorsPinned /\ \A r \in Runs : ThreadPinned(r)
  BY DEF ViewsPinned, ExecutorsPinned, ThreadPinned, Viewing, PinOf

\* A checkpoint's revision is one.
LEMMA ThreadViews ==
  ASSUME ThreadInv, NEW r \in Runs, NEW i \in 1 .. Len(graph[r])
  PROVE  graph[r][i].values.view \in Revisions
<1>1. graph[r][i] \in Checkpoints
  BY ElementOfSeq DEF ThreadInv, ThreadsTyped
<1> QED
  BY <1>1 DEF Checkpoints, Values

\* Steps that neither pin anything nor write a thread.
LEMMA PinsAlone ==
  ASSUME ViewsPinned, pins' = pins,
         \A r \in Runs : /\ row'[r].epoch = row[r].epoch /\ Len(graph'[r]) = Len(graph[r])
                         /\ \A i \in 1 .. Len(graph[r]) : graph'[r][i].values.view = graph[r][i].values.view,
         \A e \in Executors : \/ exec'[e].pc # "running" \/ prog'[e].stage = "row"
                              \/ Viewing(e) /\ exec'[e] = exec[e] /\ prog'[e].view = prog[e].view
                              \/ Runner(e) /\ prog'[e] = prog[e]
                              \/ prog'[e].stage = "snapshot"
                              \/ exec'[e] = exec[e] /\ prog'[e].view = PinOf(e)
  PROVE  ViewsPinned'
<1>1. \A r \in Runs : ThreadPinned(r)'
  BY PinnedParts DEF ThreadPinned
<1>2. \A e \in Executors : Viewing(e)' => prog'[e].view = PinOf(e)'
  BY PinnedParts DEF ExecutorsPinned, Viewing, PinOf, Runner
<1> QED
  BY <1>1, <1>2 DEF ViewsPinned, ThreadPinned, Viewing, PinOf

\* The pin of an epoch is written once, before anybody reads it.
LEMMA PinWritten ==
  ASSUME TypeOK, ThreadInv, LocalInv, ViewsPinned, NEW e \in Executors, WritePin(e)
  PROVE  ViewsPinned'
<1> DEFINE k == <<exec[e].run, exec[e].epoch>>
<1>0. /\ exec[e].pc = "running" /\ pins[k] = NoPin /\ pins' = [pins EXCEPT ![k] = prog[e].view]
      /\ prog' = [prog EXCEPT ![e].stage = "viewed"]
      /\ UNCHANGED <<row, exec, graph>>
  BY DEF WritePin, InsertPin, world
<1>1. k \in Runs \X Epochs /\ DOMAIN pins = Runs \X Epochs
  <2>1. exec[e].run \in Runs /\ exec[e].epoch \in Epochs \cup {AnyEpoch} /\ exec[e].epoch <= row[exec[e].run].epoch
        /\ row[exec[e].run].epoch \in Epochs
    BY <1>0 DEF TypeOK, ExecStates, Rows, LocalInv, ProgramsInOrder
  <2>2. exec[e].epoch \in Epochs
    BY <2>1, BoundAssumption DEF Epochs, AnyEpoch
  <2> QED
    BY <2>1, <2>2 DEF TypeOK
<1>2. \A s : s # k => pins'[s] = pins[s]
  BY <1>0, <1>1
<1>3. pins'[k] = prog[e].view
  BY <1>0, <1>1
<1>4. \A r \in Runs : ThreadPinned(r)'
  <2> SUFFICES ASSUME NEW r \in Runs, NEW i \in 1 .. Len(graph[r])
               PROVE  graph[r][i].values.view = pins'[<<r, row[r].epoch>>]
    BY <1>0 DEF ThreadPinned
  <2>1. graph[r][i].values.view = pins[<<r, row[r].epoch>>]
    BY DEF ViewsPinned
  <2>2. <<r, row[r].epoch>> # k
    BY <1>0, <2>1, ThreadViews, NullsAssumption
  <2> QED
    BY <1>2, <2>1, <2>2
<1>5. ASSUME NEW d \in Executors, Viewing(d)' PROVE prog'[d].view = PinOf(d)'
  <2>1. CASE d = e
    BY <1>0, <1>3, <2>1 DEF PinOf, LocalInv, LocalsTyped
  <2>2. CASE d # e
    <3>1. prog'[d] = prog[d] /\ Viewing(d)
      BY <1>0, <1>5, <2>2 DEF Viewing, LocalInv, LocalsTyped
    <3>2. prog[d].view = PinOf(d) /\ prog[d].view \in Revisions
      BY <3>1 DEF ViewsPinned, Viewing, PinOf, LocalInv, ProgramsInOrder
    <3>3. <<exec[d].run, exec[d].epoch>> # k
      BY <1>0, <3>2, NullsAssumption DEF PinOf
    <3> QED
      BY <1>0, <1>2, <3>1, <3>2, <3>3 DEF PinOf
  <2> QED
    BY <2>1, <2>2
<1> QED
  BY <1>4, <1>5 DEF ViewsPinned, ThreadPinned, Viewing, PinOf

\* A rewind takes the pin along, and nobody works on the new epoch yet.
LEMMA PinTakenAlong ==
  ASSUME TypeOK, ThreadInv, LocalInv, ViewsPinned, NEW r \in Runs, NEW i \in 1 .. Len(graph[r]), RewindTo(r, i)
  PROVE  ViewsPinned'
<1> DEFINE old == row[r].epoch
<1>0. /\ old \in Epochs /\ old + 1 \in Epochs /\ old \in Nat
      /\ pins' = [pins EXCEPT ![<<r, old + 1>>] = IF pins[<<r, old>>] = NoPin THEN @ ELSE pins[<<r, old>>]]
      /\ row'[r].epoch = old + 1 /\ \A s \in Runs : s # r => row'[s] = row[s]
      /\ UNCHANGED <<exec, prog, graph>>
  <2>0. row \in [Runs -> Rows] /\ row[r] \in Rows
    BY DEF TypeOK
  <2>1. old \in Epochs /\ old + 1 \in Epochs /\ old \in Nat
    BY <2>0, BoundAssumption DEF Rows, Epochs, RewindTo, Rewind
  <2>2. row'[r].epoch = old + 1 /\ \A s \in Runs : s # r => row'[s] = row[s]
    BY <2>0 DEF Rows, RewindTo, Rewind
  <2> QED
    BY <2>1, <2>2 DEF RewindTo, Rewind
<1>1. DOMAIN pins = Runs \X Epochs
  BY DEF TypeOK
<1>2. pins[<<r, old>>] # NoPin
  <2>1. graph[r][i].values.view = pins[<<r, old>>]
    BY DEF ViewsPinned
  <2> QED
    BY <2>1, ThreadViews, NullsAssumption
<1>3. pins'[<<r, old + 1>>] = pins[<<r, old>>] /\ \A s : s # <<r, old + 1>> => pins'[s] = pins[s]
  BY <1>0, <1>1, <1>2
<1> HIDE DEF old
<1>4. \A s \in Runs : ThreadPinned(s)'
  <2> SUFFICES ASSUME NEW s \in Runs, NEW j \in 1 .. Len(graph[s])
               PROVE  graph[s][j].values.view = pins'[<<s, row'[s].epoch>>]
    BY <1>0 DEF ThreadPinned
  <2>1. graph[s][j].values.view = pins[<<s, row[s].epoch>>]
    BY DEF ViewsPinned
  <2> QED
    BY <1>0, <1>3, <2>1 DEF old
<1>5. ASSUME NEW d \in Executors, Viewing(d)' PROVE prog'[d].view = PinOf(d)'
  <2>1. Viewing(d) /\ prog[d].view = PinOf(d) /\ exec[d].epoch <= row[exec[d].run].epoch
    BY <1>0, <1>5 DEF ViewsPinned, Viewing, PinOf, LocalInv, ProgramsInOrder
  <2>2. <<exec[d].run, exec[d].epoch>> # <<r, old + 1>>
    BY <1>0, <2>1 DEF old
  <2> QED
    BY <1>0, <1>3, <2>1, <2>2 DEF PinOf
<1> QED
  BY <1>4, <1>5 DEF ViewsPinned, ThreadPinned, Viewing, PinOf

\* Whoever writes a thread reads the pin of the run's epoch.
LEMMA ThreadGrowsPinned ==
  ASSUME TypeOK, ThreadInv, LocalInv, ViewsPinned, NEW e \in Executors, PutInput(e) \/ Work(e) \/ TakeAnswer(e)
  PROVE  ViewsPinned'
<1> PICK values \in Values :
      /\ Put(e, values)
      /\ \/ values.view = prog[e].view
         \/ \E i \in 1 .. Len(graph[exec[e].run]) : values.view = graph[exec[e].run][i].values.view
  BY NodeSteps
<1> PICK r \in Runs : r = exec[e].run
  BY PutSteps DEF ThreadInv
<1>0. /\ Viewing(e) /\ row[r].epoch = exec[e].epoch /\ UNCHANGED <<row, exec, pins>>
      /\ \A s \in Runs : s # r => graph'[s] = graph[s]
      /\ graph'[r] = Append(graph[r], Checkpoint(values, e)) /\ Checkpoint(values, e) \in Checkpoints
      /\ graph[r] \in Seq(Checkpoints)
  BY PutSteps DEF ThreadInv, ThreadsTyped, PutInput, Work, TakeAnswer, At, Viewing
<1>1. values.view = pins[<<r, row[r].epoch>>]
  BY <1>0 DEF ViewsPinned, Viewing
<1>2. \A s \in Runs : ThreadPinned(s)'
  <2> SUFFICES ASSUME NEW s \in Runs, NEW i \in 1 .. Len(graph'[s])
               PROVE  graph'[s][i].values.view = pins[<<s, row[s].epoch>>]
    BY <1>0 DEF ThreadPinned
  <2>1. CASE s # r \/ (s = r /\ i \in 1 .. Len(graph[r]))
    <3>1. i \in 1 .. Len(graph[s]) /\ graph'[s][i] = graph[s][i]
      BY <1>0, <2>1, OneMore
    <3> QED
      BY <3>1 DEF ViewsPinned
  <2>2. CASE s = r /\ i = Len(graph[r]) + 1
    <3>1. graph'[s][i] = Checkpoint(values, e)
      BY <1>0, <2>2, OneMore
    <3> QED
      BY <1>1, <2>2, <3>1 DEF Checkpoint
  <2>3. s = r => i \in 1 .. Len(graph[r]) \/ i = Len(graph[r]) + 1
    <3>1. Len(graph'[r]) = Len(graph[r]) + 1 /\ Len(graph[r]) \in Nat
      BY <1>0, OneMore, LenProperties
    <3> QED
      BY <3>1
  <2> QED
    BY <2>1, <2>2, <2>3
<1>3. ASSUME NEW d \in Executors, Viewing(d)' PROVE prog'[d].view = PinOf(d)'
  <2>1. prog'[d].view = prog[d].view /\ Viewing(d)
    BY <1>0, <1>3 DEF PutInput, Work, TakeAnswer, Viewing, LocalInv, LocalsTyped
  <2> QED
    BY <1>0, <2>1 DEF ViewsPinned, Viewing, PinOf
<1> QED
  BY <1>2, <1>3 DEF ViewsPinned, ThreadPinned, Viewing, PinOf

LEMMA ViewsNext ==
  ASSUME TypeOK, ThreadInv, LocalInv, ViewsPinned, [ExecutionNext]_allvars
  PROVE  ViewsPinned'
<1>0. row \in [Runs -> Rows] /\ exec \in [Executors -> ExecStates] /\ DOMAIN prog = Executors
  BY DEF TypeOK, LocalInv, LocalsTyped
<1>1. CASE StoreStep
  BY <1>1, StoreSteps, PinsAlone DEF ThreadInv, Plain, world
<1>2. CASE Ingest \/ UNCHANGED allvars
  BY <1>2, PinsAlone DEF Ingest, allvars, vars, world, Runner
<1>3. ASSUME NEW e \in Executors, ReadRun(e) PROVE ViewsPinned'
  <2>1. prog'[e].stage = "row" /\ \A d \in Executors : d # e => exec'[d] = exec[d] /\ prog'[d] = prog[d]
    BY <1>0, <1>3 DEF ReadRun, ReadRow, IdleProg
  <2> QED
    BY <1>3, <2>1, PinsAlone DEF ReadRun, ReadRow, ledger, world, Runner
<1>4. ASSUME NEW e \in Executors, ReadPin(e) PROVE ViewsPinned'
  <2>1. /\ prog'[e].stage = "snapshot" \/ prog'[e].view = PinOf(e)
        /\ \A d \in Executors : d # e => prog'[d] = prog[d]
        /\ UNCHANGED <<vars, graph>>
    BY <1>0, <1>4 DEF ReadPin, PinOf, world, LocalInv, LocalsTyped
  <2> QED
    BY <2>1, PinsAlone DEF vars, Runner
<1>5. ASSUME NEW e \in Executors, WritePin(e) PROVE ViewsPinned'
  BY <1>5, PinWritten
<1>6. ASSUME NEW e \in Executors, LoadState(e) \/ Ask(e) \/ Publish(e) PROVE ViewsPinned'
  <2>1. /\ Viewing(e) /\ UNCHANGED <<exec, pins>> /\ prog'[e].view = prog[e].view
        /\ \A d \in Executors : d # e => prog'[d] = prog[d]
    BY <1>0, <1>6 DEF LoadState, Ask, Publish, SetCheckpoint, At, Viewing, vars, ledger, LocalInv, LocalsTyped
  <2>2. \A r \in Runs : /\ row'[r].epoch = row[r].epoch /\ Len(graph'[r]) = Len(graph[r])
                        /\ \A i \in 1 .. Len(graph[r]) : graph'[r][i].values.view = graph[r][i].values.view
    <3>1. CASE LoadState(e)
      BY <3>1 DEF LoadState, vars, world
    <3>2. CASE Ask(e)
      BY <3>2, AskSteps DEF vars
    <3>3. CASE Publish(e)
      BY <1>0, <3>3 DEF Publish, SetCheckpoint, Rows
    <3> QED
      BY <1>6, <3>1, <3>2, <3>3
  <2> QED
    BY <2>1, <2>2, PinsAlone DEF Runner
<1>7. ASSUME NEW e \in Executors, PutInput(e) \/ Work(e) \/ TakeAnswer(e) PROVE ViewsPinned'
  BY <1>7, ThreadGrowsPinned
<1>8. ASSUME NEW e \in Executors, Conclude(e) \/ Fail(e) \/ Die(e) PROVE ViewsPinned'
  <2>1. \A d \in Executors : d # e => prog'[d] = prog[d]
    BY <1>0, <1>8, EndSteps
  <2> QED
    BY <1>8, <2>1, EndSteps, PinsAlone DEF Plain, world, Runner
<1>9. ASSUME NEW r \in Runs, NEW answer \in Answers, Answer(r, answer) PROVE ViewsPinned'
  <2>1. \A s \in Runs : row'[s].epoch = row[s].epoch
    BY <1>0, <1>9 DEF Answer, Resume, Rows
  <2> QED
    BY <1>9, <2>1, PinsAlone DEF Answer, Resume, ledger, Runner
<1>10. ASSUME NEW r \in Runs, NEW i \in DOMAIN graph[r], RewindTo(r, i) PROVE ViewsPinned'
  <2>1. i \in 1 .. Len(graph[r])
    BY LenProperties DEF ThreadInv, ThreadsTyped
  <2> QED
    BY <1>10, <2>1, PinTakenAlong
<1> QED
  BY <1>1, <1>2, <1>3, <1>4, <1>5, <1>6, <1>7, <1>8, <1>9, <1>10 DEF ExecutionNext, ExecutorStep

-----------------------------------------------------------------------------
(* Success.                                                                 *)

\* Whoever writes to the thread of a run holds the run, which is then not settled.
LEMMA ThreadsOfOthers ==
  ASSUME TypeOK, ThreadInv, LocalInv, [ExecutionNext]_allvars, NEW r \in Runs, row[r].status # "running"
  PROVE  Len(graph'[r]) = Len(graph[r]) /\ \A i \in 1 .. Len(graph[r]) : graph'[r][i].values = graph[r][i].values
<1>1. ASSUME NEW e \in Executors, PutInput(e) \/ Work(e) \/ TakeAnswer(e) PROVE graph'[r] = graph[r]
  <2> PICK values \in Values : Put(e, values)
    BY <1>1, NodeSteps
  <2> QED
    BY PutSteps DEF ThreadInv
<1>2. ASSUME NEW e \in Executors, Ask(e)
      PROVE  Len(graph'[r]) = Len(graph[r])
             /\ \A i \in 1 .. Len(graph[r]) : graph'[r][i].values = graph[r][i].values
  BY <1>2, AskSteps
<1>3. ASSUME NEW e \in Executors, Conclude(e) \/ Fail(e) \/ Die(e) PROVE graph' = graph
  BY <1>3, EndSteps DEF world
<1>4. CASE StoreStep
  BY <1>4, StoreSteps DEF ThreadInv, world
<1>5. CASE ~\E e \in Executors : PutInput(e) \/ Work(e) \/ TakeAnswer(e) \/ Ask(e)
  <2>1. ASSUME NEW e \in Executors, ExecutorStep(e) PROVE graph' = graph
    BY <1>3, <1>5, <2>1 DEF ExecutorStep, ReadRun, ReadPin, WritePin, LoadState, Publish, world
  <2>2. ASSUME Ingest \/ UNCHANGED allvars PROVE graph' = graph
    BY <2>2 DEF Ingest, allvars, world
  <2>3. ASSUME NEW s \in Runs, NEW answer \in Answers, Answer(s, answer) PROVE graph' = graph
    BY <2>3 DEF Answer
  <2>4. ASSUME NEW s \in Runs, NEW i \in DOMAIN graph[s], RewindTo(s, i) PROVE graph' = graph
    BY <2>4 DEF RewindTo
  <2>5. ASSUME StoreStep PROVE graph' = graph
    BY <2>5, StoreSteps DEF ThreadInv, world
  <2>6. graph' = graph
    BY <2>1, <2>2, <2>3, <2>4, <2>5 DEF ExecutionNext
  <2> QED
    BY <2>6
<1> QED
  BY <1>1, <1>2, <1>5

\* A run succeeds, or waits for its user, by the verdict of its owner only.
LEMMA WhoConcludes ==
  ASSUME TypeOK, ThreadInv, LocalInv, [ExecutionNext]_allvars, NEW r \in Runs,
         NEW verdict \in {"succeeded", "waiting_input"},
         row'[r].status = verdict, row[r].status # verdict
  PROVE  \E e \in Executors : Conclude(e) /\ HoldsLease(e) /\ exec[e].run = r /\ VerdictOf(e) = verdict
<1>0. row \in [Runs -> Rows] /\ row[r] \in Rows
  BY DEF TypeOK
<1>1. ~StoreStep
  <2>1. ASSUME NEW s \in Runs, Create(s, "local") \/ Cancel(s) \/ Retry(s, FALSE) PROVE FALSE
    BY <1>0, <2>1 DEF Create, Cancel, Retry, AbsentRow, Rows
  <2>2. ASSUME NEW e \in Executors, ClaimStep(e) \/ Heartbeat(e) PROVE FALSE
    BY <1>0, <2>2 DEF ClaimStep, ClaimRefused, ClaimExpired, ClaimGranted, Heartbeat, Rows
  <2>3. ~ExpireWaiting
    BY <1>0 DEF ExpireWaiting, Rows
  <2> QED
    BY <2>1, <2>2, <2>3 DEF StoreStep, BeginClaim, Tick
<1>2. ASSUME NEW e \in Executors, PutInput(e) \/ Work(e) \/ TakeAnswer(e) PROVE FALSE
  BY <1>2 DEF PutInput, Work, TakeAnswer, Put, PutCheckpoint
<1>3. ASSUME NEW e \in Executors, Publish(e) \/ Fail(e) \/ Die(e) PROVE FALSE
  <2>1. CASE Publish(e)
    BY <1>0, <2>1 DEF Publish, SetCheckpoint, Rows
  <2>2. CASE Fail(e) \/ Die(e)
    BY <1>0, <2>2 DEF Fail, Die, Crash, Finish, FinishRejected, Rows
  <2> QED
    BY <1>3, <2>1, <2>2
<1>4. ASSUME NEW s \in Runs, NEW answer \in Answers, Answer(s, answer) PROVE FALSE
  BY <1>0, <1>4 DEF Answer, Resume, Rows
<1>5. ASSUME NEW s \in Runs, NEW i \in DOMAIN graph[s], RewindTo(s, i) PROVE FALSE
  BY <1>0, <1>5 DEF RewindTo, Rewind, Rows
<1>6. PICK e \in Executors : Conclude(e)
  BY <1>1, <1>2, <1>3, <1>4, <1>5
  DEF ExecutionNext, ExecutorStep, Ingest, ReadRun, ReadRow, ReadPin, WritePin, InsertPin, LoadState, Ask,
      allvars, vars
<1>7. Finish(e, VerdictOf(e)) /\ exec[e].run = r /\ VerdictOf(e) = verdict
  <2>1. Finish(e, VerdictOf(e))
    BY <1>6 DEF Conclude, FinishRejected
  <2>2. row' = [row EXCEPT ![exec[e].run].status = VerdictOf(e), ![exec[e].run].token = NoToken,
                           ![exec[e].run].until = NullTime]
    BY <2>1 DEF Finish
  <2> HIDE DEF VerdictOf
  <2> QED
    BY <1>0, <2>1, <2>2 DEF Rows
<1> QED
  BY <1>6, <1>7 DEF Finish

LEMMA SuccessNext ==
  ASSUME TypeOK, ThreadInv, LocalInv, SuccessIsComplete, [ExecutionNext]_allvars
  PROVE  SuccessIsComplete'
<1> DEFINE Complete(t) == /\ t # <<>> /\ Done(Last(t).values)
                          /\ \A q \in Questions : Last(t).values.answers[q] # NoAnswer
<1> SUFFICES ASSUME NEW r \in Runs, row'[r].status = "succeeded" PROVE Complete(graph'[r])
  BY DEF SuccessIsComplete
<1>0. /\ graph[r] \in Seq(Checkpoints) /\ Len(graph[r]) \in Nat /\ Len(Script) \in Nat
      /\ graph[r] # <<>> <=> Len(graph[r]) # 0
  BY ScriptAssumption, LenProperties, EmptySeq DEF ThreadInv, ThreadsTyped
<1>1. CASE row[r].status = "succeeded"
  <2>1. Complete(graph[r]) /\ Len(graph[r]) \in 1 .. Len(graph[r])
    BY <1>0, <1>1 DEF SuccessIsComplete
  <2>2. /\ Len(graph'[r]) = Len(graph[r])
        /\ graph'[r][Len(graph[r])].values = graph[r][Len(graph[r])].values
    BY <1>1, <2>1, ThreadsOfOthers
  <2>3. graph'[r] # <<>>
    BY <1>0, <2>1, <2>2
  <2> QED
    BY <2>1, <2>2, <2>3 DEF Last
<1>2. CASE row[r].status # "succeeded"
  <2> PICK e \in Executors : Conclude(e) /\ HoldsLease(e) /\ exec[e].run = r /\ VerdictOf(e) = "succeeded"
    BY <1>2, WhoConcludes
  <2>1. graph' = graph /\ exec[e].pc = "running"
    BY EndSteps DEF world, HoldsLease
  <2>2. prog[e].from # 0 /\ prog[e].from \in 0 .. Len(graph[r])
    BY <2>1 DEF Conclude, StreamOver, At, LocalInv, LocalsTyped, ProgramsInOrder, Thread
  <2>3. graph[r] # <<>> /\ Len(graph[r]) \in 1 .. Len(graph[r])
    BY <1>0, <2>2
  <2>4. Done(Last(graph[r]).values)
    BY DEF VerdictOf, Latest, Thread
  <2>5. ASSUME NEW q \in Questions PROVE Last(graph[r]).values.answers[q] # NoAnswer
    <3>1. q <= Last(graph[r]).values.at
      BY <1>0, <2>4 DEF Done, Questions
    <3> QED
      BY <2>3, <3>1 DEF Last, ThreadInv, QuestionsAnswered
  <2> QED
    BY <2>1, <2>3, <2>4, <2>5
<1> QED
  BY <1>1, <1>2

-----------------------------------------------------------------------------
(* The invariant.                                                           *)

\* Each step of the program is a step of the run database, or it pins.
LEMMA StoreOrPin ==
  ASSUME [ExecutionNext]_allvars
  PROVE  [Next]_vars \/ \E e \in Executors : WritePin(e)
<1>1. CASE StoreStep
  BY <1>1, LocalAssumption DEF StoreStep, Next, UserStep, OwnerStep, Wanted, Notify
<1>2. ASSUME NEW e \in Executors, ExecutorStep(e), ~WritePin(e) PROVE [Next]_vars
  <2>1. CASE ReadRun(e) \/ Die(e)
    BY <2>1 DEF ReadRun, Die, Next
  <2>2. CASE PutInput(e) \/ Work(e) \/ TakeAnswer(e) \/ Publish(e)
    BY <2>2 DEF PutInput, Work, TakeAnswer, Put, Publish, OwnerStep, Next
  <2>3. CASE Conclude(e) \/ Fail(e)
    <3>1. FinishRejected(e) \/ \E verdict \in Verdicts : Finish(e, verdict)
      BY <2>3 DEF Conclude, Fail, VerdictOf, Verdicts
    <3> QED
      BY <3>1 DEF FinishStep, Next
  <2>4. CASE ReadPin(e) \/ LoadState(e) \/ Ask(e)
    BY <2>4 DEF ReadPin, LoadState, Ask
  <2> QED
    BY <1>2, <2>1, <2>2, <2>3, <2>4 DEF ExecutorStep
<1>3. ASSUME NEW r \in Runs, NEW answer \in Answers, Answer(r, answer) PROVE [Next]_vars
  BY <1>3 DEF Answer, UserStep, Notify, Next
<1>4. ASSUME NEW r \in Runs, NEW i \in DOMAIN graph[r], RewindTo(r, i) PROVE [Next]_vars
  <2>1. PICK checkpoint \in saved[r].writers : Rewind(r, checkpoint, FALSE)
    BY <1>4 DEF RewindTo, Rewind
  <2> QED
    BY <2>1 DEF UserStep, Notify, Next
<1> QED
  BY <1>1, <1>2, <1>3, <1>4 DEF ExecutionNext, Ingest, allvars

\* The store's own invariants hold under the program as well.
LEMMA StoreTypeNext ==
  ASSUME TypeOK, LocalInv, [ExecutionNext]_allvars
  PROVE  TypeOK'
<1>1. ASSUME [Next]_vars PROVE TypeOK'
  BY <1>1, TypeNext
<1>2. ASSUME NEW e \in Executors, WritePin(e) PROVE TypeOK'
  <2>1. prog[e].view \in Revisions
    BY <1>2 DEF WritePin, InsertPin, At, LocalInv, ProgramsInOrder
  <2>2. pins' \in [Runs \X Epochs -> Revisions \cup {NoPin}]
    BY <1>2, <2>1 DEF WritePin, InsertPin, TypeOK
  <2> QED
    BY <1>2, <2>2 DEF WritePin, InsertPin, TypeOK
<1> QED
  BY <1>1, <1>2, StoreOrPin

ExecutionInv == TypeOK /\ ThreadInv /\ LocalInv /\ ViewsPinned /\ SuccessIsComplete

LEMMA ExecutionStarts == ExecutionInit => ExecutionInv
<1> SUFFICES ASSUME ExecutionInit PROVE ExecutionInv
  OBVIOUS
<1>1. TypeOK
  BY TypeInit DEF ExecutionInit
<1>2. /\ \A r \in Runs : /\ graph[r] = <<>> /\ shown[r] = 0 /\ row[r] = AbsentRow /\ saved[r] = NoThread
      /\ \A e \in Executors : exec[e].pc = "idle"
  BY DEF ExecutionInit, Init, IdleExec
<1>3. ThreadInv
  <2>1. ThreadsTyped
    BY EmptySeq DEF ExecutionInit, ThreadsTyped
  <2>2. ThreadsStored /\ Unsubmitted
    BY <1>2 DEF ThreadsStored, Unsubmitted, NoThread, AbsentRow
  <2>3. RowNamesCheckpoint /\ QuestionsAnswered
    BY <1>2, EmptySeq DEF RowNamesCheckpoint, QuestionsAnswered, AbsentRow
  <2> QED
    BY <2>1, <2>2, <2>3 DEF ThreadInv
<1>4. LocalInv
  BY <1>2 DEF ExecutionInit, LocalInv, LocalsTyped, ProgramsInOrder, IdleProg
<1>5. ViewsPinned
  BY <1>2, EmptySeq DEF ViewsPinned
<1>6. SuccessIsComplete
  BY <1>2 DEF SuccessIsComplete, AbsentRow
<1> QED
  BY <1>1, <1>3, <1>4, <1>5, <1>6 DEF ExecutionInv

LEMMA ExecutionKept == ExecutionInv /\ [ExecutionNext]_allvars => ExecutionInv'
  BY StoreTypeNext, ThreadsInvNext, LocalsNext, ViewsNext, SuccessNext DEF ExecutionInv

LEMMA ExecutionInvariant == ExecutionSpec => []ExecutionInv
  BY ExecutionStarts, ExecutionKept, PTL DEF ExecutionSpec

\* "The run's checkpoint": for any script and any number of runs and executors, whatever
\* dies in between, the row names a checkpoint of its thread, by the writer it has.
THEOREM ExecutionTyped == ExecutionSpec => []ExecutionTypeOK
<1>1. ExecutionInv => ExecutionTypeOK
  BY DEF ExecutionInv, ThreadInv, LocalInv, LocalsTyped, RowNamesCheckpoint, ExecutionTypeOK
<1> QED
  BY <1>1, ExecutionInvariant, PTL

\* "A run does not move on to a newer revision of the knowledge", for any number of
\* executors that pin, die and are overtaken, and of ingestions and rewinds between them.
THEOREM RevisionsAgree == ExecutionSpec => []OneRevision
<1>1. ExecutionInv => OneRevision
  <2> SUFFICES ASSUME ExecutionInv, NEW r \in Runs, NEW i \in DOMAIN graph[r], NEW j \in DOMAIN graph[r]
               PROVE  graph[r][i].values.view = graph[r][j].values.view
    BY DEF OneRevision
  <2>1. graph[r] \in Seq(Checkpoints)
    BY DEF ExecutionInv, ThreadInv, ThreadsTyped
  <2>2. i \in 1 .. Len(graph[r]) /\ j \in 1 .. Len(graph[r])
    BY <2>1, LenProperties
  <2> QED
    BY <2>2 DEF ExecutionInv, ViewsPinned
<1> QED
  BY <1>1, ExecutionInvariant, PTL

\* "Only a run whose tasks are all complete yields a success", for any script.
THEOREM SuccessesAreComplete == ExecutionSpec => []SuccessIsComplete
<1>1. ExecutionInv => SuccessIsComplete
  BY DEF ExecutionInv
<1> QED
  BY <1>1, ExecutionInvariant, PTL

-----------------------------------------------------------------------------
(* Progress and questions.                                                  *)

\* Whose writes the store would take if its lease were alive.
Held(e) ==
  /\ exec[e].pc = "running"
  /\ row[exec[e].run].status = "running" /\ row[exec[e].run].epoch = exec[e].epoch
  /\ row[exec[e].run].token = exec[e].token

Reached(r) == graph[r][shown[r]].values      \* the progress the row names
End(r)     == graph[r][Len(graph[r])]        \* the latest checkpoint of the thread
Answered(r, q) == \E g \in given[r] : g.epoch = row[r].epoch /\ g.question = q

\* The thread has been taken further than the row knows only where the row's checkpoint
\* does not ask, or then not less far; what the user answered in this epoch lies behind the
\* row's checkpoint, or is the answer the row keeps for it; and a run that waits asks.
RunInOrder(r) ==
  /\ \A i \in 1 .. Len(graph[r]) : graph[r][i].asked => NextIs("ask", graph[r][i].values)
  /\ shown[r] = 0 => given[r] = {}
  /\ shown[r] # 0 /\ NextIs("ask", Reached(r)) => End(r).values.at >= Reached(r).at
  /\ \A g \in given[r] :
       /\ g.epoch \in Nat /\ g.question \in Nat /\ g.epoch <= row[r].epoch
       /\ g.epoch = row[r].epoch =>
            \/ g.question <= Reached(r).at
            \/ /\ g.question = Reached(r).at + 1
               /\ graph[r][shown[r]].asked /\ row[r].resume # NoAnswer
  /\ row[r].status = "waiting_input" =>
       shown[r] # 0 /\ End(r).asked /\ (shown[r] = Len(graph[r]) \/ Done(Reached(r)))

\* A holder continues from the checkpoint the row names, with the answer the row keeps, and
\* what it has not published is one node ahead; it asks nothing that was answered.
HolderInOrder(e) ==
  LET r == exec[e].run IN
  Held(e) =>
    /\ prog[e].stage \in {"row", "snapshot", "viewed"} =>
         prog[e].from = shown[r] /\ prog[e].resume = row[r].resume
    /\ prog[e].stage = "stream" /\ shown[r] = 0 => prog[e].from = Len(graph[r])
    /\ prog[e].stage = "put" => prog[e].from = Len(graph[r])
    /\ prog[e].stage = "over" => shown[r] # 0 /\ shown[r] = Len(graph[r])
    /\ shown[r] # 0 =>
         /\ prog[e].stage \in {"stream", "asked"} => prog[e].from = shown[r]
         /\ prog[e].stage = "put" => End(r).values.at = Reached(r).at + 1
         /\ prog[e].stage = "asked" => NextIs("ask", Reached(r))
         /\ prog[e].stage = "stream" /\ prog[e].resume = NoAnswer => ~Answered(r, Reached(r).at + 1)
         /\ prog[e].stage \in {"asked", "over"} => ~Answered(r, Reached(r).at + 1)

AllInOrder  == (\A r \in Runs : RunInOrder(r)) /\ \A e \in Executors : HolderInOrder(e)
ProgressInv == TokensUnique /\ AllInOrder

\* The checkpoints of which the invariant speaks.
LEMMA Places ==
  ASSUME ThreadInv, NEW r \in Runs
  PROVE  /\ graph[r] \in Seq(Checkpoints) /\ Len(graph[r]) \in Nat /\ shown[r] \in 0 .. Len(graph[r])
         /\ \A i \in 1 .. Len(graph[r]) : /\ graph[r][i] \in Checkpoints /\ graph[r][i].asked \in BOOLEAN
                                          /\ graph[r][i].values \in Values
                                          /\ graph[r][i].values.at \in Nat
                                          /\ graph[r][i].values.at <= Len(Script)
         /\ shown[r] # 0 => /\ shown[r] \in 1 .. Len(graph[r]) /\ Len(graph[r]) \in 1 .. Len(graph[r])
                            /\ Reached(r).at \in Nat /\ Reached(r).at <= Len(Script)
                            /\ End(r).values.at \in Nat /\ End(r).values.at <= Len(Script)
<1>1. graph[r] \in Seq(Checkpoints) /\ shown[r] \in 0 .. Len(graph[r]) /\ Len(Script) \in Nat
  BY ScriptAssumption DEF ThreadInv, ThreadsTyped, RowNamesCheckpoint
<1>2. Len(graph[r]) \in Nat
  BY <1>1
<1>3. ASSUME NEW i \in 1 .. Len(graph[r])
      PROVE  /\ graph[r][i] \in Checkpoints /\ graph[r][i].asked \in BOOLEAN
             /\ graph[r][i].values \in Values
             /\ graph[r][i].values.at \in Nat /\ graph[r][i].values.at <= Len(Script)
  <2>1. graph[r][i] \in Checkpoints
    BY <1>1, ElementOfSeq
  <2>2. graph[r][i].asked \in BOOLEAN /\ graph[r][i].values \in Values
    BY <2>1 DEF Checkpoints
  <2>3. graph[r][i].values.at \in 0 .. Len(Script)
    BY <2>2 DEF Values
  <2> QED
    BY <1>1, <2>1, <2>2, <2>3
<1>4. shown[r] # 0 => shown[r] \in 1 .. Len(graph[r]) /\ Len(graph[r]) \in 1 .. Len(graph[r])
  BY <1>1, <1>2
<1> QED
  BY <1>1, <1>2, <1>3, <1>4 DEF Reached, End

\* A run has one holder.
LEMMA OneHeld ==
  ASSUME TokensUnique, NEW d \in Executors, NEW e \in Executors, Held(d), Held(e), exec[d].run = exec[e].run
  PROVE  d = e
  BY DEF TokensUnique, Held

\* Nobody becomes a holder while it works.
LEMMA HolderStays ==
  ASSUME TypeOK, TokensUnique, [ExecutionNext]_allvars, NEW e \in Executors,
         exec[e].pc = "running", Held(e)'
  PROVE  /\ Held(e) /\ exec'[e].run = exec[e].run /\ exec[e].run \in Runs
         /\ row'[exec[e].run].epoch = row[exec[e].run].epoch
<1> DEFINE r == exec[e].run
<1>0. r \in Runs
  BY DEF TypeOK
<1>1. CASE vars' = vars \/ \E d \in Executors : WritePin(d)
  BY <1>0, <1>1 DEF vars, WritePin, InsertPin, Held
<1>2. CASE Next
  <2>1. exec'[e].pc = "running" /\ exec'[e].run = r
        /\ exec'[e].epoch = exec[e].epoch /\ exec'[e].token = exec[e].token
    BY <1>2, StillRunning DEF Held
  <2>2. /\ row'[r].epoch = exec[e].epoch /\ row'[r].token = exec[e].token /\ row'[r].status = "running"
    BY <2>1 DEF Held
  <2>3. /\ row[r] \in Rows /\ nextToken \in Nat /\ exec[e].token # NoToken /\ exec[e].token < nextToken
        /\ exec[e].token \in Nat
    BY <1>0 DEF TypeOK, TokensUnique, ExecStates
  <2>4. CASE row'[r] = row[r]
    BY <1>0, <2>1, <2>2, <2>4 DEF Held
  <2>5. CASE RowChange(r)
    <3>1. Updated(r)
      BY <2>2, <2>3, <2>5 DEF RowChange, Inserted, Leased, Rewound, NoToken
    <3> QED
      BY <1>0, <2>1, <2>2, <2>3, <3>1 DEF Updated, Held, LiveAt
  <2> QED
    BY <1>0, <1>2, <2>4, <2>5, RowNext
<1> QED
  BY <1>1, <1>2, StoreOrPin

\* A row goes on in its epoch, with the answer it has, and nobody is asked.
Steady(r) ==
  /\ row'[r].epoch = row[r].epoch
  /\ row'[r].status = "waiting_input" => row[r].status = "waiting_input"
  /\ row'[r].resume = row[r].resume \/ (shown[r] = 0 /\ row'[r].status # "running")

\* Nothing happens to what a run has reached while its row is steady.
LEMMA RunAlone ==
  ASSUME NEW r \in Runs, RunInOrder(r), Steady(r),
         graph'[r] = graph[r], shown'[r] = shown[r], given'[r] = given[r]
  PROVE  RunInOrder(r)'
<1>1. Reached(r)' = Reached(r) /\ End(r)' = End(r)
  BY DEF Reached, End
<1>2. shown[r] # 0 => row'[r].resume = row[r].resume
  BY DEF Steady
<1> QED
  BY <1>1, <1>2 DEF RunInOrder, Steady, NextIs, Done

\* Nor to a holder that does not step.
LEMMA HolderAlone ==
  ASSUME TypeOK, TokensUnique, [ExecutionNext]_allvars,
         NEW e \in Executors, HolderInOrder(e), Runner(e), prog'[e] = prog[e],
         \A r \in Runs : Held(e)' /\ r = exec[e].run =>
            /\ graph'[r] = graph[r] /\ shown'[r] = shown[r] /\ given'[r] = given[r]
            /\ row'[r].resume = row[r].resume
  PROVE  HolderInOrder(e)'
<1> SUFFICES ASSUME Held(e)' PROVE HolderInOrder(e)'
  BY DEF HolderInOrder
<1>1. exec[e].pc = "running" /\ exec[e].run \in Runs
  BY DEF Runner, Held, TypeOK
<1> PICK r \in Runs : r = exec[e].run
  BY <1>1
<1>2. Held(e) /\ exec'[e].run = r /\ row'[r].epoch = row[r].epoch
  BY <1>1, HolderStays
<1>3. /\ graph'[r] = graph[r] /\ shown'[r] = shown[r] /\ given'[r] = given[r]
      /\ row'[r].resume = row[r].resume
  BY <1>2
<1>4. Reached(r)' = Reached(r) /\ End(r)' = End(r) /\ \A q : Answered(r, q)' <=> Answered(r, q)
  BY <1>2, <1>3 DEF Reached, End, Answered
<1> QED
  BY <1>2, <1>3, <1>4 DEF HolderInOrder, NextIs, Done

\* What the store does with rows.
LEMMA StoreIsSteady ==
  ASSUME TypeOK, Unsubmitted, StoreStep, NEW r \in Runs
  PROVE  Steady(r)
<1>0. row \in [Runs -> Rows] /\ row[r] \in Rows
  BY DEF TypeOK
<1>1. ASSUME NEW s \in Runs, Create(s, "local") PROVE Steady(r)
  <2>1. CASE s = r
    BY <1>0, <1>1, <2>1 DEF Create, AbsentRow, Steady, Unsubmitted
  <2>2. CASE s # r
    BY <1>0, <1>1, <2>2 DEF Create, Steady
  <2> QED
    BY <2>1, <2>2
<1>2. ASSUME NEW s \in Runs, Cancel(s) \/ Retry(s, FALSE) PROVE Steady(r)
  <2>1. CASE Cancel(s)
    BY <1>0, <2>1 DEF Cancel, Steady, Rows
  <2>2. CASE Retry(s, FALSE)
    BY <1>0, <2>2 DEF Retry, Steady, Rows
  <2> QED
    BY <1>2, <2>1, <2>2
<1>3. ASSUME NEW e \in Executors, ClaimStep(e) \/ Heartbeat(e) PROVE Steady(r)
  BY <1>0, <1>3 DEF ClaimStep, ClaimRefused, ClaimExpired, ClaimGranted, Heartbeat, Steady, Rows
<1>4. CASE ExpireWaiting
  <2>1. row'[r] = row[r] \/ row'[r] = [row[r] EXCEPT !.status = "timed_out"]
    BY <1>4 DEF ExpireWaiting
  <2> QED
    BY <1>0, <2>1 DEF Steady, Rows
<1> QED
  BY <1>1, <1>2, <1>3, <1>4 DEF StoreStep, BeginClaim, Tick, Steady

\* A step of a holder leaves other runs and other holders alone.
LEMMA HolderSteps ==
  ASSUME TypeOK, ProgressInv, [ExecutionNext]_allvars, NEW e \in Executors, NEW r \in Runs,
         r = exec[e].run, Held(e), given' = given,
         \A s \in Runs : s # r => graph'[s] = graph[s] /\ shown'[s] = shown[s] /\ row'[s] = row[s],
         \A d \in Executors : d # e => exec'[d] = exec[d] /\ prog'[d] = prog[d],
         RunInOrder(r)', HolderInOrder(e)'
  PROVE  AllInOrder'
<1>1. ASSUME NEW s \in Runs, s # r PROVE RunInOrder(s)'
  BY <1>1, RunAlone DEF ProgressInv, AllInOrder, Steady
<1>2. ASSUME NEW d \in Executors, d # e PROVE HolderInOrder(d)'
  <2>1. Runner(d) \/ ~Held(d)'
    BY <1>2 DEF Runner, Held
  <2>2. Held(d)' => exec[d].run # r
    <3> SUFFICES ASSUME Held(d)' PROVE exec[d].run # r
      OBVIOUS
    <3>1. Held(d)
      BY <1>2, HolderStays DEF ProgressInv, Held
    <3> QED
      BY <1>2, <3>1, OneHeld DEF ProgressInv
  <2>3. CASE Runner(d)
    BY <1>2, <2>2, <2>3, HolderAlone DEF ProgressInv, AllInOrder
  <2>4. CASE ~Held(d)'
    BY <2>4 DEF HolderInOrder
  <2> QED
    BY <2>1, <2>3, <2>4
<1> QED
  BY <1>1, <1>2 DEF AllInOrder

\* A thread grows by the node after the one its holder continued from.
LEMMA PutInOrder ==
  ASSUME TypeOK, ThreadInv, LocalInv, ProgressInv, [ExecutionNext]_allvars,
         NEW e \in Executors, PutInput(e) \/ Work(e) \/ TakeAnswer(e)
  PROVE  AllInOrder'
<1> PICK values \in Values :
      Put(e, values) /\ (prog[e].from # 0 => values.at = graph[exec[e].run][prog[e].from].values.at + 1)
  BY NodeSteps
<1> PICK r \in Runs : r = exec[e].run
  BY PutSteps DEF ThreadInv
<1>1. /\ Held(e) /\ prog[e].stage = "stream" /\ row[r].status = "running"
      /\ UNCHANGED <<row, exec, shown, given>>
      /\ \A s \in Runs : s # r => graph'[s] = graph[s]
      /\ graph'[r] = Append(graph[r], Checkpoint(values, e)) /\ Checkpoint(values, e) \in Checkpoints
  <2>1. Active(e) /\ prog[e].stage = "stream"
    BY DEF Put, PutCheckpoint, PutInput, Work, TakeAnswer, At
  <2>2. Held(e) /\ row[r].status = "running"
    BY <2>1 DEF Active, HoldsLease, LiveAt, Held
  <2> QED
    BY <2>1, <2>2, PutSteps DEF ThreadInv
<1>2. /\ \A d \in Executors : d # e => prog'[d] = prog[d]
      /\ prog'[e].stage = "put" /\ prog'[e].from = Len(graph[r]) + 1
  BY DEF PutInput, Work, TakeAnswer, Thread, LocalInv, LocalsTyped
<1>3. /\ Len(graph'[r]) = Len(graph[r]) + 1
      /\ \A i \in 1 .. Len(graph[r]) : graph'[r][i] = graph[r][i]
      /\ End(r)'.values = values /\ End(r)'.asked = FALSE
  <2> DEFINE new == Checkpoint(values, e)
             old == graph[r]
  <2>1. new.values = values /\ new.asked = FALSE
    BY DEF Checkpoint
  <2>2. old \in Seq(Checkpoints) /\ new \in Checkpoints /\ graph'[r] = Append(old, new)
    BY <1>1, Places
  <2> HIDE DEF new, old
  <2>3. /\ Len(graph'[r]) = Len(old) + 1 /\ graph'[r][Len(old) + 1] = new
        /\ \A i \in 1 .. Len(old) : graph'[r][i] = old[i]
    BY <2>2, OneMore
  <2>4. End(r)' = new
    BY <2>3 DEF End
  <2> QED
    BY <2>1, <2>3, <2>4 DEF old
<1>4. shown[r] # 0 => Reached(r)' = Reached(r) /\ graph'[r][shown[r]] = graph[r][shown[r]]
  BY <1>1, <1>3, Places DEF Reached
<1>5. shown[r] # 0 => prog[e].from = shown[r] /\ values.at = Reached(r).at + 1
  BY <1>1 DEF ProgressInv, AllInOrder, HolderInOrder, Reached
<1>6. RunInOrder(r)'
  <2>0. RunInOrder(r)
    BY DEF ProgressInv, AllInOrder
  <2>1. ASSUME NEW i \in 1 .. Len(graph'[r]), graph'[r][i].asked
        PROVE  NextIs("ask", graph'[r][i].values)
    <3>1. i # Len(graph'[r])
      BY <1>3, <2>1 DEF End
    <3>2. i \in 1 .. Len(graph[r])
      BY <1>3, <3>1, Places
    <3> QED
      BY <1>3, <2>0, <2>1, <3>2 DEF RunInOrder
  <2>2. shown[r] # 0 => End(r)'.values.at >= Reached(r)'.at
    BY <1>3, <1>4, <1>5, Places
  <2>3. shown[r] = 0 => given[r] = {}
    BY <2>0 DEF RunInOrder
  <2>4. ASSUME NEW g \in given[r]
        PROVE  /\ g.epoch \in Nat /\ g.question \in Nat /\ g.epoch <= row[r].epoch
               /\ g.epoch = row[r].epoch =>
                    \/ g.question <= Reached(r)'.at
                    \/ /\ g.question = Reached(r)'.at + 1
                       /\ graph'[r][shown[r]].asked /\ row[r].resume # NoAnswer
    BY <1>4, <2>0, <2>3, <2>4 DEF RunInOrder
  <2> QED
    BY <1>1, <2>1, <2>2, <2>3, <2>4 DEF RunInOrder, NextIs, Done
<1>7. HolderInOrder(e)'
  BY <1>1, <1>2, <1>3, <1>4, <1>5 DEF HolderInOrder
<1> QED
  BY <1>1, <1>2, <1>6, <1>7, HolderSteps

\* A question is recorded on the checkpoint its holder continued from.
LEMMA AskInOrder ==
  ASSUME TypeOK, ThreadInv, LocalInv, ProgressInv, [ExecutionNext]_allvars, NEW e \in Executors, Ask(e)
  PROVE  AllInOrder'
<1> PICK r \in Runs : r = exec[e].run
  BY DEF TypeOK, Ask, At
<1>1. /\ Held(e) /\ prog[e].stage = "stream" /\ prog[e].resume = NoAnswer /\ row[r].status = "running"
      /\ prog[e].from \in 1 .. Len(graph[r]) /\ NextIs("ask", graph[r][prog[e].from].values)
      /\ UNCHANGED <<row, exec, shown, given>>
  <2>1. Active(e) /\ prog[e].stage = "stream" /\ prog[e].from # 0
    BY DEF Ask, At
  <2>2. prog[e].from \in 1 .. Len(graph[r])
    BY <2>1, Places DEF LocalInv, LocalsTyped, Thread, Active, HoldsLease
  <2> QED
    BY <2>1, <2>2 DEF Ask, Active, HoldsLease, LiveAt, Held, Base, Thread, vars
<1>2. /\ \A d \in Executors : d # e => prog'[d] = prog[d]
      /\ prog'[e].stage = "asked" /\ prog'[e].from = prog[e].from
  BY DEF Ask, LocalInv, LocalsTyped
<1>3. /\ \A s \in Runs : s # r => graph'[s] = graph[s]
      /\ Len(graph'[r]) = Len(graph[r])
      /\ \A i \in 1 .. Len(graph[r]) :
           /\ graph'[r][i].values = graph[r][i].values
           /\ graph'[r][i].asked => graph[r][i].asked \/ i = prog[e].from
           /\ graph[r][i].asked => graph'[r][i].asked
  <2> DEFINE old == graph[r][prog[e].from]
             new == [old EXCEPT !.asked = TRUE]
  <2>1. graph[r] \in Seq(Checkpoints) /\ old \in Checkpoints /\ DOMAIN graph = Runs
    BY <1>1, Places DEF ThreadInv, ThreadsTyped
  <2>2. new \in Checkpoints /\ new.values = old.values /\ new.asked
    BY <2>1 DEF Checkpoints
  <2>3. graph' = [graph EXCEPT ![r] = [graph[r] EXCEPT ![prog[e].from] = new]]
    BY <2>1 DEF Ask
  <2>4. old = graph[r][prog[e].from]
    OBVIOUS
  <2> HIDE DEF new, old
  <2>5. /\ \A s \in Runs : s # r => graph'[s] = graph[s]
        /\ Len(graph'[r]) = Len(graph[r])
        /\ \A i \in 1 .. Len(graph[r]) : graph'[r][i] = IF i = prog[e].from THEN new ELSE graph[r][i]
    BY <1>1, <2>1, <2>2, <2>3, ExceptSeq
  <2> QED
    BY <2>2, <2>4, <2>5
<1>4. /\ shown[r] # 0 => /\ Reached(r)' = Reached(r) /\ End(r)'.values = End(r).values
                         /\ graph[r][shown[r]].asked => graph'[r][shown[r]].asked
  <2> SUFFICES ASSUME shown[r] # 0
               PROVE  /\ Reached(r)' = Reached(r) /\ End(r)'.values = End(r).values
                      /\ graph[r][shown[r]].asked => graph'[r][shown[r]].asked
    OBVIOUS
  <2>1. shown[r] \in 1 .. Len(graph[r]) /\ Len(graph[r]) \in 1 .. Len(graph[r])
    BY Places
  <2>2. Reached(r)' = Reached(r)
    BY <1>1, <1>3, <2>1 DEF Reached
  <2>3. End(r)'.values = End(r).values
    BY <1>3, <2>1 DEF End
  <2> QED
    BY <1>3, <2>1, <2>2, <2>3
<1>5. RunInOrder(r)'
  <2>0. RunInOrder(r)
    BY DEF ProgressInv, AllInOrder
  <2>1. ASSUME NEW i \in 1 .. Len(graph'[r]), graph'[r][i].asked
        PROVE  NextIs("ask", graph'[r][i].values)
    BY <1>1, <1>3, <2>0, <2>1 DEF RunInOrder
  <2>2. shown[r] = 0 => given[r] = {}
    BY <2>0 DEF RunInOrder
  <2>3. ASSUME NEW g \in given[r]
        PROVE  /\ g.epoch \in Nat /\ g.question \in Nat /\ g.epoch <= row[r].epoch
               /\ g.epoch = row[r].epoch =>
                    \/ g.question <= Reached(r)'.at
                    \/ /\ g.question = Reached(r)'.at + 1
                       /\ graph'[r][shown[r]].asked /\ row[r].resume # NoAnswer
    BY <1>4, <2>0, <2>2, <2>3 DEF RunInOrder
  <2> QED
    BY <1>1, <1>4, <2>0, <2>1, <2>2, <2>3 DEF RunInOrder, NextIs, Done
<1>6. HolderInOrder(e)'
  <2>1. HolderInOrder(e)
    BY DEF ProgressInv, AllInOrder
  <2>2. shown[r] # 0 => /\ prog[e].from = shown[r] /\ ~Answered(r, Reached(r).at + 1)
                        /\ NextIs("ask", Reached(r))
    BY <1>1, <2>1 DEF HolderInOrder, Reached
  <2>3. \A q : Answered(r, q)' <=> Answered(r, q)
    BY <1>1 DEF Answered
  <2> QED
    BY <1>1, <1>2, <1>4, <2>2, <2>3 DEF HolderInOrder, NextIs, Done
<1> QED
  BY <1>1, <1>2, <1>3, <1>5, <1>6, HolderSteps

\* The row is told how far its holder is.
LEMMA PublishInOrder ==
  ASSUME TypeOK, ThreadInv, LocalInv, ProgressInv, [ExecutionNext]_allvars, NEW e \in Executors, Publish(e)
  PROVE  /\ AllInOrder'
         /\ shown[exec[e].run] # 0 => End(exec[e].run).values.at >= Reached(exec[e].run).at
<1> PICK r \in Runs : r = exec[e].run
  BY DEF TypeOK, Publish, At
<1>1. /\ Held(e) /\ row[r].status = "running" /\ prog[e].stage \in {"put", "asked"}
      /\ UNCHANGED <<exec, given, graph>>
      /\ \A s \in Runs : s # r => row'[s] = row[s] /\ shown'[s] = shown[s]
      /\ row'[r].status = "running" /\ row'[r].epoch = row[r].epoch /\ row'[r].resume = row[r].resume
      /\ shown'[r] = Len(graph[r]) /\ Len(graph[r]) \in 1 .. Len(graph[r])
  <2>1. Active(e) /\ prog[e].stage \in {"put", "asked"} /\ UNCHANGED <<exec, given, graph>>
    BY DEF Publish, SetCheckpoint, At
  <2>2. Held(e) /\ row[r].status = "running"
    BY <2>1 DEF Active, HoldsLease, LiveAt, Held
  <2>3. /\ \A s \in Runs : s # r => row'[s] = row[s] /\ shown'[s] = shown[s]
        /\ row'[r].status = "running" /\ row'[r].epoch = row[r].epoch /\ row'[r].resume = row[r].resume
        /\ shown'[r] = Len(graph[r])
    BY <2>2 DEF Publish, SetCheckpoint, TypeOK, Rows, ThreadInv, ThreadsTyped, Thread
  <2>4. prog[e].from \in 0 .. Len(graph[r]) /\ prog[e].from # 0
    BY <2>1, <2>2 DEF LocalInv, LocalsTyped, ProgramsInOrder, Thread, Held
  <2> QED
    BY <2>1, <2>2, <2>3, <2>4, Places
<1>2. /\ \A d \in Executors : d # e => prog'[d] = prog[d]
      /\ prog'[e].stage = IF prog[e].stage = "put" THEN "stream" ELSE "over"
      /\ prog'[e].from = prog[e].from
  BY DEF Publish, LocalInv, LocalsTyped
<1>3. Reached(r)' = End(r).values /\ End(r)' = End(r)
  BY <1>1 DEF Reached, End
<1>0. RunInOrder(r) /\ HolderInOrder(e)
  BY DEF ProgressInv, AllInOrder
<1>4. /\ shown[r] # 0 => End(r).values.at >= Reached(r).at
      /\ \A g \in given[r] : g.epoch = row[r].epoch => g.question <= End(r).values.at
  <2>1. CASE shown[r] = 0
    BY <1>0, <2>1 DEF RunInOrder
  <2>2. CASE shown[r] # 0 /\ prog[e].stage = "put"
    <3>1. End(r).values.at = Reached(r).at + 1 /\ Reached(r).at \in Nat
      BY <1>0, <1>1, <2>2, Places DEF HolderInOrder
    <3> QED
      BY <1>0, <2>2, <3>1 DEF RunInOrder
  <2>3. CASE shown[r] # 0 /\ prog[e].stage = "asked"
    <3>1. NextIs("ask", Reached(r)) /\ ~Answered(r, Reached(r).at + 1)
      BY <1>0, <1>1, <2>3 DEF HolderInOrder
    <3>2. End(r).values.at >= Reached(r).at /\ Reached(r).at \in Nat /\ End(r).values.at \in Nat
      BY <1>0, <2>3, <3>1, Places DEF RunInOrder
    <3>3. \A g \in given[r] : g.epoch = row[r].epoch => g.question <= Reached(r).at /\ g.question \in Nat
      BY <1>0, <3>1 DEF RunInOrder, Answered
    <3> QED
      BY <3>2, <3>3
  <2> QED
    BY <1>1, <2>1, <2>2, <2>3
<1>5. RunInOrder(r)'
  <2>1. End(r).values.at \in Nat
    BY <1>1, Places DEF End
  <2>2. \A i \in 1 .. Len(graph'[r]) : graph'[r][i].asked => NextIs("ask", graph'[r][i].values)
    BY <1>0, <1>1 DEF RunInOrder
  <2>3. End(r)'.values.at >= Reached(r)'.at /\ shown'[r] # 0
    BY <1>1, <1>3, <2>1
  <2>4. \A g \in given'[r] :
          /\ g.epoch \in Nat /\ g.question \in Nat /\ g.epoch <= row'[r].epoch
          /\ g.epoch = row'[r].epoch => g.question <= Reached(r)'.at
    BY <1>0, <1>1, <1>3, <1>4 DEF RunInOrder
  <2> QED
    BY <1>1, <2>2, <2>3, <2>4 DEF RunInOrder, NextIs, Done
<1>6. HolderInOrder(e)'
  <2>1. ~Answered(r, End(r).values.at + 1)'
    <3>1. End(r).values.at \in Nat /\ \A g \in given[r] : g.question \in Nat
      BY <1>0, <1>1, Places DEF RunInOrder, End
    <3>2. \A g \in given[r] : g.epoch = row[r].epoch => g.question # End(r).values.at + 1
      BY <1>4, <3>1
    <3> QED
      BY <1>1, <1>3, <3>2 DEF Answered
  <2>2. prog[e].stage = "put" => prog[e].from = Len(graph[r])
    BY <1>0, <1>1 DEF HolderInOrder
  <2> QED
    BY <1>1, <1>2, <1>3, <2>1, <2>2 DEF HolderInOrder
<1> QED
  BY <1>1, <1>2, <1>4, <1>5, <1>6, HolderSteps

\* A step of one executor that touches no thread leaves other holders alone.
LEMMA OneSteps ==
  ASSUME TypeOK, ProgressInv, [ExecutionNext]_allvars, NEW e \in Executors,
         UNCHANGED <<graph, shown, given>>, \A r \in Runs : row'[r].resume = row[r].resume,
         \A d \in Executors : d # e => exec'[d] = exec[d] /\ prog'[d] = prog[d],
         \A r \in Runs : RunInOrder(r)', HolderInOrder(e)'
  PROVE  AllInOrder'
<1>1. ASSUME NEW d \in Executors, d # e PROVE HolderInOrder(d)'
  <2>1. CASE Runner(d)
    BY <1>1, <2>1, HolderAlone DEF ProgressInv, AllInOrder
  <2>2. CASE ~Runner(d)
    BY <1>1, <2>2 DEF Runner, Held, HolderInOrder
  <2> QED
    BY <2>1, <2>2
<1> QED
  BY <1>1 DEF AllInOrder

\* Up to its first checkpoint an execution reads what its row names.
LEMMA ReadInOrder ==
  ASSUME TypeOK, ThreadInv, LocalInv, ProgressInv, [ExecutionNext]_allvars, NEW e \in Executors,
         ReadRun(e) \/ ReadPin(e) \/ WritePin(e) \/ LoadState(e)
  PROVE  AllInOrder'
<1>0. exec \in [Executors -> ExecStates] /\ DOMAIN prog = Executors /\ HolderInOrder(e)
  BY DEF TypeOK, LocalInv, LocalsTyped, ProgressInv, AllInOrder
<1>1. /\ UNCHANGED <<row, graph, shown, given>>
      /\ \A d \in Executors : d # e => exec'[d] = exec[d] /\ prog'[d] = prog[d]
  <2>1. CASE ReadRun(e) \/ ReadPin(e) \/ LoadState(e)
    BY <2>1, LocalSteps DEF LocalInv
  <2>2. CASE WritePin(e)
    BY <1>0, <2>2 DEF WritePin, InsertPin, world
  <2> QED
    BY <2>1, <2>2
<1>2. \A r \in Runs : RunInOrder(r)'
  BY <1>1, RunAlone DEF ProgressInv, AllInOrder, Steady
<1>3. HolderInOrder(e)'
  <2>1. CASE ReadRun(e)
    <3>1. prog'[e].stage = "row" /\ exec'[e].run = exec[e].run
      BY <1>0, <2>1 DEF ReadRun, ReadRow, IdleProg
    <3>2. prog'[e].resume = row[exec[e].run].resume /\ prog'[e].from = shown[exec[e].run]
      BY <1>0, <2>1 DEF ReadRun, IdleProg
    <3> QED
      BY <1>1, <3>1, <3>2 DEF HolderInOrder
  <2>2. ASSUME ReadPin(e) \/ WritePin(e) \/ LoadState(e), Held(e)' PROVE HolderInOrder(e)'
    <3> PICK r \in Runs : r = exec[e].run
      BY <2>2 DEF TypeOK, ReadPin, WritePin, LoadState, At
    <3>1. exec' = exec /\ Held(e)
      BY <1>1, <2>2 DEF ReadPin, WritePin, InsertPin, LoadState, vars, Held
    <3>2. CASE ReadPin(e) \/ WritePin(e)
      <4>1. /\ prog[e].stage \in {"row", "snapshot"} /\ prog'[e].stage \in {"snapshot", "viewed"}
            /\ prog'[e].resume = prog[e].resume /\ prog'[e].from = prog[e].from
        BY <3>2 DEF ReadPin, WritePin, At, LocalInv, LocalsTyped
      <4> QED
        BY <1>0, <1>1, <3>1, <4>1 DEF HolderInOrder, Reached
    <3>3. CASE LoadState(e)
      <4>1. /\ prog[e].stage = "viewed" /\ prog'[e].stage = "stream"
            /\ prog'[e].from = IF prog[e].from # 0 THEN prog[e].from ELSE Len(graph[r])
        BY <3>3 DEF LoadState, At, LocalInv, LocalsTyped, Thread
      <4>2. /\ prog[e].resume = row[r].resume
            /\ prog[e].from = shown[r]
            /\ prog[e].from \in 0 .. Len(graph[r])
        BY <1>0, <3>1, <4>1 DEF HolderInOrder, Held, LocalInv, LocalsTyped, Thread
      <4>3. shown[r] # 0 /\ prog'[e].resume = NoAnswer =>
              ~graph[r][shown[r]].asked \/ row[r].resume = NoAnswer
        BY <3>3, <4>2 DEF LoadState, Thread, LocalInv, LocalsTyped
      <4>4. shown[r] # 0 /\ prog'[e].resume = NoAnswer => ~Answered(r, Reached(r).at + 1)
        <5> SUFFICES ASSUME shown[r] # 0, prog'[e].resume = NoAnswer, NEW g \in given[r],
                            g.epoch = row[r].epoch, g.question = Reached(r).at + 1
                     PROVE  FALSE
          BY DEF Answered
        <5>1. g.question <= Reached(r).at
          BY <4>3 DEF ProgressInv, AllInOrder, RunInOrder
        <5>2. Reached(r).at \in Nat
          BY Places
        <5> QED
          BY <5>1, <5>2
      <4>5. shown[r] = 0 => prog'[e].from = Len(graph[r])
        BY <4>1, <4>2
      <4>6. Reached(r)' = Reached(r) /\ \A q : Answered(r, q)' <=> Answered(r, q)
        BY <1>1 DEF Reached, Answered
      <4> QED
        BY <1>1, <3>1, <4>1, <4>2, <4>4, <4>5, <4>6 DEF HolderInOrder
    <3> QED
      BY <2>2, <3>2, <3>3
  <2> QED
    BY <2>1, <2>2 DEF HolderInOrder
<1> QED
  BY <1>1, <1>2, <1>3, OneSteps

\* A run starts to wait at the question its latest checkpoint asks; unless the row names the
\* end of the workflow, that is the checkpoint the row names, and it was not answered.
LEMMA WaitsToAsk ==
  ASSUME TypeOK, ThreadInv, LocalInv, ProgressInv, [ExecutionNext]_allvars, NEW r \in Runs,
         row'[r].status = "waiting_input", row[r].status # "waiting_input"
  PROVE  /\ shown[r] # 0 /\ End(r).asked
         /\ \/ Done(Reached(r))
            \/ shown[r] = Len(graph[r]) /\ ~Answered(r, Reached(r).at + 1)
<1> PICK e \in Executors : Conclude(e) /\ HoldsLease(e) /\ exec[e].run = r /\ VerdictOf(e) = "waiting_input"
  BY WhoConcludes
<1>1. Held(e) /\ HolderInOrder(e) /\ RunInOrder(r) /\ prog[e].from \in 0 .. Len(graph[r])
  BY DEF HoldsLease, LiveAt, Held, ProgressInv, AllInOrder, LocalInv, LocalsTyped, Thread
<1>2. End(r).asked
  BY DEF VerdictOf, Latest, Thread, Last, End
<1>3. CASE prog[e].stage = "over"
  BY <1>1, <1>2, <1>3 DEF HolderInOrder
<1>4. CASE prog[e].stage = "stream" /\ prog[e].from # 0 /\ Done(graph[r][prog[e].from].values)
  <2>1. CASE shown[r] # 0
    BY <1>1, <1>2, <1>4, <2>1 DEF HolderInOrder, Reached
  <2>2. CASE shown[r] = 0
    <3>1. prog[e].from = Len(graph[r]) /\ Len(graph[r]) \in 1 .. Len(graph[r])
      BY <1>1, <1>4, <2>2 DEF HolderInOrder
    <3>2. NextIs("ask", End(r).values)
      BY <1>1, <1>2, <3>1 DEF RunInOrder, End
    <3> QED
      BY <1>4, <3>1, <3>2 DEF NextIs, End
  <2> QED
    BY <2>1, <2>2
<1> QED
  BY <1>3, <1>4 DEF Conclude, StreamOver, At, Base, Thread

\* An execution ends.
LEMMA EndInOrder ==
  ASSUME TypeOK, ThreadInv, LocalInv, ProgressInv, [ExecutionNext]_allvars, NEW e \in Executors,
         Conclude(e) \/ Fail(e) \/ Die(e)
  PROVE  AllInOrder'
<1>1. /\ \A r \in Runs : row'[r].epoch = row[r].epoch /\ row'[r].resume = row[r].resume
      /\ UNCHANGED <<graph, shown, given>>
      /\ \A d \in Executors : d # e => exec'[d] = exec[d] /\ prog'[d] = prog[d]
      /\ HolderInOrder(e)'
  BY EndSteps DEF Plain, world, LocalInv, LocalsTyped, HolderInOrder, Held
<1>2. ASSUME NEW r \in Runs PROVE RunInOrder(r)'
  <2>0. RunInOrder(r)
    BY DEF ProgressInv, AllInOrder
  <2>1. CASE row'[r].status = "waiting_input" /\ row[r].status # "waiting_input"
    <3>1. Reached(r)' = Reached(r) /\ End(r)' = End(r)
      BY <1>1 DEF Reached, End
    <3> QED
      BY <1>1, <2>0, <2>1, <3>1, WaitsToAsk DEF RunInOrder, NextIs, Done
  <2>2. CASE ~(row'[r].status = "waiting_input" /\ row[r].status # "waiting_input")
    <3>1. Steady(r)
      BY <1>1, <2>2 DEF Steady
    <3> QED
      BY <1>1, <2>0, <3>1, RunAlone
  <2> QED
    BY <2>1, <2>2
<1> QED
  BY <1>1, <1>2, OneSteps

\* The user answers the question the run waits at.
LEMMA AnswerInOrder ==
  ASSUME TypeOK, ThreadInv, ProgressInv, [ExecutionNext]_allvars,
         NEW r \in Runs, NEW answer \in Answers, Answer(r, answer)
  PROVE  AllInOrder'
<1> DEFINE new == [epoch |-> row[r].epoch, question |-> Last(graph[r]).values.at + 1, answer |-> answer]
<1>1. /\ row[r].status = "waiting_input" /\ row[r] \in Rows
      /\ row'[r].status = "queued" /\ row'[r].resume = answer /\ row'[r].epoch = row[r].epoch
      /\ \A s \in Runs : s # r => row'[s] = row[s]
      /\ UNCHANGED <<exec, graph, shown, prog>>
  BY DEF Answer, Resume, TypeOK, Rows
<1>2. given' = [given EXCEPT ![r] = given[r] \cup {new}]
  BY DEF Answer
<1>3. new.epoch = row[r].epoch /\ new.question = End(r).values.at + 1
  BY DEF Last, End
<1> HIDE DEF new
<1>0. RunInOrder(r)
  BY DEF ProgressInv, AllInOrder
<1>4. /\ shown[r] # 0 /\ End(r).asked /\ NextIs("ask", End(r).values)
      /\ \/ shown[r] = Len(graph[r])
         \/ End(r).values.at + 1 <= Reached(r).at
  <2>1. shown[r] # 0 /\ End(r).asked /\ (shown[r] = Len(graph[r]) \/ Done(Reached(r)))
    BY <1>0, <1>1 DEF RunInOrder
  <2>2. NextIs("ask", End(r).values)
    BY <1>0, <2>1, Places DEF RunInOrder, End
  <2>3. Done(Reached(r)) => End(r).values.at + 1 <= Reached(r).at
    <3>1. End(r).values.at # Len(Script) /\ End(r).values.at \in Nat /\ End(r).values.at <= Len(Script)
      BY <2>1, <2>2, Places DEF NextIs, Done
    <3> QED
      BY <3>1, ScriptAssumption, LenProperties DEF Done
  <2> QED
    BY <2>1, <2>2, <2>3
<1>5. RunInOrder(r)'
  <2>1. Reached(r)' = Reached(r) /\ graph'[r] = graph[r] /\ shown'[r] = shown[r] /\ answer # NoAnswer
    BY <1>1, NullsAssumption DEF Reached
  <2>2. ASSUME NEW g \in given'[r]
        PROVE  /\ g.epoch \in Nat /\ g.question \in Nat /\ g.epoch <= row[r].epoch
               /\ g.epoch = row[r].epoch =>
                    \/ g.question <= Reached(r).at
                    \/ g.question = Reached(r).at + 1 /\ graph[r][shown[r]].asked
    <3>1. CASE g = new
      <4>1. row[r].epoch \in Nat /\ End(r).values.at \in Nat
        BY <1>1, <1>4, BoundAssumption, Places DEF Rows, Epochs
      <4>2. shown[r] = Len(graph[r]) => Reached(r).at = End(r).values.at /\ graph[r][shown[r]].asked
        BY <1>4 DEF Reached, End
      <4> QED
        BY <1>3, <1>4, <3>1, <4>1, <4>2
    <3>2. CASE g \in given[r]
      BY <1>0, <3>2 DEF RunInOrder
    <3>3. r \in DOMAIN given => g = new \/ g \in given[r]
      BY <1>2
    <3>4. r \notin DOMAIN given => given'[r] = given[r]
      BY <1>2
    <3> QED
      BY <3>1, <3>2, <3>3, <3>4
  <2> QED
    BY <1>0, <1>1, <1>4, <2>1, <2>2 DEF RunInOrder, NextIs, Done, End
<1>6. ASSUME NEW s \in Runs, s # r PROVE RunInOrder(s)'
  BY <1>1, <1>2, <1>6, RunAlone DEF ProgressInv, AllInOrder, Steady
<1>7. ASSUME NEW d \in Executors PROVE HolderInOrder(d)'
  <2>1. Held(d)' => exec[d].run # r
    BY <1>1 DEF Held
  <2> QED
    BY <1>1, <1>2, <2>1, HolderAlone DEF ProgressInv, AllInOrder, Runner
<1> QED
  BY <1>5, <1>6, <1>7 DEF AllInOrder

\* The user takes the run back: nobody holds it, and its epoch is new.
LEMMA RewindInOrder ==
  ASSUME TypeOK, ThreadInv, ProgressInv, [ExecutionNext]_allvars,
         NEW r \in Runs, NEW i \in DOMAIN graph[r], RewindTo(r, i)
  PROVE  AllInOrder' /\ row'[r].epoch # row[r].epoch
<1>1. /\ row[r] \in Rows /\ row[r].epoch \in Nat
      /\ row'[r].status = "queued" /\ row'[r].epoch = row[r].epoch + 1
      /\ \A s \in Runs : s # r => row'[s] = row[s] /\ shown'[s] = shown[s]
      /\ shown'[r] = i /\ i \in 1 .. Len(graph[r]) /\ ~NextIs("ask", graph[r][i].values)
      /\ UNCHANGED <<exec, graph, given, prog>>
  <2>1. row[r] \in Rows /\ row[r].epoch \in Nat /\ i \in 1 .. Len(graph[r])
    BY Places, LenProperties, BoundAssumption DEF TypeOK, Rows, Epochs
  <2> QED
    BY <2>1 DEF RewindTo, Rewind, TypeOK, Rows, ThreadInv, ThreadsTyped
<1>2. RunInOrder(r)'
  <2>1. RunInOrder(r) /\ shown'[r] # 0 /\ Reached(r)' = graph[r][i].values
    BY <1>1, Places DEF ProgressInv, AllInOrder, Reached
  <2>2. \A g \in given[r] : g.epoch \in Nat /\ g.question \in Nat /\ g.epoch < row'[r].epoch
    BY <1>1, <2>1 DEF RunInOrder
  <2> QED
    BY <1>1, <2>1, <2>2 DEF RunInOrder, NextIs, Done
<1>3. ASSUME NEW s \in Runs, s # r PROVE RunInOrder(s)'
  BY <1>1, <1>3, RunAlone DEF ProgressInv, AllInOrder, Steady
<1>4. ASSUME NEW d \in Executors PROVE HolderInOrder(d)'
  <2>1. Held(d)' => exec[d].run # r
    BY <1>1 DEF Held
  <2> QED
    BY <1>1, <2>1, HolderAlone DEF ProgressInv, AllInOrder, Runner
<1> QED
  BY <1>1, <1>2, <1>3, <1>4 DEF AllInOrder

\* Every step keeps runs and holders in order.
LEMMA ProgressNext ==
  ASSUME ExecutionInv, ProgressInv, [ExecutionNext]_allvars
  PROVE  ProgressInv'
<1> USE DEF ExecutionInv
<1>1. TokensUnique'
  <2>1. ASSUME NEW e \in Executors, WritePin(e) PROVE TokensUnique'
    BY <2>1 DEF ProgressInv, WritePin, InsertPin, TokensUnique
  <2> QED
    BY <2>1, StoreOrPin, TokensNext DEF ProgressInv
<1>2. ASSUME \A r \in Runs : Steady(r), \A e \in Executors : Runner(e), UNCHANGED <<graph, shown, given, prog>>
      PROVE  AllInOrder'
  <2>1. ASSUME NEW e \in Executors, NEW r \in Runs, Held(e)', r = exec[e].run
        PROVE  row'[r].resume = row[r].resume
    BY <1>2, <2>1 DEF Steady, Runner, Held
  <2> QED
    BY <1>2, <2>1, RunAlone, HolderAlone DEF ProgressInv, AllInOrder
<1>3. CASE StoreStep
  <2>1. (\A r \in Runs : Steady(r)) /\ (\A e \in Executors : Runner(e)) /\ UNCHANGED <<world, prog>>
    BY <1>3, StoreSteps, StoreIsSteady DEF ThreadInv
  <2>2. UNCHANGED <<graph, shown, given, prog>>
    BY <2>1 DEF world
  <2> QED
    BY <1>1, <1>2, <2>1, <2>2 DEF ProgressInv
<1>4. CASE Ingest \/ UNCHANGED allvars
  <2>1. UNCHANGED <<row, exec>> /\ UNCHANGED <<graph, shown, given, prog>>
    BY <1>4 DEF Ingest, allvars, vars, world
  <2>2. (\A r \in Runs : Steady(r)) /\ \A e \in Executors : Runner(e)
    BY <2>1 DEF Steady, Runner
  <2> QED
    BY <1>1, <1>2, <2>1, <2>2 DEF ProgressInv
<1>5. ASSUME NEW e \in Executors, ExecutorStep(e) PROVE AllInOrder'
  BY <1>5, ReadInOrder, PutInOrder, AskInOrder, PublishInOrder, EndInOrder DEF ExecutorStep
<1>6. ASSUME NEW r \in Runs, NEW answer \in Answers, Answer(r, answer) PROVE AllInOrder'
  BY <1>6, AnswerInOrder
<1>7. ASSUME NEW r \in Runs, NEW i \in DOMAIN graph[r], RewindTo(r, i) PROVE AllInOrder'
  BY <1>7, RewindInOrder
<1> QED
  BY <1>1, <1>3, <1>4, <1>5, <1>6, <1>7 DEF ExecutionNext, ProgressInv

LEMMA ProgressInvariant == ExecutionSpec => []ProgressInv
<1>1. ExecutionInit => ProgressInv
  <2> SUFFICES ASSUME ExecutionInit PROVE ProgressInv
    OBVIOUS
  <2>1. TokensUnique
    BY TokensInit DEF ExecutionInit
  <2>2. /\ \A r \in Runs : graph[r] = <<>> /\ shown[r] = 0 /\ given[r] = {} /\ row[r] = AbsentRow
        /\ \A e \in Executors : exec[e].pc = "idle"
    BY DEF ExecutionInit, Init, IdleExec
  <2>3. \A r \in Runs : RunInOrder(r)
    BY <2>2, EmptySeq DEF RunInOrder, AbsentRow
  <2> QED
    BY <2>1, <2>2, <2>3 DEF ProgressInv, AllInOrder, HolderInOrder, Held
<1> QED
  BY <1>1, ProgressNext, ExecutionInvariant, PTL DEF ExecutionSpec

\* "A new executor resumes": within an epoch the progress the row names never goes back, for
\* any script and any number of executors that die, lapse and replay.
THEOREM ProgressIsKept == ExecutionSpec => ProgressKept
<1> DEFINE Forward(r) ==
      /\ shown'[r] # 0
      /\ graph'[r][shown'[r]].values.at >= graph[r][shown[r]].values.at
<1>1. ASSUME ExecutionInv, ProgressInv, [ExecutionNext]_allvars, NEW r \in Runs,
             row'[r].epoch = row[r].epoch, shown[r] # 0
      PROVE  Forward(r)
  <2> USE <1>1 DEF ExecutionInv
  <2>0. shown[r] \in 1 .. Len(graph[r]) /\ Len(graph[r]) \in 1 .. Len(graph[r])
        /\ graph[r][shown[r]].values.at \in Nat
    BY Places
  <2>1. ASSUME shown'[r] = shown[r], graph'[r][shown[r]].values = graph[r][shown[r]].values PROVE Forward(r)
    BY <2>0, <2>1
  <2>2. ASSUME NEW e \in Executors, PutInput(e) \/ Work(e) \/ TakeAnswer(e) PROVE Forward(r)
    <3> PICK values \in Values : Put(e, values)
      BY <2>2, NodeSteps
    <3> DEFINE new == Checkpoint(values, e)
    <3>1. new \in Checkpoints /\ shown' = shown /\ graph[r] \in Seq(Checkpoints)
          /\ (graph'[r] = graph[r] \/ graph'[r] = Append(graph[r], new))
      BY PutSteps, Places DEF ThreadInv
    <3> HIDE DEF new
    <3>2. graph'[r][shown[r]] = graph[r][shown[r]]
      BY <2>0, <3>1, OneMore
    <3> QED
      BY <2>1, <3>1, <3>2
  <2>3. ASSUME NEW e \in Executors, Ask(e) PROVE Forward(r)
    BY <2>0, <2>1, <2>3, AskSteps
  <2>4. ASSUME NEW e \in Executors, Publish(e) PROVE Forward(r)
    <3>1. graph' = graph /\ shown' = [shown EXCEPT ![exec[e].run] = Len(graph[exec[e].run])]
      BY <2>4 DEF Publish, Thread
    <3>2. CASE r # exec[e].run
      BY <2>1, <3>1, <3>2 DEF ThreadInv, ThreadsTyped
    <3>3. CASE r = exec[e].run
      BY <2>0, <2>4, <3>1, <3>3, PublishInOrder DEF ThreadInv, ThreadsTyped, End, Reached
    <3> QED
      BY <3>2, <3>3
  <2>5. ASSUME NEW s \in Runs, NEW i \in DOMAIN graph[s], RewindTo(s, i) PROVE Forward(r)
    <3>1. s # r
      BY <2>5, RewindInOrder
    <3> QED
      BY <2>1, <2>5, <3>1 DEF RewindTo, ThreadInv, ThreadsTyped
  <2>6. ASSUME NEW e \in Executors, ReadRun(e) \/ ReadPin(e) \/ WritePin(e) \/ LoadState(e)
                                    \/ Conclude(e) \/ Fail(e) \/ Die(e)
        PROVE  Forward(r)
    <3>1. UNCHANGED <<graph, shown>>
      <4>1. CASE Conclude(e) \/ Fail(e) \/ Die(e)
        BY <4>1, EndSteps DEF world
      <4>2. CASE ~(Conclude(e) \/ Fail(e) \/ Die(e))
        BY <2>6, <4>2 DEF ReadRun, ReadPin, WritePin, LoadState, world
      <4> QED
        BY <4>1, <4>2
    <3> QED
      BY <2>1, <3>1
  <2>7. ASSUME StoreStep \/ Ingest \/ UNCHANGED allvars
               \/ \E s \in Runs, answer \in Answers : Answer(s, answer)
        PROVE  Forward(r)
    BY <2>1, <2>7, StoreSteps DEF ThreadInv, Ingest, Answer, allvars, world
  <2> QED
    BY <2>2, <2>3, <2>4, <2>5, <2>6, <2>7 DEF ExecutionNext, ExecutorStep
<1> HIDE DEF Forward
<1>2. ExecutionInv /\ ProgressInv /\ [ExecutionNext]_allvars =>
        [\A r \in Runs :
           row'[r].epoch = row[r].epoch /\ shown[r] # 0 =>
             /\ shown'[r] # 0
             /\ graph'[r][shown'[r]].values.at >= graph[r][shown[r]].values.at]_allvars
  BY <1>1 DEF Forward
<1> QED
  BY <1>2, ExecutionInvariant, ProgressInvariant, PTL DEF ExecutionSpec, ProgressKept

\* No question the user answered in this epoch is put to him again, for any script, any
\* number of executors and however often they die, unless he rewound the run to its end.
THEOREM QuestionsAskedOnce == ExecutionSpec => AskedOnce
<1>1. ASSUME ExecutionInv, ProgressInv, [ExecutionNext]_allvars, NEW r \in Runs,
             row[r].status # "waiting_input", row'[r].status = "waiting_input",
             shown[r] # 0 => ~Done(graph[r][shown[r]].values),
             NEW g \in given[r], g.epoch = row[r].epoch
      PROVE  g.question # Last(graph[r]).values.at + 1
  <2>1. shown[r] = Len(graph[r]) /\ ~Answered(r, Reached(r).at + 1)
    BY <1>1, WaitsToAsk DEF ExecutionInv, Reached
  <2> QED
    BY <1>1, <2>1 DEF Answered, Reached, Last
<1>2. ExecutionInv /\ ProgressInv /\ [ExecutionNext]_allvars =>
        [\A r \in Runs :
           /\ row[r].status # "waiting_input" /\ row'[r].status = "waiting_input"
           /\ shown[r] # 0 => ~Done(graph[r][shown[r]].values)
           => \A g \in given[r] : g.epoch = row[r].epoch => g.question # Last(graph[r]).values.at + 1]_allvars
  BY <1>1
<1> QED
  BY <1>2, ExecutionInvariant, ProgressInvariant, PTL DEF ExecutionSpec, AskedOnce

=============================================================================
