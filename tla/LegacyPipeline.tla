--------------------------- MODULE LegacyPipeline ---------------------------
(***************************************************************************)
(* The Kafka and Redis pipeline of asynchronization/: five workers, each   *)
(* the only consumer of its topic, hand a session from one to the next.    *)
(* The message carries nothing but the session's id; the session's state   *)
(* lies in Redis, is read when a worker takes the message and is written   *)
(* back as a whole.                                                        *)
(*                                                                         *)
(* Messages of different sessions never meet, so one session is modelled.  *)
(* A worker saves, sends and commits its offset in three steps and may die *)
(* before each of them; the message it did not commit is delivered again.  *)
(* Two messages of one session are then on their way, and two workers may  *)
(* hold two copies of its state.                                           *)
(*                                                                         *)
(* A task is known by the sub-question it goes back to: a supplement or a  *)
(* replanned task keeps the name of what it replaces.  Retrieved documents *)
(* are known by the task they were retrieved for.  A send that fails is    *)
(* taken to raise.                                                         *)
(***************************************************************************)
EXTENDS Integers, Sequences

CONSTANTS
  Plans,         \* the task queues the planner may produce
  RuleTasks,     \* what the hard rule puts in front of the queue
  NoDocs,
  MaxRetries,    \* agent.max_retries_per_task
  Wormhole,      \* agent.wormhole_threshold
  MaxDepth,      \* agent.max_recursion_depth
  MaxNew,        \* bound: the replanner's model returns no more tasks than this
  MaxQueue,      \* bound: no task is added to a longer queue
  MaxCrashes     \* bound: no more crashes than this

\* What a task may be known by; "question" is the whole of it.
Names == {"question"} \cup UNION {{p[i] : i \in 1 .. Len(p)} : p \in Plans \cup {RuleTasks}}

ASSUME PipelineAssumption ==
  /\ Plans \cup {RuleTasks} \subseteq Seq(Names) \ {<<>>}
  /\ MaxRetries \in Nat /\ Wormhole \in Nat /\ MaxDepth \in Nat
  /\ MaxNew \in Nat /\ MaxQueue \in Nat /\ MaxCrashes \in Nat

VARIABLES
  session,   \* the session's state in Redis
  topic,     \* per topic: how many of the session's messages are not committed yet
  worker,    \* per worker: where it is, the state it loaded, the topic it will send to
  crashes,
  ended,     \* a report was saved, the session quarantined or found expired (observed only)
  misjudged  \* the grader graded a task by another task's documents (observed only)

vars == <<session, topic, worker, crashes, ended, misjudged>>

Stages == {"planner", "retriever", "grader", "replanner", "reasoner"}
Nobody == "nobody"
Absent == [queue |-> <<>>, docs |-> NoDocs, fails |-> 0, depth |-> 0, stop |-> FALSE,
           hint |-> FALSE, status |-> "absent"]
New    == [Absent EXCEPT !.status = "open"]
Idle   == [pc |-> "idle", seen |-> Absent, target |-> Nobody]

Init ==
  /\ session = New
  /\ topic = [s \in Stages |-> IF s = "planner" THEN 1 ELSE 0]
  /\ worker = [s \in Stages |-> Idle]
  /\ crashes = 0 /\ ended = FALSE /\ misjudged = FALSE

-----------------------------------------------------------------------------
(* Taking a message and settling it                                         *)

\* Bound of the model: once the session has ended no further message of it is taken.
Waiting(s) == worker[s].pc = "idle" /\ topic[s] > 0 /\ ~ended

Load(s) ==
  /\ Waiting(s)
  /\ session.status # "absent"
  /\ worker' = [worker EXCEPT ![s] = [Idle EXCEPT !.pc = "working", !.seen = session]]
  /\ UNCHANGED <<session, topic, crashes, ended, misjudged>>

\* load_state raises KeyError: the message is committed and forgotten.
Skip(s) ==
  /\ Waiting(s)
  /\ session.status = "absent"
  /\ topic' = [topic EXCEPT ![s] = @ - 1]
  /\ ended' = TRUE
  /\ UNCHANGED <<session, worker, crashes, misjudged>>

Send(s) ==
  /\ worker[s].pc = "saved"
  /\ topic' = [topic EXCEPT ![worker[s].target] = @ + 1]
  /\ worker' = [worker EXCEPT ![s] = [Idle EXCEPT !.pc = "sent"]]
  /\ UNCHANGED <<session, crashes, ended, misjudged>>

\* Variant: the offset may be committed before the message is handed on.
CommitEarly(s) ==
  /\ worker[s].pc \in {"saved", "sent"}
  /\ topic' = [topic EXCEPT ![s] = @ - 1]
  /\ worker' = [worker EXCEPT ![s].pc = IF @ = "saved" THEN "saved" ELSE "idle"]
  /\ UNCHANGED <<session, crashes, ended, misjudged>>

Commit(s) ==
  /\ worker[s].pc = "sent"
  /\ topic' = [topic EXCEPT ![s] = @ - 1]
  /\ worker' = [worker EXCEPT ![s] = Idle]
  /\ UNCHANGED <<session, crashes, ended, misjudged>>

\* Any exception - of the model, the retrieval, the send or the commit: the message
\* goes to the dead-letter queue and is committed.  What was saved stays saved.
Quarantine(s) ==
  /\ worker[s].pc \in {"working", "saved", "sent"}
  /\ worker' = [worker EXCEPT ![s] = [Idle EXCEPT !.pc = "sent"]]
  /\ ended' = TRUE
  /\ UNCHANGED <<session, topic, crashes, misjudged>>

\* The process dies, or the dead-letter queue cannot be written, which ends it.
Crash(s) ==
  /\ worker[s].pc # "idle" /\ crashes < MaxCrashes
  /\ worker' = [worker EXCEPT ![s] = Idle]
  /\ crashes' = crashes + 1
  /\ UNCHANGED <<session, topic, ended, misjudged>>

\* Redis drops a state that was not saved for state_expire_seconds.  Bound of the model:
\* no worker takes longer than that.
Expire ==
  /\ \A s \in Stages : worker[s] = Idle
  /\ session.status # "absent"
  /\ session' = Absent
  /\ UNCHANGED <<topic, worker, crashes, ended, misjudged>>

-----------------------------------------------------------------------------
(* The five workers.  Each writes back what it loaded, changed.             *)

Working(s) == worker[s].pc = "working"

\* Having saved, the worker has no more use for its copy.
HandOn(s, target) ==
  worker' = [worker EXCEPT ![s] = [Idle EXCEPT !.pc = "saved", !.target = target]]

\* Planner: a new plan, whatever the state held.
Plan ==
  /\ Working("planner")
  /\ \E p \in Plans :
       session' = [worker["planner"].seen EXCEPT !.queue = p, !.depth = 0]
  /\ HandOn("planner", "retriever")
  /\ UNCHANGED <<topic, crashes, ended, misjudged>>

\* A worker that finds no task left passes the session on as it is.
NothingLeft(s) ==
  /\ s \in {"retriever", "grader"}
  /\ Working(s) /\ worker[s].seen.queue = <<>>
  /\ HandOn(s, "reasoner")
  /\ UNCHANGED <<session, topic, crashes, ended, misjudged>>

\* Retriever: one more observation; the queue is left alone.
Retrieve ==
  LET seen == worker["retriever"].seen IN
  /\ Working("retriever") /\ seen.queue # <<>>
  /\ session' = [seen EXCEPT !.docs = Head(seen.queue)]
  /\ HandOn("retriever", "grader")
  /\ UNCHANGED <<topic, crashes, ended, misjudged>>

\* Failures are only compared with the two limits: beyond both, one more makes no difference.
Counted(fails) == IF fails > MaxRetries /\ fails > Wormhole THEN fails ELSE fails + 1

\* Variant: the next task is graded at once.
SufficientGradesOn(seen) ==
  {[state |-> [seen EXCEPT !.queue = Tail(@), !.fails = 0],
    to |-> IF Tail(seen.queue) = <<>> THEN "reasoner" ELSE "grader"]}

\* Grader: the first task of the queue by the last documents.  Facts it extracts may
\* contain the trigger of a hard rule.
Sufficient(seen) ==
  {[state |-> [seen EXCEPT !.queue = Tail(@), !.fails = 0, !.hint = @ \/ found],
    to |-> IF Tail(seen.queue) = <<>> THEN "reasoner" ELSE "retriever"] : found \in BOOLEAN}

\* With something missing the task is supplemented, without it is dropped.
Partial(seen) ==
  UNION {{[state |-> [seen EXCEPT !.queue = q, !.fails = Counted(@), !.hint = @ \/ found],
           to |-> IF seen.fails + 1 > MaxRetries THEN "replanner" ELSE "retriever"] :
             found \in BOOLEAN} : q \in {seen.queue, Tail(seen.queue)}}

\* Variant: an irrelevant answer is not counted.
IrrelevantUncounted(seen) == {[state |-> seen, to |-> "retriever"]}

Irrelevant(seen) ==
  {[state |-> [seen EXCEPT !.fails = Counted(@)],
    to |-> IF seen.fails + 1 > Wormhole THEN "replanner" ELSE "retriever"]}

Grade ==
  LET seen == worker["grader"].seen IN
  /\ Working("grader") /\ seen.queue # <<>>
  /\ \E grade \in Sufficient(seen) \cup Partial(seen) \cup Irrelevant(seen) :
       session' = grade.state /\ HandOn("grader", grade.to)
  /\ misjudged' = (misjudged \/ seen.docs # Head(seen.queue))
  /\ UNCHANGED <<topic, crashes, ended>>

\* Variant: only a session that was stopped before is out of depth.
OutOfDepthNever(seen) == seen.stop

OutOfDepth(seen) == seen.stop \/ seen.depth > MaxDepth

\* A rule looks at the open tasks only.
RuleFires(seen) ==
  seen.hint /\ \A i \in 1 .. Len(seen.queue) : seen.queue[i] \notin {RuleTasks[k] : k \in 1 .. Len(RuleTasks)}

\* Replanner: out of depth, the session is closed with what there is.
ForceStop ==
  LET seen == worker["replanner"].seen IN
  /\ Working("replanner") /\ OutOfDepth(seen)
  /\ session' = [seen EXCEPT !.queue = <<>>, !.fails = 0, !.stop = TRUE]
  /\ HandOn("replanner", "reasoner")
  /\ UNCHANGED <<topic, crashes, ended, misjudged>>

\* The rule's tasks go first; the depth is not counted.
HardRule ==
  LET seen == worker["replanner"].seen IN
  /\ Working("replanner") /\ ~OutOfDepth(seen) /\ RuleFires(seen)
  /\ Len(seen.queue) + Len(RuleTasks) <= MaxQueue
  /\ session' = [seen EXCEPT !.queue = RuleTasks \o @, !.fails = 0, !.docs = NoDocs]
  /\ HandOn("replanner", "retriever")
  /\ UNCHANGED <<topic, crashes, ended, misjudged>>

\* generate_new_plan: the model replaces the first task (the whole question when there is
\* none left); an answer that cannot be used leaves it as it is, and if the model cannot be
\* reached one broad question takes its place.
Replacements(seen) ==
  LET first == IF seen.queue = <<>> THEN "question" ELSE Head(seen.queue)
  IN {[i \in 1 .. n |-> first] : n \in 0 .. MaxNew} \cup {<<"question">>}
Rest(q) == IF q = <<>> THEN q ELSE Tail(q)

Replan ==
  LET seen == worker["replanner"].seen IN
  /\ Working("replanner") /\ ~OutOfDepth(seen) /\ ~RuleFires(seen)
  /\ \E new \in Replacements(seen) :
       /\ Len(new \o Rest(seen.queue)) <= MaxQueue
       /\ session' = [seen EXCEPT !.queue = new \o Rest(@), !.fails = 0,
                                  !.depth = @ + 1, !.docs = NoDocs]
       /\ HandOn("replanner", IF new \o Rest(seen.queue) = <<>> THEN "reasoner" ELSE "retriever")
  /\ UNCHANGED <<topic, crashes, ended, misjudged>>

\* Reasoner: with a task still open it raises (which is Quarantine), else it writes the report.
Report ==
  LET seen == worker["reasoner"].seen IN
  /\ Working("reasoner") /\ seen.queue = <<>>
  /\ session' = [seen EXCEPT !.status = "completed"]
  /\ worker' = [worker EXCEPT !["reasoner"] = [Idle EXCEPT !.pc = "sent"]]
  /\ ended' = TRUE
  /\ UNCHANGED <<topic, crashes, misjudged>>

-----------------------------------------------------------------------------

Work == Plan \/ Retrieve \/ Grade \/ ForceStop \/ HardRule \/ Replan \/ Report
        \/ \E s \in Stages : NothingLeft(s)

Deliver == \E s \in Stages : Load(s) \/ Skip(s) \/ Send(s) \/ Commit(s)

Next ==
  \/ Work \/ Deliver \/ Expire
  \/ \E s \in Stages : Quarantine(s) \/ Crash(s)

Spec == Init /\ [][Next]_vars

Step(s) ==
  \/ Load(s) \/ Skip(s) \/ Send(s) \/ Commit(s) \/ Quarantine(s) \/ NothingLeft(s)
  \/ s = "planner" /\ Plan
  \/ s = "retriever" /\ Retrieve
  \/ s = "grader" /\ Grade
  \/ s = "replanner" /\ (ForceStop \/ HardRule \/ Replan)
  \/ s = "reasoner" /\ Report

\* Every worker runs, and is started again when it died.
FairSpec == Spec /\ \A s \in Stages : WF_vars(Step(s))

-----------------------------------------------------------------------------
(* Properties                                                               *)

States == [queue : Seq(Names), docs : Names \cup {NoDocs}, fails : Nat,
           depth : 0 .. MaxDepth + 1, stop : BOOLEAN, hint : BOOLEAN,
           status : {"absent", "open", "completed"}]

\* The state keeps its shape and the depth its limit, whichever copy is written back.
PipelineTypeOK ==
  /\ session \in States
  /\ worker \in [Stages -> [pc : {"idle", "working", "saved", "sent"}, seen : States,
                            target : Stages \cup {Nobody}]]
  /\ topic \in [Stages -> Int]

\* "The consumer commits by hand, so that everything is processed at least once": whoever
\* dies where, a session that has no report, was not quarantined and did not expire still
\* has a message on its way.
BatonKept == ~ended => \E s \in Stages : topic[s] > 0

\* "task_queue[0] and past_observations[-1] must belong to the same task": as long as nothing
\* is delivered twice the session is in one place, and every task is graded by the documents
\* retrieved for it.  Once a worker died between save and commit neither holds any more:
\* what it does again it does to the state it had already changed.
OnTheWay == [s \in Stages |-> IF worker[s].pc = "sent" THEN topic[s] - 1 ELSE topic[s]]
Total(f) == f["planner"] + f["retriever"] + f["grader"] + f["replanner"] + f["reasoner"]
StrictHandover == crashes = 0 => Total(OnTheWay) <= 1 /\ ~misjudged

\* As long as nothing is delivered twice a session ends, unless the hard rules keep adding
\* their tasks for ever: they are not counted as depth, and look at open tasks only.
\* (With two messages on their way even the counting of failures can be undone for ever,
\* each worker writing back the copy it loaded before the other one counted.)
SessionEnds == <>(crashes > 0) \/ []<><<HardRule>>_vars \/ <>ended

=============================================================================
