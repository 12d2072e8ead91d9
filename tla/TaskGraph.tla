----------------------------- MODULE TaskGraph ------------------------------
(***************************************************************************)
(* The plan-and-replan workflow of one run: legal_agent/workflow.py (the   *)
(* graph), nodes.py (its nodes), scheduling.py (execute_ready and          *)
(* replan_pending), replanner_rules.py, over the tool ledger and the       *)
(* node_steps budget of agent_runtime.                                     *)
(*                                                                         *)
(* The workflow's state is what LangGraph checkpoints after a node.  A     *)
(* node that is interrupted (a crash, an exception followed by a retry)    *)
(* starts again from that state; what its branches already recorded in the *)
(* ledger is reused.  What a branch finds out is chosen by its Reasoner:   *)
(* here any of the grades, a question to the user, and any rule its        *)
(* observation may trigger.                                                *)
(*                                                                         *)
(* A wording is reduced to what is compared: whether it is the one a rule  *)
(* proposes, and the rule keywords it contains.  What a model rewords may  *)
(* contain any of them or none, but is not a rule's own wording to the     *)
(* letter.  An answer is named by the task it was given for.               *)
(***************************************************************************)
EXTENDS Naturals, FiniteSets, Sequences, SequencesExt

CONSTANTS
  Drafts,         \* what the planning model may return: a skeleton of nodes [name, deps],
                  \* a flat list of so many steps, or something else
  Alphabet,       \* the names of tasks in their sorting order
  Observable,     \* the hard rules whose trigger an observation of this instance may hold
  Mentions,       \* <<name, rule>>: what is planned under this name has the keyword of this rule
  NoTask,
  MaxDepth,       \* agent.max_recursion_depth
  MaxParallel,    \* scheduler.max_parallel_tasks
  Threshold,      \* agent.wormhole_threshold
  MaxTries,       \* sandbox.max_retries
  NodeSteps,      \* budgets.node_steps
  Rewordings      \* what the replanning model may return: of each new task, the rules
                  \* whose keywords its wording has

ASSUME DraftsAssumption ==
  /\ Alphabet \in Seq(STRING)
  /\ \A i \in 1 .. Len(Alphabet), j \in 1 .. Len(Alphabet) : Alphabet[i] = Alphabet[j] => i = j
  /\ \A d \in Drafts :
       \/ d.format = "skeleton" /\ d.nodes \in Seq([name : Range(Alphabet), deps : Seq(STRING)])
       \/ d.format = "flat" /\ d.steps \in 0 .. Len(Alphabet)
       \/ d.format = "other"
ASSUME LimitsAssumption ==
  /\ MaxDepth \in Nat \ {0} /\ MaxParallel \in Nat \ {0} /\ MaxTries \in Nat \ {0}
  /\ Threshold \in Nat /\ NodeSteps \in Nat \ {0}

VARIABLES
  at,        \* the next node, or how the run ended
  queue, completed, retry, question, scoped, results, depth, stop, failing, tries,
             \* task_queue, completed_tasks, task_retry_contexts, pending_task_id,
             \* task_user_facts, task_results, recursion_depth, retry_context force_stop,
             \* execution_status budget_exhausted or calculation_failed, sandbox_retries
  hints,     \* the rules whose trigger occurs in past_observations
  batch,     \* the outcomes of the branches of the running Executor, per task id
  ledger,    \* effects: recorded outcomes of task.execute
  steps,     \* usage.node_steps
  solved     \* how often a task was really found sufficient (observed only)

tasks == <<queue, completed, retry, results>>
user  == <<question, scoped>>
vars  == <<at, tasks, user, depth, stop, failing, tries, hints, batch, ledger, steps, solved>>

-----------------------------------------------------------------------------
(* Tasks *)

Id(name)  == <<name, <<>>>>

\* What of a sequence is in a set, in order.
Only(s, S) ==
  LET keep[n \in 0 .. Len(s)] ==
        IF n = 0 THEN <<>> ELSE IF s[n] \in S THEN Append(keep[n - 1], s[n]) ELSE keep[n - 1]
  IN  keep[Len(s)]

\* parse_double_layer_plan: the steps of a flat list wait for nothing.
Skeleton(draft) ==
  IF draft.format = "flat"
  THEN [i \in 1 .. draft.steps |-> [name |-> Alphabet[i], deps |-> <<>>]]
  ELSE draft.nodes

\* topological_order: what waits for nothing, sorted, then whatever its last dependency sets
\* free, first in first out.
Peel(nodes, s) ==
  LET next == Head(s.open)
      left == [n \in DOMAIN s.left |-> IF next \in Range(n.deps) THEN s.left[n] - 1 ELSE s.left[n]]
      freed == Only(nodes, {n \in Range(nodes) : next \in Range(n.deps) /\ left[n] = 0})
  IN  [open |-> Tail(s.open) \o [i \in 1 .. Len(freed) |-> freed[i].name],
       left |-> left, order |-> Append(s.order, next)]

TopologicalOrder(nodes) ==
  LET roots == {n.name : n \in {m \in Range(nodes) : m.deps = <<>>}}
      run[k \in 0 .. Len(nodes)] ==
        IF k = 0 THEN [open |-> Only(Alphabet, roots),
                       left |-> [n \in Range(nodes) |-> Len(n.deps)], order |-> <<>>]
        ELSE IF run[k - 1].open = <<>> THEN run[k - 1] ELSE Peel(nodes, run[k - 1])
  IN  run[Len(nodes)].order

\* validate_dag: names are unique, dependencies known, and the order reaches every node;
\* one that names the same dependency twice is taken for part of a cycle.
Acceptable(nodes) ==
  /\ Cardinality({n.name : n \in Range(nodes)}) = Len(nodes)
  /\ \A n \in Range(nodes) : Range(n.deps) \subseteq {m.name : m \in Range(nodes)}
  /\ Len(TopologicalOrder(nodes)) = Len(nodes)

\* generate_plan: a draft that cannot be read, is refused or is empty ends the attempt.
Usable(draft) ==
  draft.format # "other" /\ Skeleton(draft) # <<>> /\ Acceptable(Skeleton(draft))

\* The hard rules; tagged says whether the rule's own tasks contain the keyword whose
\* absence from the plan lets it fire.  The first one looks for "double wages" and adds
\* tasks that say "two-fold wages".
RuleTable ==
  <<[name |-> "contract", tagged |-> FALSE], [name |-> "injury", tagged |-> TRUE],
    [name |-> "social", tagged |-> TRUE], [name |-> "overtime", tagged |-> TRUE],
    [name |-> "noncompete", tagged |-> TRUE], [name |-> "probation", tagged |-> TRUE],
    [name |-> "dispatch", tagged |-> TRUE]>>

Rules == Only(RuleTable, {r \in Range(RuleTable) : r.name \in Observable})

RuleNames == {Rules[i].name : i \in 1 .. Len(Rules)}

ASSUME RewordingsAssumption == \A said \in Rewordings : said \in Seq(SUBSET RuleNames) /\ said # <<>>

\* What is planned under a name says what it says: it may contain the keyword of a rule.
Task(name, deps) ==
  [id |-> Id(name), deps |-> {Id(d) : d \in deps}, rev |-> 0, text |-> "planned",
   words |-> {r \in RuleNames : <<name, r>> \in Mentions}]

Planned(draft) ==
  LET nodes == Skeleton(draft)
      order == TopologicalOrder(nodes)
      node(name) == CHOOSE n \in Range(nodes) : n.name = name
  IN  [i \in 1 .. Len(order) |-> Task(order[i], Range(node(order[i]).deps))]

\* A simple question is one task; the model plans the others.
Plans == {<<Task("direct", {})>>} \cup {Planned(d) : d \in {x \in Drafts : Usable(x)}}

\* A rule has two tasks; the identity of one is made from its wording.
Halves == 1 .. 2
Wording(rule, half) == rule.name \o IF half = 1 THEN "first" ELSE "second"
RuleId(rule, half)  == <<rule.name, <<<<half, 0>>>>>>

\* An identity is the name something was planned under, and how it came out of that.
Names      == Range(Alphabet) \cup {"direct"} \cup RuleNames
Identities == Names \X Seq(Nat \X Nat)

ASSUME NoTaskAssumption == NoTask \notin Identities

Ids(q)  == {q[i].id : i \in 1 .. Len(q)}
Done    == {t.id : t \in completed}

\* validate_plan.  A cycle is a set of tasks each of which waits for another one of it.
Valid(q, done) ==
  /\ Cardinality(Ids(q)) = Len(q) /\ done \cap Ids(q) = {}
  /\ \A t \in Range(q) : t.deps \subseteq done \cup Ids(q)
  /\ ~ \E S \in (SUBSET Range(q)) \ {{}} : \A t \in S : t.deps \cap {s.id : s \in S} # {}

Ready == Only(queue, {t \in Range(queue) : t.deps \subseteq Done})
AtMost(a, b)   == IF a < b THEN a ELSE b

\* Variant: only the number of threads limits a batch.
SelectedUnlimited == SubSeq(Ready, 1, AtMost(Len(Ready), MaxParallel))

Selected == SubSeq(Ready, 1, AtMost(Len(Ready), AtMost(MaxParallel, MaxDepth - depth)))
Running  == [i \in 1 .. Len(Selected) |-> Selected[i].id]

At(f, key, default) == IF key \in DOMAIN f THEN f[key] ELSE default

\* Variant: only what was answered for the task and its direct dependencies.
FactsForDirect(t) == At(scoped, t.id, {}) \cup UNION {At(scoped, d, {}) : d \in t.deps}

\* user_facts_for: the answers given for the task, and what its dependencies were given
\* or had been passed on.
FactsFor(t) == At(scoped, t.id, {})
               \cup UNION {At(scoped, d, {}) \cup At(results, d, {}) : d \in t.deps}

Fresh == [status |-> "none", fails |-> 0]

\* The identity of a branch's tool call: node, step, task, revision and inputs.
Key(t) == [step |-> depth, task |-> t, facts |-> FactsFor(t), retry |-> At(retry, t.id, Fresh)]

Kinds == {"sufficient", "partial", "irrelevant", "ask"}
\* A branch that asks observes nothing.
Outcomes == {o \in [kind : Kinds, hints : SUBSET RuleNames] : o.kind = "ask" => o.hints = {}}

-----------------------------------------------------------------------------

\* How a run ends: refused and invalid are exceptions of a node that recur on every retry.
Ended == {"succeeded", "failed", "refused", "invalid", "timed_out"}

Init ==
  /\ at = "L0_Gateway"
  /\ queue = <<>> /\ completed = {} /\ retry = <<>> /\ results = <<>>
  /\ question = NoTask /\ scoped = <<>>
  /\ depth = 0 /\ stop = FALSE /\ failing = FALSE /\ tries = 0
  /\ hints = {} /\ batch = <<>> /\ ledger = {} /\ steps = 0 /\ solved = <<>>

\* Variant: a node that starts again is not charged.
EnterFree(node) == at = node /\ steps < NodeSteps /\ UNCHANGED steps

\* begin_node: every start of a node costs a step, and the budget is never refilled.
\* AwaitInput starts again with the answer.
Enter(node) == at = node /\ steps < NodeSteps /\ steps' = steps + 1

Exhausted ==
  /\ at \notin Ended \cup {"Merge"}
  /\ steps = NodeSteps
  /\ at' = "timed_out"
  /\ UNCHANGED <<tasks, user, depth, stop, failing, tries, hints, batch, ledger, steps, solved>>

\* The gateway refuses what looks like an injection; a greeting needs no plan.
Greeting ==
  /\ Enter("L0_Gateway")
  /\ at' \in {"Planner", "Generate", "refused"}
  /\ UNCHANGED <<tasks, user, depth, stop, failing, tries, hints, batch, ledger, solved>>

Planner ==
  /\ Enter("Planner")
  /\ \/ queue' \in Plans /\ at' = "Executor"
     \/ (\E d \in Drafts : ~Usable(d)) /\ at' = "refused" /\ UNCHANGED queue
  /\ UNCHANGED <<completed, retry, results, user, depth, stop, failing, tries, hints, batch,
                 ledger, solved>>

\* Variant: the run ends without saying that it ran out of passes.
OutOfDepthSilently ==
  /\ stop' = TRUE /\ UNCHANGED failing
  /\ at' = "Replanner" /\ UNCHANGED batch

OutOfDepth ==
  /\ stop' = TRUE /\ failing' = TRUE
  /\ at' = "Replanner" /\ UNCHANGED batch

\* execute_ready up to the thread pool.
Executor ==
  /\ Enter("Executor")
  /\ \/ Valid(queue, Done) = FALSE /\ at' = "invalid" /\ UNCHANGED <<batch, stop, failing>>
     \/ Valid(queue, Done) /\ depth >= MaxDepth /\ OutOfDepth
     \/ /\ Valid(queue, Done) /\ depth < MaxDepth
        /\ at' = "Merge" /\ batch' = <<>> /\ UNCHANGED <<stop, failing>>
  /\ UNCHANGED <<tasks, user, depth, tries, hints, ledger, solved>>

\* Variant: every start of the branch asks the Reasoner.
BranchRecomputes(t) ==
  /\ steps < NodeSteps /\ steps' = steps + 1
  /\ \E o \in Outcomes :
       /\ batch' = [id \in DOMAIN batch \cup {t.id} |-> IF id = t.id THEN o ELSE batch[id]]
       /\ ledger' = ledger \cup {[key |-> Key(t), outcome |-> o]}
       /\ solved' = [id \in DOMAIN solved \cup {t.id} |->
            At(solved, id, 0) + IF id = t.id /\ o.kind = "sufficient" THEN 1 ELSE 0]

\* One branch: a recorded outcome is taken over, otherwise the Reasoner is asked and its
\* outcome is recorded.  The branches of a batch run side by side.
Branch(t) ==
  \/ /\ \E entry \in ledger :
          /\ entry.key = Key(t)
          /\ batch' = [id \in DOMAIN batch \cup {t.id} |->
                         IF id = t.id THEN entry.outcome ELSE batch[id]]
     /\ UNCHANGED <<ledger, steps, solved>>
  \/ /\ \A entry \in ledger : entry.key # Key(t)
     /\ steps < NodeSteps /\ steps' = steps + 1
     /\ \E o \in Outcomes :
          /\ batch' = [id \in DOMAIN batch \cup {t.id} |-> IF id = t.id THEN o ELSE batch[id]]
          /\ ledger' = ledger \cup {[key |-> Key(t), outcome |-> o]}
          /\ solved' = [id \in DOMAIN solved \cup {t.id} |->
               At(solved, id, 0) + IF id = t.id /\ o.kind = "sufficient" THEN 1 ELSE 0]

RunBranch ==
  /\ at = "Merge"
  /\ \E t \in Range(Selected) : t.id \notin DOMAIN batch /\ Branch(t)
  /\ UNCHANGED <<at, tasks, user, depth, stop, failing, tries, hints>>

\* A branch finds the budget exhausted.
BranchExhausted ==
  /\ at = "Merge" /\ steps = NodeSteps
  /\ \E t \in Range(Selected) : t.id \notin DOMAIN batch /\ \A entry \in ledger : entry.key # Key(t)
  /\ at' = "timed_out"
  /\ UNCHANGED <<tasks, user, depth, stop, failing, tries, hints, batch, ledger, steps, solved>>

\* The process dies or a branch raises: the batch is forgotten, the ledger is not.  The
\* branches that had begun have each consumed a step.
Interrupt ==
  /\ at = "Merge"
  /\ at' = "Executor" /\ batch' = <<>>
  /\ \E begun \in 0 .. Len(Selected) - Cardinality(DOMAIN batch) :
       steps' = AtMost(steps + begun, NodeSteps)
  /\ UNCHANGED <<tasks, user, depth, stop, failing, tries, hints, ledger, solved>>

KindOf(t)     == IF t.id \in DOMAIN batch THEN batch[t.id].kind ELSE "waiting"
Unsolved(t)   == KindOf(t) \in {"partial", "irrelevant"}

\* What is missing is written behind the first 40 characters of the wording: a rule's own
\* wording is shorter and keeps its keyword, of any other the keywords may be cut off.
Short(t)      == t.text \notin {"planned", "reworded"}
Supplement(t, said) ==
  IF ~Unsolved(t) THEN t
  ELSE [t EXCEPT !.text = IF Short(t) THEN "supplemented" ELSE "reworded",
                 !.words = IF Short(t) THEN said \cup (@ \cap {t.id[1]}) ELSE said]

\* Variant: a finished task leaves the queue, but not into completed_tasks.
MergeForgets == [done |-> {}, rest |-> Only(queue, {t \in Range(queue) : KindOf(t) # "sufficient"})]

\* What the coordinator makes of a finished batch, in the order of the queue.
Merged ==
  [done |-> {t \in Range(queue) : KindOf(t) = "sufficient"},
   rest |-> Only(queue, {t \in Range(queue) : KindOf(t) # "sufficient"})]

Asking == Only(queue, {t \in Range(queue) : KindOf(t) = "ask"})

Merge ==
  LET done == {t.id : t \in Merged.done} IN
  /\ at = "Merge" /\ DOMAIN batch = Range(Running)
  /\ completed' = completed \cup Merged.done
  /\ \E said \in [{t.id : t \in {u \in Range(queue) : Unsolved(u)}} -> SUBSET RuleNames] :
       queue' = [i \in 1 .. Len(Merged.rest) |->
                   Supplement(Merged.rest[i], At(said, Merged.rest[i].id, {}))]
  /\ results' = [id \in DOMAIN results \cup done |->
       IF id \in done THEN FactsFor(CHOOSE t \in Range(queue) : t.id = id) ELSE results[id]]
  /\ retry' = [id \in (DOMAIN retry \ done) \cup {t.id : t \in {u \in Range(queue) : Unsolved(u)}} |->
       IF id \in DOMAIN batch /\ batch[id].kind \in {"partial", "irrelevant"}
       THEN [status |-> batch[id].kind, fails |-> At(retry, id, Fresh).fails + 1]
       ELSE retry[id]]
  /\ hints' = hints \cup UNION {batch[id].hints : id \in {i \in DOMAIN batch : batch[i].kind # "ask"}}
  /\ depth' = depth + Len(Selected)
  /\ question' = IF Asking = <<>> THEN NoTask ELSE Head(Asking).id
  /\ at' = IF Asking = <<>> THEN "Replanner" ELSE "AwaitInput"
  /\ batch' = <<>>
  \* no later branch can have these keys any more
  /\ ledger' = {entry \in ledger : entry.key.step >= depth'}
  /\ UNCHANGED <<scoped, stop, failing, tries, steps, solved>>

\* AwaitInput interrupts the run; when the answer is there the node runs again.
AskUser ==
  /\ Enter("AwaitInput")
  /\ at' = "asked"
  /\ UNCHANGED <<tasks, user, depth, stop, failing, tries, hints, batch, ledger, solved>>

Answer ==
  /\ Enter("asked")
  /\ scoped' = [id \in DOMAIN scoped \cup {question} |->
       IF id = question THEN At(scoped, id, {}) \cup {question} ELSE scoped[id]]
  /\ question' = NoTask
  /\ at' = "Executor"
  /\ UNCHANGED <<tasks, depth, stop, failing, tries, hints, batch, ledger, solved>>

-----------------------------------------------------------------------------
(* Replanner *)

NeedsReplan(t) ==
  LET r == At(retry, t.id, Fresh) IN
  r.status = "irrelevant" \/ (r.status = "partial" /\ r.fails > Threshold)

\* node_replanner on a branch that failed: new tasks in a row, in the model's words, the
\* last of which keeps the identity the others depend on.
Replaced(t, said) ==
  LET new(i) == IF i = Len(said) THEN t.id ELSE <<t.id[1], Append(t.id[2], <<t.rev, i>>)>> IN
  [i \in 1 .. Len(said) |->
    [id |-> new(i), deps |-> IF i = 1 THEN t.deps ELSE {new(i - 1)},
     rev |-> t.rev + 1, text |-> "reworded", words |-> said[i]]]

Revised(t, said) ==
  IF t.id \notin DOMAIN retry THEN <<t>>
  ELSE IF NeedsReplan(t) THEN Replaced(t, said)
  ELSE <<[t EXCEPT !.rev = @ + 1]>>

\* apply_hard_rules: a rule fires when its trigger was observed and no task, open or
\* done, has its keyword.
Fires(rule, q) ==
  /\ rule.name \in hints
  /\ \A t \in Range(q) \cup completed : rule.name \notin t.words

\* Its tasks, but for those whose wording is already in the plan.
Proposed(rule, q) ==
  Only(<<1, 2>>, {half \in Halves :
    \A t \in Range(q) \cup completed : t.text # Wording(rule, half)})

RuleTask(rule, half, deps) ==
  [id |-> RuleId(rule, half), deps |-> deps, rev |-> 0, text |-> Wording(rule, half),
   words |-> IF rule.tagged THEN {rule.name} ELSE {}]

Additions(q) ==
  FlattenSeq([i \in 1 .. Len(Rules) |->
    IF ~Fires(Rules[i], q) THEN <<>>
    ELSE [k \in 1 .. Len(Proposed(Rules[i], q)) |-> [rule |-> Rules[i], half |-> Proposed(Rules[i], q)[k]]]])

\* They run one after the other, after everything that is already done.
Chained(added) ==
  [i \in 1 .. Len(added) |->
    RuleTask(added[i].rule, added[i].half,
             IF i = 1 THEN Done ELSE {RuleId(added[i - 1].rule, added[i - 1].half)})]

\* What the model returns for each task it is asked to plan anew.
Replies == [{t.id : t \in {u \in Range(queue) : NeedsReplan(u)}} -> Rewordings]

\* replan_pending: the failed tasks are replaced where they stand, the rules see the result.
Replans ==
  LET Replan(said) == FlattenSeq([i \in 1 .. Len(queue) |-> Revised(queue[i], At(said, queue[i].id, <<{}>>))])
  IN  {q \o Chained(Additions(q)) : q \in {Replan(said) : said \in Replies}}

Replanner ==
  /\ Enter("Replanner")
  /\ \/ stop /\ queue' = <<>> /\ at' = "Generate" /\ UNCHANGED retry
     \/ /\ ~stop
        /\ \E plan \in Replans :
             /\ queue' = plan
             /\ at' = IF Valid(plan, Done) THEN IF plan = <<>> THEN "Generate" ELSE "Executor"
                      ELSE "invalid"
        /\ retry' = [id \in DOMAIN retry |->
             IF \E t \in Range(queue) : t.id = id /\ NeedsReplan(t) THEN Fresh ELSE retry[id]]
  /\ UNCHANGED <<completed, results, user, depth, stop, failing, tries, hints, batch, ledger,
                 solved>>

-----------------------------------------------------------------------------
(* The report and the calculation *)

Generate ==
  /\ Enter("Generate")
  /\ at' \in {"WriteCode", "Cleanup"} /\ tries' = 0
  /\ UNCHANGED <<tasks, user, depth, stop, failing, hints, batch, ledger, solved>>

WriteCode ==
  /\ Enter("WriteCode")
  /\ at' = "ExecuteCode"
  /\ UNCHANGED <<tasks, user, depth, stop, failing, tries, hints, batch, ledger, solved>>

\* node_execute_code and route_after_execute: an error of the code is tried again, an
\* unavailable sandbox or the last error ends in calculation_failed.  Where the model wrote
\* no code it is asked again, and no try is counted.
ExecuteCode ==
  /\ Enter("ExecuteCode")
  /\ \/ at' = "InjectResult" /\ UNCHANGED <<tries, failing>>
     \/ tries < MaxTries /\ at' = "WriteCode" /\ UNCHANGED <<tries, failing>>
     \/ tries + 1 < MaxTries /\ tries' = tries + 1 /\ at' = "WriteCode" /\ UNCHANGED failing
     \/ tries' = MaxTries /\ at' = "InjectResult" /\ failing' = TRUE
  /\ UNCHANGED <<tasks, user, depth, stop, hints, batch, ledger, solved>>

InjectResult ==
  /\ Enter("InjectResult")
  /\ at' = "Cleanup"
  /\ UNCHANGED <<tasks, user, depth, stop, failing, tries, hints, batch, ledger, solved>>

\* The last node, and the verdict of AgentService.execute.
Cleanup ==
  /\ Enter("Cleanup")
  /\ at' = IF failing THEN "failed" ELSE "succeeded"
  /\ UNCHANGED <<tasks, user, depth, stop, failing, tries, hints, batch, ledger, solved>>

Progress ==
  \/ Greeting \/ Planner \/ Executor \/ RunBranch \/ Merge \/ BranchExhausted \/ Exhausted
  \/ AskUser \/ Replanner
  \/ Generate \/ WriteCode \/ ExecuteCode \/ InjectResult \/ Cleanup

Next == Progress \/ Answer \/ Interrupt

Spec == Init /\ [][Next]_vars

\* A run that is not waiting for its user is executed until it ends.
FairSpec == Spec /\ WF_vars(Progress)

-----------------------------------------------------------------------------
(* Properties *)

AllIds == Ids(queue) \cup Done
TaskSet == Range(queue) \cup completed

\* Every variable stays in its range.
GraphTypeOK ==
  /\ at \in {"L0_Gateway", "Planner", "Executor", "Merge", "AwaitInput", "asked", "Replanner",
             "Generate", "WriteCode", "ExecuteCode", "InjectResult", "Cleanup"} \cup Ended
  /\ depth \in 0 .. MaxDepth /\ steps \in 0 .. NodeSteps /\ tries \in 0 .. MaxTries
  /\ question \in AllIds \cup {NoTask} /\ (at \in {"AwaitInput", "asked"} => question # NoTask)
  /\ DOMAIN results = Done
  /\ hints \subseteq RuleNames
  /\ DOMAIN batch \subseteq Range(Running)

\* A rule added a task again that is open or done, because its first instance, or another one
\* with the keyword, was reworded since.
RuleRepeats(q, done) ==
  \E i \in 1 .. Len(q), rule \in Range(Rules), half \in Halves :
    /\ q[i].id = RuleId(rule, half) /\ q[i].text = Wording(rule, half)
    /\ \E t \in done \cup {q[j] : j \in 1 .. i - 1} : t.id = q[i].id /\ t.text # q[i].text

\* Replanning never breaks the plan: identities stay unique, dependencies known and without a
\* circle, and while something is left to do something can be done.  validate_plan refuses a
\* plan for one reason only: a rule that does not see what became of its task any more.
PlanStaysSound ==
  /\ at \in {"Executor", "Merge"} => Valid(queue, Done) /\ Ready # <<>>
  /\ at = "invalid" => RuleRepeats(queue, completed)

\* A task that was solved is never given to the Reasoner again: not on the resumption
\* after a sibling's question, not after a crash between record and merge.
SolvedOnce == \A id \in DOMAIN solved : solved[id] <= 1

\* What a task waits for, directly or not.
Ancestors(t) ==
  LET closed == {S \in SUBSET AllIds :
                   t.deps \subseteq S /\ \A u \in TaskSet : u.id \in S => u.deps \subseteq S}
  IN  {a \in AllIds : \A S \in closed : a \in S}

\* An answer of the user reaches the task it was asked for and the tasks that depend on
\* it, and no other.
AnswersFollowDependencies ==
  at = "Merge" => \A t \in Range(Selected) :
    FactsFor(t) = {id \in DOMAIN scoped : id = t.id \/ id \in Ancestors(t)}

\* A run does not succeed with work left: neither open tasks nor a task of the plan that
\* was dropped on the way.
SuccessIsWhole ==
  at = "succeeded" => /\ queue = <<>> /\ ~stop /\ DOMAIN retry = {}
                      /\ DOMAIN scoped \subseteq Done
                      /\ depth = 0 \/ \E p \in Plans : Ids(p) \subseteq Done

\* "Deterministic IDs prevent duplicate additions after recovery/replanning": no task is
\* in the plan twice, nor again once it is done.  Not kept: a rule whose tasks do not
\* contain the keyword it looks for, or not any more since they were reworded, fires again,
\* and a task it added that was reworded is added again under the same identity.
RulesAddOnce == Cardinality(Ids(queue)) = Len(queue) /\ Ids(queue) \cap Done = {}

\* A run ends or waits for its user, however its branches turn out.
RunEnds == <>(at \in Ended \cup {"asked"})

=============================================================================
