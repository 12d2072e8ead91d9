------------------------ MODULE LegacyPipelineProofs ------------------------
(***************************************************************************)
(* Proofs about the Kafka and Redis pipeline, for any plans, any rule and  *)
(* any limits.  PipelineTypeOK is inductive.  For the other two the        *)
(* messages are counted as OnTheWay counts them: one that its worker has   *)
(* passed on but not committed yet is not counted any more.                *)
(***************************************************************************)
EXTENDS LegacyPipeline, TLAPS

-----------------------------------------------------------------------------
(* Types                                                                    *)

LEMMA AbsentTyped == Absent \in States /\ New \in States
  <1>1. <<>> \in Seq(Names) /\ 0 \in 0 .. MaxDepth + 1
    BY PipelineAssumption
  <1> QED  BY <1>1 DEF Absent, New, States

LEMMA SeenTyped ==
  ASSUME PipelineTypeOK, NEW s \in Stages
  PROVE  worker[s].seen \in States
  BY DEF PipelineTypeOK

\* A worker that saved has an idle copy and a target.
LEMMA HandOnTyped ==
  ASSUME PipelineTypeOK, NEW s \in Stages, NEW t \in Stages, HandOn(s, t)
  PROVE  worker' \in [Stages -> [pc : {"idle", "working", "saved", "sent"}, seen : States,
                                 target : Stages \cup {Nobody}]]
  BY AbsentTyped DEF HandOn, PipelineTypeOK, Idle

LEMMA OneMore ==
  ASSUME NEW S, NEW f \in [S -> Int], NEW t
  PROVE  [f EXCEPT ![t] = f[t] + 1] \in [S -> Int]
  <1>1. CASE t \in S     BY <1>1
  <1>2. CASE t \notin S  BY <1>2
  <1> QED  BY <1>1, <1>2

\* Taking a message, settling it and losing it.
LEMMA DeliveryTyped ==
  ASSUME PipelineTypeOK, NEW s \in Stages,
         Load(s) \/ Skip(s) \/ Send(s) \/ Commit(s) \/ Quarantine(s) \/ Crash(s)
  PROVE  PipelineTypeOK'
  <1> USE AbsentTyped DEF PipelineTypeOK, Idle
  <1>1. CASE Load(s)        BY <1>1 DEF Load
  <1>2. CASE Skip(s)        BY <1>2 DEF Skip
  <1>3. CASE Send(s)
    <2>1. topic' = [topic EXCEPT ![worker[s].target] = topic[worker[s].target] + 1]
      BY <1>3 DEF Send
    <2>2. topic' \in [Stages -> Int]
      BY <2>1, OneMore
    <2> QED  BY <1>3, <2>2 DEF Send
  <1>4. CASE Commit(s)      BY <1>4 DEF Commit
  <1>5. CASE Quarantine(s)  BY <1>5 DEF Quarantine
  <1>6. CASE Crash(s)       BY <1>6 DEF Crash
  <1> QED  BY <1>1, <1>2, <1>3, <1>4, <1>5, <1>6

\* The queues a worker writes.
LEMMA QueuesTyped ==
  ASSUME NEW q \in Seq(Names)
  PROVE  /\ q # <<>> => Head(q) \in Names /\ Tail(q) \in Seq(Names)
         /\ Rest(q) \in Seq(Names)
         /\ RuleTasks \o q \in Seq(Names)
  BY PipelineAssumption DEF Rest

LEMMA ReplacementsTyped ==
  ASSUME NEW seen \in States, NEW new \in Replacements(seen)
  PROVE  new \in Seq(Names) /\ new \o Rest(seen.queue) \in Seq(Names)
  <1>1. seen.queue \in Seq(Names) /\ Rest(seen.queue) \in Seq(Names)
    BY QueuesTyped DEF States
  <1> DEFINE first == IF seen.queue = <<>> THEN "question" ELSE Head(seen.queue)
  <1>2. first \in Names
    BY <1>1, QueuesTyped DEF Names
  <1>3. new \in Seq(Names)
    <2>1. CASE new = <<"question">>
      BY <2>1 DEF Names
    <2>2. CASE \E n \in 0 .. MaxNew : new = [i \in 1 .. n |-> first]
      BY <2>2, <1>2, PipelineAssumption
    <2> QED  BY <2>1, <2>2 DEF Replacements
  <1> QED  BY <1>1, <1>3

\* A field that is the value of a formula.
LEMMA BooleanField ==
  ASSUME NEW seen \in States, NEW q \in Seq(Names), NEW n \in Nat, NEW b
  PROVE  [seen EXCEPT !.queue = q, !.fails = n, !.hint = @ \/ b] \in States
  <1> DEFINE h == seen.hint \/ b
  <1>1. h \in BOOLEAN
    OBVIOUS
  <1> HIDE DEF h
  <1>2. [seen EXCEPT !.queue = q, !.fails = n, !.hint = h] \in States
    BY <1>1 DEF States
  <1> QED  BY <1>2 DEF h

LEMMA GradesTyped ==
  ASSUME NEW seen \in States, seen.queue # <<>>,
         NEW grade \in Sufficient(seen) \cup Partial(seen) \cup Irrelevant(seen)
  PROVE  /\ grade.state \in States
         /\ grade.to \in {"retriever", "replanner", "reasoner"}
  <1>1. Tail(seen.queue) \in Seq(Names)
    BY QueuesTyped DEF States
  <1>2. Counted(seen.fails) \in Nat
    BY DEF Counted, States
  <1>3. CASE grade \in Sufficient(seen)
    <2>1. PICK found \in BOOLEAN :
            grade = [state |-> [seen EXCEPT !.queue = Tail(@), !.fails = 0, !.hint = @ \/ found],
                     to |-> IF Tail(seen.queue) = <<>> THEN "reasoner" ELSE "retriever"]
      BY <1>3 DEF Sufficient
    <2>2. (seen.hint \/ found) \in BOOLEAN
      OBVIOUS
    <2> QED  BY <1>1, <2>1, <2>2, BooleanField
  <1>4. CASE grade \in Partial(seen)
    <2>1. PICK q \in {seen.queue, Tail(seen.queue)} :
            grade \in {[state |-> [seen EXCEPT !.queue = q, !.fails = Counted(@), !.hint = @ \/ found],
                        to |-> IF seen.fails + 1 > MaxRetries THEN "replanner" ELSE "retriever"] :
                          found \in BOOLEAN}
      BY <1>4 DEF Partial
    <2>2. PICK found \in BOOLEAN :
            grade = [state |-> [seen EXCEPT !.queue = q, !.fails = Counted(@), !.hint = @ \/ found],
                     to |-> IF seen.fails + 1 > MaxRetries THEN "replanner" ELSE "retriever"]
      BY <2>1
    <2>3. q \in Seq(Names)
      BY <1>1 DEF States
    <2> QED  BY <1>2, <2>2, <2>3, BooleanField
  <1>5. CASE grade \in Irrelevant(seen)  BY <1>2, <1>5 DEF Irrelevant, States
  <1> QED  BY <1>3, <1>4, <1>5

\* The work of the five workers.
LEMMA WorkTyped ==
  ASSUME PipelineTypeOK, Work
  PROVE  PipelineTypeOK'
  <1>1. CASE Plan
    <2> DEFINE seen == worker["planner"].seen
    <2>1. seen \in States  BY SeenTyped DEF Stages
    <2>2. PICK p \in Plans : session' = [seen EXCEPT !.queue = p, !.depth = 0]
      BY <1>1 DEF Plan
    <2>3. p \in Seq(Names) /\ 0 \in 0 .. MaxDepth + 1
      BY PipelineAssumption
    <2>4. session' \in States
      BY <2>1, <2>2, <2>3 DEF States
    <2> QED  BY <1>1, <2>4, HandOnTyped DEF Plan, PipelineTypeOK, Stages
  <1>2. CASE Retrieve
    <2> DEFINE seen == worker["retriever"].seen
    <2>1. seen \in States  BY SeenTyped DEF Stages
    <2>2. session' \in States
      BY <1>2, <2>1, QueuesTyped DEF Retrieve, States
    <2> QED  BY <1>2, <2>2, HandOnTyped DEF Retrieve, PipelineTypeOK, Stages
  <1>3. CASE Grade
    <2> DEFINE seen == worker["grader"].seen
    <2>1. seen \in States /\ seen.queue # <<>>  BY <1>3, SeenTyped DEF Stages, Grade
    <2>2. PICK grade \in Sufficient(seen) \cup Partial(seen) \cup Irrelevant(seen) :
            session' = grade.state /\ HandOn("grader", grade.to)
      BY <1>3 DEF Grade
    <2>3. session' \in States /\ grade.to \in Stages
      BY <2>1, <2>2, GradesTyped DEF Stages
    <2> QED  BY <1>3, <2>2, <2>3, HandOnTyped DEF Grade, PipelineTypeOK, Stages
  <1>4. CASE ForceStop
    <2> DEFINE seen == worker["replanner"].seen
    <2>1. seen \in States  BY SeenTyped DEF Stages
    <2>2. session' \in States
      BY <1>4, <2>1, <<>> \in Seq(Names) DEF ForceStop, States
    <2> QED  BY <1>4, <2>2, HandOnTyped DEF ForceStop, PipelineTypeOK, Stages
  <1>5. CASE HardRule
    <2> DEFINE seen == worker["replanner"].seen
    <2>1. seen \in States  BY SeenTyped DEF Stages
    <2>2. RuleTasks \o seen.queue \in Seq(Names)
      BY <2>1, QueuesTyped DEF States
    <2>3. session' \in States
      BY <1>5, <2>1, <2>2 DEF HardRule, States
    <2> QED  BY <1>5, <2>3, HandOnTyped DEF HardRule, PipelineTypeOK, Stages
  <1>6. CASE Replan
    <2> DEFINE seen == worker["replanner"].seen
    <2>1. seen \in States  BY SeenTyped DEF Stages
    <2>2. PICK new \in Replacements(seen) :
            /\ session' = [seen EXCEPT !.queue = new \o Rest(@), !.fails = 0,
                                       !.depth = @ + 1, !.docs = NoDocs]
            /\ HandOn("replanner", IF new \o Rest(seen.queue) = <<>> THEN "reasoner" ELSE "retriever")
      BY <1>6 DEF Replan
    <2>3. new \o Rest(seen.queue) \in Seq(Names)
      BY <2>1, ReplacementsTyped
    <2>4. seen.depth + 1 \in 0 .. MaxDepth + 1
      BY <1>6, <2>1, PipelineAssumption DEF Replan, OutOfDepth, States
    <2>5. session' \in States
      BY <2>1, <2>2, <2>3, <2>4 DEF States
    <2> QED  BY <1>6, <2>2, <2>5, HandOnTyped DEF Replan, PipelineTypeOK, Stages
  <1>7. CASE Report
    <2>1. worker["reasoner"].seen \in States  BY SeenTyped DEF Stages
    <2>2. session' \in States  BY <1>7, <2>1 DEF Report, States
    <2> QED  BY <1>7, <2>2, AbsentTyped DEF Report, PipelineTypeOK, Idle
  <1>8. CASE \E s \in Stages : NothingLeft(s)
    BY <1>8, HandOnTyped DEF NothingLeft, PipelineTypeOK, Stages
  <1> QED  BY <1>1, <1>2, <1>3, <1>4, <1>5, <1>6, <1>7, <1>8 DEF Work

\* The session's state keeps its shape and its depth the limit, for any plans, any rule and
\* any limits, whichever copy of it is written back.
THEOREM PipelineTyped == Spec => []PipelineTypeOK
  <1>1. Init => PipelineTypeOK
    BY AbsentTyped DEF Init, PipelineTypeOK, Idle, Stages
  <1>2. PipelineTypeOK /\ [Next]_vars => PipelineTypeOK'
    <2> SUFFICES ASSUME PipelineTypeOK, [Next]_vars PROVE PipelineTypeOK'
      OBVIOUS
    <2>1. CASE Work    BY <2>1, WorkTyped
    <2>2. CASE Deliver
      BY <2>2, DeliveryTyped DEF Deliver
    <2>3. CASE Expire
      BY <2>3, AbsentTyped DEF Expire, PipelineTypeOK
    <2>4. CASE \E s \in Stages : Quarantine(s) \/ Crash(s)
      BY <2>4, DeliveryTyped
    <2>5. CASE UNCHANGED vars
      BY <2>5 DEF vars, PipelineTypeOK
    <2> QED  BY <2>1, <2>2, <2>3, <2>4, <2>5 DEF Next
  <1> QED  BY <1>1, <1>2, PTL DEF Spec

-----------------------------------------------------------------------------
(* Messages on their way                                                    *)

\* A worker at work has a message that is still counted, and one that saved knows whom to
\* send to; so the count never falls below zero, and as long as the session has not ended
\* some message is counted.
Carried ==
  /\ \A s \in Stages : OnTheWay[s] >= 0
  /\ \A s \in Stages : worker[s].pc \in {"working", "saved"} => OnTheWay[s] >= 1
  /\ \A s \in Stages : worker[s].pc = "saved" => worker[s].target \in Stages
  /\ ~ended => \E s \in Stages : OnTheWay[s] >= 1

\* The last documents are those of the first task.
Matching == session.queue = <<>> \/ session.docs = Head(session.queue)

\* There is one message, whoever works holds the state as it is stored, and the grader is
\* sent a session whose last documents are those of its first task.
OneHand ==
  /\ Total(OnTheWay) <= 1
  /\ ~misjudged
  /\ \A s \in Stages : worker[s].pc = "working" => session = worker[s].seen
  /\ OnTheWay["grader"] >= 1 /\ worker["grader"].pc # "saved" => Matching
  /\ \A s \in Stages : worker[s].pc = "saved" /\ worker[s].target = "grader" => Matching

\* That is so until a worker dies.
Handover == crashes \in Nat /\ (crashes = 0 => OneHand)

\* Two messages that are counted are one too many.
LEMMA TwoAreTooMany ==
  ASSUME NEW f \in [Stages -> Int], \A t \in Stages : f[t] >= 0, Total(f) <= 1,
         NEW s \in Stages, f[s] >= 1
  PROVE  f[s] = 1 /\ \A t \in Stages \ {s} : f[t] = 0
  <1>1. /\ f["planner"] \in Int /\ f["retriever"] \in Int /\ f["grader"] \in Int
        /\ f["replanner"] \in Int /\ f["reasoner"] \in Int
    BY DEF Stages
  <1>2. /\ f["planner"] >= 0 /\ f["retriever"] >= 0 /\ f["grader"] >= 0
        /\ f["replanner"] >= 0 /\ f["reasoner"] >= 0
    BY DEF Stages
  <1>3. f["planner"] + f["retriever"] + f["grader"] + f["replanner"] + f["reasoner"] <= 1
    BY DEF Total
  <1>4. CASE s = "planner"
    <2>1. f["planner"] >= 1  BY <1>4
    <2>2. /\ f["planner"] = 1
          /\ f["retriever"] = 0 /\ f["grader"] = 0 /\ f["replanner"] = 0 /\ f["reasoner"] = 0
      BY <1>1, <1>2, <1>3, <2>1
    <2> QED  BY <1>4, <2>2 DEF Stages
  <1>5. CASE s = "retriever"
    <2>1. f["retriever"] >= 1  BY <1>5
    <2>2. /\ f["retriever"] = 1
          /\ f["planner"] = 0 /\ f["grader"] = 0 /\ f["replanner"] = 0 /\ f["reasoner"] = 0
      BY <1>1, <1>2, <1>3, <2>1
    <2> QED  BY <1>5, <2>2 DEF Stages
  <1>6. CASE s = "grader"
    <2>1. f["grader"] >= 1  BY <1>6
    <2>2. /\ f["grader"] = 1
          /\ f["planner"] = 0 /\ f["retriever"] = 0 /\ f["replanner"] = 0 /\ f["reasoner"] = 0
      BY <1>1, <1>2, <1>3, <2>1
    <2> QED  BY <1>6, <2>2 DEF Stages
  <1>7. CASE s = "replanner"
    <2>1. f["replanner"] >= 1  BY <1>7
    <2>2. /\ f["replanner"] = 1
          /\ f["planner"] = 0 /\ f["retriever"] = 0 /\ f["grader"] = 0 /\ f["reasoner"] = 0
      BY <1>1, <1>2, <1>3, <2>1
    <2> QED  BY <1>7, <2>2 DEF Stages
  <1>8. CASE s = "reasoner"
    <2>1. f["reasoner"] >= 1  BY <1>8
    <2>2. /\ f["reasoner"] = 1
          /\ f["planner"] = 0 /\ f["retriever"] = 0 /\ f["grader"] = 0 /\ f["replanner"] = 0
      BY <1>1, <1>2, <1>3, <2>1
    <2> QED  BY <1>8, <2>2 DEF Stages
  <1> QED  BY <1>4, <1>5, <1>6, <1>7, <1>8 DEF Stages

LEMMA FewerAreNotMore ==
  ASSUME NEW f \in [Stages -> Int], NEW g \in [Stages -> Int],
         \A t \in Stages : g[t] <= f[t], Total(f) <= 1
  PROVE  Total(g) <= 1
  <1>1. /\ f["planner"] \in Int /\ f["retriever"] \in Int /\ f["grader"] \in Int
        /\ f["replanner"] \in Int /\ f["reasoner"] \in Int
        /\ g["planner"] \in Int /\ g["retriever"] \in Int /\ g["grader"] \in Int
        /\ g["replanner"] \in Int /\ g["reasoner"] \in Int
    BY DEF Stages
  <1>2. /\ g["planner"] <= f["planner"] /\ g["retriever"] <= f["retriever"]
        /\ g["grader"] <= f["grader"] /\ g["replanner"] <= f["replanner"]
        /\ g["reasoner"] <= f["reasoner"]
    BY DEF Stages
  <1> QED  BY <1>1, <1>2 DEF Total

LEMMA CountTyped ==
  ASSUME PipelineTypeOK
  PROVE  OnTheWay \in [Stages -> Int]
  BY DEF PipelineTypeOK, OnTheWay

\* What each step does to the worker that makes it, and to the count.
LEMMA LoadCount ==
  ASSUME PipelineTypeOK, NEW s \in Stages, Load(s)
  PROVE  /\ OnTheWay' = OnTheWay /\ OnTheWay[s] >= 1
         /\ worker[s].pc = "idle" /\ worker'[s].pc = "working" /\ worker'[s].seen = session
         /\ \A t \in Stages \ {s} : worker'[t] = worker[t]
  BY DEF Load, Waiting, Idle, OnTheWay, PipelineTypeOK

LEMMA SkipCount ==
  ASSUME PipelineTypeOK, NEW s \in Stages, Skip(s)
  PROVE  /\ OnTheWay' = [OnTheWay EXCEPT ![s] = OnTheWay[s] - 1] /\ OnTheWay[s] >= 1
         /\ worker[s].pc = "idle" /\ worker' = worker
  <1>1. /\ worker[s].pc = "idle" /\ worker' = worker /\ topic[s] > 0
        /\ \A t \in Stages : topic'[t] = IF t = s THEN topic[t] - 1 ELSE topic[t]
    BY DEF Skip, Waiting, PipelineTypeOK
  <1>2. \A t \in Stages : OnTheWay'[t] = IF t = s THEN OnTheWay[t] - 1 ELSE OnTheWay[t]
    BY <1>1 DEF OnTheWay, PipelineTypeOK
  <1>3. OnTheWay[s] >= 1
    BY <1>1 DEF OnTheWay, PipelineTypeOK
  <1> QED  BY <1>1, <1>2, <1>3 DEF OnTheWay

LEMMA SendCount ==
  ASSUME PipelineTypeOK, NEW s \in Stages, Send(s), worker[s].target \in Stages
  PROVE  /\ \E o \in [Stages -> Int] :
              /\ o = [OnTheWay EXCEPT ![s] = OnTheWay[s] - 1]
              /\ OnTheWay' = [o EXCEPT ![worker[s].target] = o[worker[s].target] + 1]
         /\ worker[s].pc = "saved" /\ worker'[s].pc = "sent"
         /\ \A t \in Stages \ {s} : worker'[t] = worker[t]
  <1> DEFINE u == worker[s].target
             o == [OnTheWay EXCEPT ![s] = OnTheWay[s] - 1]
  <1>1. /\ worker[s].pc = "saved" /\ worker'[s].pc = "sent"
        /\ \A t \in Stages \ {s} : worker'[t] = worker[t]
    BY DEF Send, Idle, PipelineTypeOK
  <1>2. \A t \in Stages : topic'[t] = IF t = u THEN topic[t] + 1 ELSE topic[t]
    <2>1. topic' = [topic EXCEPT ![u] = topic[u] + 1]
      BY DEF Send
    <2> HIDE DEF u
    <2> QED  BY <2>1 DEF PipelineTypeOK
  <1>3. u \in Stages
    OBVIOUS
  <1> HIDE DEF u
  <1>4. o \in [Stages -> Int]
    BY CountTyped
  <1>5. OnTheWay' = [o EXCEPT ![u] = o[u] + 1]
    <2>1. ASSUME NEW t \in Stages
          PROVE  OnTheWay'[t] = IF t = u THEN o[t] + 1 ELSE o[t]
      <3>1. CASE t = s
        <4>1. OnTheWay'[t] = topic'[t] - 1 /\ OnTheWay[t] = topic[t]
          BY <1>1, <3>1 DEF OnTheWay
        <4>2. o[t] = topic[t] - 1
          BY <3>1, <4>1, CountTyped
        <4> QED  BY <1>2, <4>1, <4>2 DEF PipelineTypeOK
      <3>2. CASE t # s
        <4>1. worker'[t].pc = worker[t].pc /\ o[t] = OnTheWay[t]
          BY <1>1, <3>2, CountTyped
        <4>2. topic[t] \in Int  BY DEF PipelineTypeOK
        <4>3. CASE t = u   BY <1>2, <4>1, <4>2, <4>3 DEF OnTheWay
        <4>4. CASE t # u   BY <1>2, <4>1, <4>2, <4>4 DEF OnTheWay
        <4> QED  BY <4>3, <4>4
      <3> QED  BY <3>1, <3>2
    <2> QED  BY <1>3, <1>4, <2>1 DEF OnTheWay
  <1> QED  BY <1>1, <1>4, <1>5 DEF u

LEMMA CommitCount ==
  ASSUME PipelineTypeOK, NEW s \in Stages, Commit(s)
  PROVE  /\ OnTheWay' = OnTheWay
         /\ worker[s].pc = "sent" /\ worker'[s].pc = "idle"
         /\ \A t \in Stages \ {s} : worker'[t] = worker[t]
  BY DEF Commit, Idle, OnTheWay, PipelineTypeOK

LEMMA QuarantineCount ==
  ASSUME PipelineTypeOK, NEW s \in Stages, Quarantine(s)
  PROVE  /\ worker[s].pc = "sent" => OnTheWay' = OnTheWay
         /\ worker[s].pc # "sent" => OnTheWay' = [OnTheWay EXCEPT ![s] = OnTheWay[s] - 1]
         /\ worker[s].pc \in {"working", "saved", "sent"} /\ worker'[s].pc = "sent"
         /\ \A t \in Stages \ {s} : worker'[t] = worker[t]
  BY DEF Quarantine, Idle, OnTheWay, PipelineTypeOK

LEMMA CrashCount ==
  ASSUME PipelineTypeOK, NEW s \in Stages, Crash(s)
  PROVE  /\ worker[s].pc # "sent" => OnTheWay' = OnTheWay
         /\ worker[s].pc = "sent" => OnTheWay' = [OnTheWay EXCEPT ![s] = OnTheWay[s] + 1]
         /\ worker'[s].pc = "idle"
         /\ \A t \in Stages \ {s} : worker'[t] = worker[t]
  <1>1. /\ worker'[s].pc = "idle" /\ topic' = topic
        /\ \A t \in Stages \ {s} : worker'[t] = worker[t]
    BY DEF Crash, Idle, PipelineTypeOK
  <1>2. \A t \in Stages \ {s} : OnTheWay'[t] = OnTheWay[t]
    BY <1>1 DEF OnTheWay
  <1>3. OnTheWay'[s] = topic[s]
    BY <1>1 DEF OnTheWay
  <1>4. CASE worker[s].pc = "sent"
    <2>1. OnTheWay[s] = topic[s] - 1  BY <1>4 DEF OnTheWay
    <2>2. OnTheWay'[s] = OnTheWay[s] + 1  BY <1>3, <2>1 DEF PipelineTypeOK
    <2> QED  BY <1>1, <1>2, <1>4, <2>2 DEF OnTheWay
  <1>5. CASE worker[s].pc # "sent"
    <2>1. OnTheWay'[s] = OnTheWay[s]  BY <1>3, <1>5 DEF OnTheWay
    <2> QED  BY <1>1, <1>2, <1>5, <2>1 DEF OnTheWay
  <1> QED  BY <1>4, <1>5

LEMMA HandOnCount ==
  ASSUME PipelineTypeOK, NEW s \in Stages, NEW t \in Stages,
         Working(s), HandOn(s, t), UNCHANGED topic
  PROVE  /\ OnTheWay' = OnTheWay
         /\ worker'[s].pc = "saved" /\ worker'[s].target = t
         /\ \A u \in Stages \ {s} : worker'[u] = worker[u]
  BY DEF Working, HandOn, Idle, OnTheWay, PipelineTypeOK

LEMMA ReportCount ==
  ASSUME PipelineTypeOK, Report
  PROVE  /\ OnTheWay' = [OnTheWay EXCEPT !["reasoner"] = OnTheWay["reasoner"] - 1]
         /\ worker["reasoner"].pc = "working" /\ worker'["reasoner"].pc = "sent"
         /\ \A t \in Stages \ {"reasoner"} : worker'[t] = worker[t]
  <1>1. "reasoner" \in Stages  BY DEF Stages
  <1> HIDE DEF Stages
  <1> QED  BY <1>1 DEF Report, Working, Idle, OnTheWay, PipelineTypeOK

\* A worker that only saves and will send to t.
Passes(s, t) == Working(s) /\ HandOn(s, t) /\ UNCHANGED <<topic, crashes, ended>>

\* Every step of Work but the report is one; only the retriever sends to the grader, and
\* only the grader may misjudge.
LEMMA WorkPasses ==
  ASSUME PipelineTypeOK, Work, ~Report
  PROVE  \E s \in Stages, t \in Stages :
           /\ Passes(s, t)
           /\ t = "grader" => Matching'
           /\ \/ misjudged' = misjudged
              \/ LET seen == worker["grader"].seen IN
                 /\ s = "grader" /\ seen.queue # <<>>
                 /\ misjudged' = (misjudged \/ seen.docs # Head(seen.queue))
  <1>1. CASE Plan
    BY <1>1 DEF Plan, Passes, Stages
  <1>2. CASE Retrieve
    <2>1. worker["retriever"].seen \in States  BY SeenTyped DEF Stages
    <2>2. Matching'  BY <1>2, <2>1 DEF Retrieve, Matching, States
    <2> QED  BY <1>2, <2>2 DEF Retrieve, Passes, Stages
  <1>3. CASE Grade
    <2> DEFINE seen == worker["grader"].seen
    <2>1. seen \in States /\ seen.queue # <<>>  BY <1>3, SeenTyped DEF Stages, Grade
    <2>2. PICK grade \in Sufficient(seen) \cup Partial(seen) \cup Irrelevant(seen) :
            session' = grade.state /\ HandOn("grader", grade.to)
      BY <1>3 DEF Grade
    <2>3. grade.to \in {"retriever", "replanner", "reasoner"}
      BY <2>1, GradesTyped
    <2> QED  BY <1>3, <2>1, <2>2, <2>3 DEF Grade, Passes, Stages
  <1>4. CASE ForceStop
    BY <1>4 DEF ForceStop, Passes, Stages
  <1>5. CASE HardRule
    BY <1>5 DEF HardRule, Passes, Stages
  <1>6. CASE Replan
    <2>1. PICK t \in {"reasoner", "retriever"} : HandOn("replanner", t)
      BY <1>6 DEF Replan
    <2> QED  BY <1>6, <2>1 DEF Replan, Passes, Stages
  <1>8. CASE \E s \in Stages : NothingLeft(s)
    BY <1>8 DEF NothingLeft, Passes, Stages
  <1> QED  BY <1>1, <1>2, <1>3, <1>4, <1>5, <1>6, <1>8 DEF Work

-----------------------------------------------------------------------------
(* The message is never lost                                                *)

LEMMA CarriedStep ==
  ASSUME PipelineTypeOK, PipelineTypeOK', Carried, [Next]_vars
  PROVE  Carried'
  <1> USE CountTyped
  <1>1. ASSUME NEW s \in Stages, Load(s)  PROVE Carried'
    BY <1>1, LoadCount DEF Carried, Load
  <1>2. ASSUME NEW s \in Stages, Skip(s)  PROVE Carried'
    <2>1. \A t \in Stages : OnTheWay'[t] = IF t = s THEN OnTheWay[t] - 1 ELSE OnTheWay[t]
      BY <1>2, SkipCount
    <2>2. ended' /\ worker' = worker /\ worker[s].pc = "idle" /\ OnTheWay[s] >= 1
      BY <1>2, SkipCount DEF Skip
    <2> QED  BY <2>1, <2>2 DEF Carried
  <1>3. ASSUME NEW s \in Stages, Send(s)  PROVE Carried'
    <2> DEFINE u == worker[s].target
    <2>1. u \in Stages /\ worker[s].pc = "saved" /\ OnTheWay[s] >= 1
      BY <1>3 DEF Carried, Send
    <2>2. PICK o \in [Stages -> Int] :
            /\ o = [OnTheWay EXCEPT ![s] = OnTheWay[s] - 1]
            /\ OnTheWay' = [o EXCEPT ![u] = o[u] + 1]
      BY <1>3, <2>1, SendCount
    <2>3. worker'[s].pc = "sent" /\ \A t \in Stages \ {s} : worker'[t] = worker[t]
      BY <1>3, <2>1, SendCount
    <2> HIDE DEF u
    <2>4. \A t \in Stages : o[t] >= 0 /\ (t # s => o[t] = OnTheWay[t])
      BY <2>1, <2>2 DEF Carried
    <2>5. \A t \in Stages : OnTheWay'[t] >= o[t]
      BY <2>1, <2>2
    <2>6. OnTheWay'[u] >= 1
      BY <2>1, <2>2, <2>4
    <2>7. \A t \in Stages : OnTheWay'[t] \in Int
      BY <2>1, <2>2
    <2> QED  BY <2>1, <2>3, <2>4, <2>5, <2>6, <2>7 DEF Carried
  <1>4. ASSUME NEW s \in Stages, Commit(s)  PROVE Carried'
    BY <1>4, CommitCount DEF Carried, Commit
  <1>5. ASSUME NEW s \in Stages, Quarantine(s)  PROVE Carried'
    <2>1. CASE worker[s].pc = "sent"
      BY <1>5, <2>1, QuarantineCount DEF Carried, Quarantine
    <2>2. CASE worker[s].pc # "sent"
      <3>1. \A t \in Stages : OnTheWay'[t] = IF t = s THEN OnTheWay[t] - 1 ELSE OnTheWay[t]
        BY <1>5, <2>2, QuarantineCount
      <3>2. /\ ended' /\ worker[s].pc \in {"working", "saved"} /\ worker'[s].pc = "sent"
            /\ \A t \in Stages \ {s} : worker'[t] = worker[t]
        BY <1>5, <2>2, QuarantineCount DEF Quarantine
      <3> QED  BY <3>1, <3>2 DEF Carried
    <2> QED  BY <2>1, <2>2
  <1>6. ASSUME NEW s \in Stages, Crash(s)  PROVE Carried'
    <2>1. CASE worker[s].pc = "sent"
      <3>1. \A t \in Stages : OnTheWay'[t] = IF t = s THEN OnTheWay[t] + 1 ELSE OnTheWay[t]
        BY <1>6, <2>1, CrashCount
      <3>2. /\ ended' = ended /\ worker'[s].pc = "idle"
            /\ \A t \in Stages \ {s} : worker'[t] = worker[t]
        BY <1>6, <2>1, CrashCount DEF Crash
      <3> QED  BY <3>1, <3>2 DEF Carried
    <2>2. CASE worker[s].pc # "sent"
      BY <1>6, <2>2, CrashCount DEF Carried, Crash
    <2> QED  BY <2>1, <2>2
  <1>7. CASE Work /\ ~Report
    <2>1. PICK s \in Stages, t \in Stages : Passes(s, t)
      BY <1>7, WorkPasses
    <2>2. /\ OnTheWay' = OnTheWay
          /\ worker[s].pc = "working" /\ worker'[s].pc = "saved" /\ worker'[s].target = t
          /\ \A u \in Stages \ {s} : worker'[u] = worker[u]
      BY <2>1, HandOnCount DEF Passes, Working
    <2> QED  BY <2>1, <2>2 DEF Carried, Passes
  <1>8. CASE Report
    <2>1. "reasoner" \in Stages  BY DEF Stages
    <2> HIDE DEF Stages
    <2> QED  BY <1>8, <2>1, ReportCount DEF Carried, Report
  <1>9. CASE Expire
    BY <1>9 DEF Expire, Carried, OnTheWay
  <1>10. CASE UNCHANGED vars
    BY <1>10 DEF vars, Carried, OnTheWay
  <1> QED  BY <1>1, <1>2, <1>3, <1>4, <1>5, <1>6, <1>7, <1>8, <1>9, <1>10 DEF Next, Deliver

LEMMA CarriedInit == Init => Carried
  BY DEF Init, Carried, OnTheWay, Idle, Stages

\* Whoever dies where, a session that has no report, was not quarantined and did not expire
\* has a message on its way: nobody commits one before having sent the next.
THEOREM NothingIsDropped == Spec => []BatonKept
  <1>1. PipelineTypeOK /\ PipelineTypeOK' /\ Carried /\ [Next]_vars => Carried'
    BY CarriedStep
  <1>2. PipelineTypeOK /\ Carried => BatonKept
    <2> SUFFICES ASSUME PipelineTypeOK, Carried, ~ended PROVE \E s \in Stages : topic[s] > 0
      BY DEF BatonKept
    <2>1. PICK s \in Stages : OnTheWay[s] >= 1
      BY DEF Carried
    <2> QED  BY <2>1 DEF OnTheWay, PipelineTypeOK
  <1> QED  BY <1>1, <1>2, CarriedInit, PipelineTyped, PTL DEF Spec

-----------------------------------------------------------------------------
(* Until a worker dies                                                      *)

\* Whoever works or has saved is the only one, and has the only message.
LEMMA Alone ==
  ASSUME PipelineTypeOK, Carried, OneHand, NEW s \in Stages, OnTheWay[s] >= 1
  PROVE  /\ OnTheWay[s] = 1
         /\ \A t \in Stages \ {s} : OnTheWay[t] = 0 /\ worker[t].pc \notin {"working", "saved"}
  <1>1. Total(OnTheWay) <= 1 /\ \A t \in Stages : OnTheWay[t] >= 0
    BY DEF OneHand, Carried
  <1>2. OnTheWay[s] = 1 /\ \A t \in Stages \ {s} : OnTheWay[t] = 0
    BY <1>1, CountTyped, TwoAreTooMany
  <1> HIDE DEF Stages
  <1>3. \A t \in Stages \ {s} : worker[t].pc \notin {"working", "saved"}
    BY <1>2 DEF Carried
  <1> QED  BY <1>2, <1>3

\* Somebody takes a message, or the offset of one that was passed on is committed.
LEMMA HandoverKept ==
  ASSUME PipelineTypeOK, OneHand, NEW s \in Stages, Load(s) \/ Commit(s)
  PROVE  OneHand'
  <1>1. "grader" \in Stages  BY DEF Stages
  <1> HIDE DEF Stages
  <1>2. /\ OnTheWay' = OnTheWay /\ session' = session /\ misjudged' = misjudged
        /\ worker[s].pc # "saved" /\ worker'[s].pc # "saved"
        /\ worker'[s].pc = "working" => worker'[s].seen = session
        /\ \A t \in Stages \ {s} : worker'[t] = worker[t]
    BY LoadCount, CommitCount DEF Load, Commit
  <1> QED  BY <1>1, <1>2 DEF OneHand, Matching, Total

\* A message is dropped or set aside, or the report is written.
LEMMA HandoverLess ==
  ASSUME PipelineTypeOK, PipelineTypeOK', Carried, OneHand, NEW s \in Stages,
         \A t \in Stages : OnTheWay'[t] = IF t = s THEN OnTheWay[t] - 1 ELSE OnTheWay[t],
         OnTheWay[s] >= 1, worker'[s].pc \notin {"working", "saved"},
         \A t \in Stages \ {s} : worker'[t] = worker[t],
         misjudged' = misjudged
  PROVE  OneHand'
  <1>1. "grader" \in Stages  BY DEF Stages
  <1>2. OnTheWay \in [Stages -> Int] /\ OnTheWay' \in [Stages -> Int]
    BY CountTyped DEF PipelineTypeOK, OnTheWay
  <1> HIDE DEF Stages
  <1>3. \A t \in Stages : OnTheWay'[t] <= OnTheWay[t]
    BY <1>2
  <1>4. Total(OnTheWay)' <= 1
    <2>1. Total(OnTheWay') <= 1
      BY <1>2, <1>3, FewerAreNotMore DEF OneHand
    <2> QED  BY <2>1 DEF Total
  <1>5. /\ OnTheWay[s] = 1
        /\ \A t \in Stages \ {s} : OnTheWay[t] = 0 /\ worker[t].pc \notin {"working", "saved"}
    BY Alone
  <1>6. OnTheWay'["grader"] = 0 /\ \A t \in Stages : worker'[t].pc \notin {"working", "saved"}
    BY <1>1, <1>2, <1>5
  <1> QED  BY <1>4, <1>6 DEF OneHand

LEMMA HandoverSend ==
  ASSUME PipelineTypeOK, PipelineTypeOK', Carried, OneHand, NEW s \in Stages, Send(s)
  PROVE  OneHand'
  <1> DEFINE u == worker[s].target
  <1>1. "grader" \in Stages  BY DEF Stages
  <1>2. OnTheWay \in [Stages -> Int] /\ OnTheWay' \in [Stages -> Int]
    BY CountTyped DEF PipelineTypeOK, OnTheWay
  <1> HIDE DEF Stages
  <1>3. u \in Stages /\ worker[s].pc = "saved" /\ OnTheWay[s] >= 1
    BY DEF Carried, Send
  <1>4. PICK o \in [Stages -> Int] :
          /\ o = [OnTheWay EXCEPT ![s] = OnTheWay[s] - 1]
          /\ OnTheWay' = [o EXCEPT ![u] = o[u] + 1]
    BY <1>3, SendCount
  <1>5. /\ OnTheWay[s] = 1
        /\ \A t \in Stages \ {s} : OnTheWay[t] = 0 /\ worker[t].pc \notin {"working", "saved"}
    BY <1>3, Alone
  <1>6. /\ worker'[s].pc = "sent" /\ session' = session /\ misjudged' = misjudged
        /\ \A t \in Stages \ {s} : worker'[t] = worker[t]
    BY <1>3, SendCount DEF Send
  <1>7. u = "grader" => Matching
    BY <1>3 DEF OneHand
  <1> HIDE DEF u
  <1>8. \A t \in Stages : o[t] = 0
    BY <1>2, <1>4, <1>5
  <1>9. \A t \in Stages : OnTheWay'[t] = IF t = u THEN 1 ELSE 0
    BY <1>3, <1>4, <1>8
  <1>10. Total(OnTheWay)' <= 1
    BY <1>3, <1>9 DEF Total, Stages
  <1>11. \A t \in Stages : worker'[t].pc \notin {"working", "saved"}
    BY <1>5, <1>6
  <1>12. OnTheWay'["grader"] >= 1 => Matching'
    BY <1>1, <1>6, <1>7, <1>9 DEF Matching
  <1> QED  BY <1>6, <1>10, <1>11, <1>12 DEF OneHand

LEMMA HandoverWork ==
  ASSUME PipelineTypeOK, PipelineTypeOK', Carried, OneHand, Work, ~Report
  PROVE  OneHand'
  <1>1. "grader" \in Stages  BY DEF Stages
  <1>2. PICK s \in Stages, t \in Stages :
          /\ Passes(s, t)
          /\ t = "grader" => Matching'
          /\ \/ misjudged' = misjudged
             \/ LET seen == worker["grader"].seen IN
                /\ s = "grader" /\ seen.queue # <<>>
                /\ misjudged' = (misjudged \/ seen.docs # Head(seen.queue))
    BY WorkPasses
  <1> HIDE DEF Stages
  <1>3. /\ OnTheWay' = OnTheWay
        /\ worker[s].pc = "working" /\ worker'[s].pc = "saved" /\ worker'[s].target = t
        /\ \A u \in Stages \ {s} : worker'[u] = worker[u]
    BY <1>2, HandOnCount DEF Passes, Working
  <1>4. OnTheWay[s] >= 1 /\ session = worker[s].seen
    BY <1>3 DEF Carried, OneHand
  <1>5. /\ OnTheWay[s] = 1
        /\ \A u \in Stages \ {s} : OnTheWay[u] = 0 /\ worker[u].pc \notin {"working", "saved"}
    BY <1>4, Alone
  <1>6. ~misjudged'
    <2>1. ~misjudged  BY DEF OneHand
    <2>2. s = "grader" => Matching
      BY <1>3, <1>4 DEF OneHand
    <2>3. s = "grader" => LET seen == worker["grader"].seen IN
                          seen.queue = <<>> \/ seen.docs = Head(seen.queue)
      BY <1>4, <2>2 DEF Matching
    <2> QED  BY <1>2, <2>1, <2>3
  <1>7. OnTheWay'["grader"] >= 1 => worker'["grader"].pc = "saved"
    BY <1>1, <1>3, <1>5
  <1>8. \A u \in Stages : worker'[u].pc # "working" /\ (worker'[u].pc = "saved" => u = s)
    BY <1>3, <1>5
  <1>9. Total(OnTheWay)' <= 1
    BY <1>3 DEF OneHand, Total
  <1> QED  BY <1>2, <1>3, <1>6, <1>7, <1>8, <1>9 DEF OneHand

LEMMA HandoverStep ==
  ASSUME PipelineTypeOK, PipelineTypeOK', Carried, Handover, [Next]_vars
  PROVE  Handover'
  <1> USE DEF Handover
  <1>1. ASSUME NEW s \in Stages, Load(s) \/ Commit(s)  PROVE Handover'
    BY <1>1, HandoverKept DEF Load, Commit
  <1>2. ASSUME NEW s \in Stages, Skip(s)  PROVE Handover'
    <2>1. /\ \A t \in Stages : OnTheWay'[t] = IF t = s THEN OnTheWay[t] - 1 ELSE OnTheWay[t]
          /\ OnTheWay[s] >= 1 /\ worker[s].pc = "idle" /\ worker' = worker
      BY <1>2, SkipCount, CountTyped
    <2>2. misjudged' = misjudged /\ crashes' = crashes
      BY <1>2 DEF Skip
    <2> QED  BY <2>1, <2>2, HandoverLess
  <1>3. ASSUME NEW s \in Stages, Send(s)  PROVE Handover'
    BY <1>3, HandoverSend DEF Send
  <1>4. ASSUME NEW s \in Stages, Quarantine(s)  PROVE Handover'
    <2>1. /\ worker[s].pc \in {"working", "saved", "sent"} /\ worker'[s].pc = "sent"
          /\ \A t \in Stages \ {s} : worker'[t] = worker[t]
          /\ session' = session /\ misjudged' = misjudged /\ crashes' = crashes
      BY <1>4, QuarantineCount DEF Quarantine
    <2>2. CASE worker[s].pc = "sent"
      <3>1. OnTheWay' = OnTheWay  BY <1>4, <2>2, QuarantineCount
      <3>2. "grader" \in Stages  BY DEF Stages
      <3> HIDE DEF Stages
      <3>3. OneHand => OneHand'
        BY <2>1, <2>2, <3>1, <3>2 DEF OneHand, Matching, Total
      <3> QED  BY <2>1, <3>3
    <2>3. CASE worker[s].pc # "sent"
      <3>1. \A t \in Stages : OnTheWay'[t] = IF t = s THEN OnTheWay[t] - 1 ELSE OnTheWay[t]
        BY <1>4, <2>3, QuarantineCount, CountTyped
      <3>2. OnTheWay[s] >= 1
        BY <2>1, <2>3 DEF Carried
      <3> QED  BY <2>1, <3>1, <3>2, HandoverLess
    <2> QED  BY <2>2, <2>3
  <1>5. ASSUME NEW s \in Stages, Crash(s)  PROVE Handover'
    BY <1>5 DEF Crash
  <1>6. CASE Work /\ ~Report
    <2>1. PICK s \in Stages, t \in Stages : Passes(s, t)
      BY <1>6, WorkPasses
    <2> QED  BY <1>6, <2>1, HandoverWork DEF Passes
  <1>7. CASE Report
    <2>1. "reasoner" \in Stages  BY DEF Stages
    <2>2. /\ \A t \in Stages : OnTheWay'[t] = IF t = "reasoner" THEN OnTheWay[t] - 1 ELSE OnTheWay[t]
          /\ worker["reasoner"].pc = "working" /\ worker'["reasoner"].pc = "sent"
          /\ \A t \in Stages \ {"reasoner"} : worker'[t] = worker[t]
      BY <1>7, <2>1, ReportCount, CountTyped
    <2>3. OnTheWay["reasoner"] >= 1
      BY <2>1, <2>2 DEF Carried
    <2>4. misjudged' = misjudged /\ crashes' = crashes
      BY <1>7 DEF Report
    <2> QED  BY <2>1, <2>2, <2>3, <2>4, HandoverLess
  <1>8. CASE Expire
    <2>1. /\ session'.queue = <<>> /\ \A s \in Stages : worker'[s].pc = "idle"
          /\ OnTheWay' = OnTheWay /\ misjudged' = misjudged /\ crashes' = crashes
      BY <1>8 DEF Expire, Absent, Idle, OnTheWay
    <2>2. OneHand => OneHand'
      BY <2>1 DEF OneHand, Matching, Total
    <2> QED  BY <2>1, <2>2
  <1>9. CASE UNCHANGED vars
    BY <1>9 DEF vars, OneHand, Matching, OnTheWay, Total
  <1> QED  BY <1>1, <1>2, <1>3, <1>4, <1>5, <1>6, <1>7, <1>8, <1>9 DEF Next, Deliver

LEMMA HandoverInit == Init => Handover
  <1> SUFFICES ASSUME Init PROVE Handover
    OBVIOUS
  <1>1. \A s \in Stages : worker[s].pc = "idle" /\ OnTheWay[s] = IF s = "planner" THEN 1 ELSE 0
    BY DEF Init, OnTheWay, Idle
  <1>2. Total(OnTheWay) <= 1 /\ session.queue = <<>> /\ ~misjudged /\ crashes = 0
    BY <1>1 DEF Init, Total, New, Absent, Stages
  <1> QED  BY <1>1, <1>2 DEF Handover, OneHand, Matching

\* Until a worker dies a session is in one place, and every task is graded by the documents
\* that were retrieved for it.
THEOREM TasksAreJudgedFairly == Spec => []StrictHandover
  <1>1. PipelineTypeOK /\ PipelineTypeOK' /\ Carried /\ Carried' /\ Handover /\ [Next]_vars
        => Handover'
    BY HandoverStep
  <1>2. PipelineTypeOK /\ PipelineTypeOK' /\ Carried /\ [Next]_vars => Carried'
    BY CarriedStep
  <1>3. Handover => StrictHandover
    BY DEF Handover, OneHand, StrictHandover
  <1> QED  BY <1>1, <1>2, <1>3, CarriedInit, HandoverInit, PipelineTyped, PTL DEF Spec
=============================================================================
