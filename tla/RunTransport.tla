---------------------------- MODULE RunTransport ----------------------------
(***************************************************************************)
(* The Kafka side of the run authority: agent_runtime/transport.py and     *)
(* worker.py over the outbox of RunStore.                                  *)
(*                                                                         *)
(* One worker process: its main thread sends the outbox and consumes the   *)
(* topic of pending runs, its executor threads (the Executors of RunStore) *)
(* run the recovery loop.  The process may die at any time, ends when the  *)
(* broker does not answer or the dead-letter queue cannot be written, and  *)
(* is started again from outside.  The broker (external) keeps a log per   *)
(* topic and the committed offset of the group; what it acknowledged it    *)
(* keeps, and it may have taken what it never acknowledged.                *)
(***************************************************************************)
EXTENDS RunStore, Sequences, Integers

CONSTANTS
  NoMessage,
  Garbage,      \* what somebody else may write to the topic
  MaxGarbage,   \* bound: this often
  MaxDeaths     \* bound: the process dies no more often than this

ASSUME TransportBounds == MaxGarbage \in Nat /\ MaxDeaths \in Nat
ASSUME MessageNames == NoMessage \notin Messages /\ Garbage \notin Messages

VARIABLES
  process,     \* "up", "headless" (the executor thread is dead), or "down"
  sending,     \* the message sent by dispatch and not yet marked as sent
  log,         \* the topic of pending runs; nobody here consumes the topic of results
  position,    \* how far the consumer has read
  committed,   \* the group's committed offset
  dlq,         \* the positions that were quarantined
  copies,      \* copies the broker took, less those marked as sent (observed only)
  deaths

bus == <<process, sending, log, position, committed, dlq, copies, deaths>>
allVars == <<vars, bus>>

TransportInit ==
  /\ Init
  /\ process = "down" /\ sending = NoMessage
  /\ log = <<>> /\ position = 0 /\ committed = 0 /\ dlq = {}
  /\ copies = [m \in Messages |-> 0] /\ deaths = 0

-----------------------------------------------------------------------------
(* The process                                                              *)

\* A consumer starts where its group has committed.
Start ==
  /\ process = "down"
  /\ process' = "up" /\ position' = committed
  /\ UNCHANGED <<vars, sending, log, committed, dlq, copies, deaths>>

\* Killed, or ended by an exception: of dispatch when the broker does not answer within 30
\* seconds, or of quarantine_message when the dead-letter queue cannot be written.
Die ==
  /\ process # "down"
  /\ deaths < MaxDeaths /\ deaths' = deaths + 1
  /\ process' = "down" /\ sending' = NoMessage
  /\ exec' = [e \in Executors |-> IdleExec]
  /\ UNCHANGED <<now, row, nextToken, saved, outbox, ledger, log, position, committed, dlq, copies>>

\* recover raises something else than a database error: the executor thread is gone.
ThreadDies(e) ==
  /\ process = "up" /\ deaths < MaxDeaths /\ deaths' = deaths + 1
  /\ Crash(e)
  /\ process' = "headless"
  /\ UNCHANGED <<sending, log, position, committed, dlq, copies>>

\* Variant: the main loop does not look at the executor thread.
NoticeNothing == FALSE /\ UNCHANGED allVars

\* The next round of the main loop notices, raises and ends the process.
Notice ==
  /\ process = "headless"
  /\ process' = "down" /\ sending' = NoMessage
  /\ exec' = [e \in Executors |-> IdleExec]
  /\ UNCHANGED <<now, row, nextToken, saved, outbox, ledger, log, position, committed, dlq, copies, deaths>>

-----------------------------------------------------------------------------
(* dispatch                                                                 *)

MainThread == process # "down" /\ sending = NoMessage

\* Variant: only the topic of pending runs is sent.
PublishPending(m) ==
  /\ MainThread
  /\ outbox[m] > 0 /\ m[1] = "pending"
  /\ copies' = [copies EXCEPT ![m] = @ + 1]
  /\ log' = Append(log, m)
  /\ sending' = m
  /\ UNCHANGED <<vars, process, position, committed, dlq, deaths>>

\* The broker has the message; its answer may still be lost.
Publish(m) ==
  /\ MainThread
  /\ outbox[m] > 0
  /\ copies' = [copies EXCEPT ![m] = @ + 1]
  /\ log' = IF m[1] = "pending" THEN Append(log, m) ELSE log
  /\ sending' = m
  /\ UNCHANGED <<vars, process, position, committed, dlq, deaths>>

\* Variant: the message is marked as sent without waiting for the broker.
MarkUnsent(m) ==
  /\ process # "down" /\ (sending = m \/ outbox[m] > 0)
  /\ Acknowledge(m)
  /\ sending' = NoMessage
  /\ copies' = [copies EXCEPT ![m] = @ - 1]
  /\ UNCHANGED <<process, log, position, committed, dlq, deaths>>

\* acknowledge_outbox after the broker's answer.
Mark(m) ==
  /\ process # "down" /\ sending = m
  /\ Acknowledge(m)
  /\ sending' = NoMessage
  /\ copies' = [copies EXCEPT ![m] = @ - 1]
  /\ UNCHANGED <<process, log, position, committed, dlq, deaths>>

-----------------------------------------------------------------------------
(* poll, accept, quarantine, commit                                         *)

SomebodyElseWrites ==
  /\ Cardinality({i \in 1 .. Len(log) : log[i] = Garbage}) < MaxGarbage
  /\ log' = Append(log, Garbage)
  /\ UNCHANGED <<vars, process, sending, position, committed, dlq, copies, deaths>>

\* accept knows the run of every message of ours.
Acceptable(m) == m # Garbage /\ row[m[2]].status # "absent"

\* Variant: what cannot be accepted is skipped.
HandleSkips ==
  /\ MainThread /\ position = committed /\ position < Len(log)
  /\ position' = position + 1
  /\ UNCHANGED <<vars, process, sending, log, committed, dlq, copies, deaths>>

\* accept only reads: a message tells the worker nothing it would not find in the database,
\* so that a message delivered twice, late or of an old epoch changes nothing.
Handle ==
  /\ MainThread /\ position = committed /\ position < Len(log)
  /\ position' = position + 1
  /\ dlq' = IF Acceptable(log[position + 1]) THEN dlq ELSE dlq \cup {position + 1}
  /\ UNCHANGED <<vars, process, sending, log, committed, copies, deaths>>

Commit ==
  /\ MainThread /\ committed < position
  /\ committed' = position
  /\ UNCHANGED <<vars, process, sending, log, position, dlq, copies, deaths>>

-----------------------------------------------------------------------------
(* The specification                                                        *)

\* What the executor threads do while the process is up.
Execute ==
  /\ process = "up"
  /\ \/ \E e \in Executors, r \in RecoverHead : BeginClaim(e, r, AnyEpoch)
     \/ \E e \in Executors : ClaimStep(e) \/ ReadRow(e) \/ OwnerStep(e) \/ FinishStep(e)
     \/ ExpireWaiting
  /\ UNCHANGED bus

\* Users and time go on whether the worker runs or not.
Outside ==
  /\ Tick \/ \E r \in Runs : UserStep(r)
  /\ UNCHANGED bus

TransportNext ==
  \/ Start \/ Die \/ Notice \/ \E e \in Executors : ThreadDies(e)
  \/ \E m \in Messages : Publish(m) \/ Mark(m)
  \/ SomebodyElseWrites \/ Handle \/ Commit
  \/ Execute \/ Outside

TransportSpec == TransportInit /\ [][TransportNext]_allVars

\* A process that ended is started again; its main loop and its executor thread go on.
MainLoop ==
  \/ Start \/ Notice \/ Handle \/ Commit
  \/ \E m \in Messages : Publish(m) \/ Mark(m)

RecoveryLoop ==
  /\ process = "up"
  /\ \/ \E e \in Executors, r \in Runs : RecoverClaim(e, r)
     \/ \E e \in Executors : ClaimStep(e) \/ ReadRow(e) \/ FinishStep(e)
  /\ UNCHANGED bus

TransportFairness ==
  /\ WF_allVars(Tick /\ UNCHANGED bus)
  /\ WF_allVars(MainLoop)
  /\ WF_allVars(RecoveryLoop)
  /\ WF_allVars(process = "up" /\ ExpireWaiting /\ UNCHANGED bus)

FairTransport == TransportSpec /\ TransportFairness

-----------------------------------------------------------------------------
(* Properties                                                               *)

\* "Waiting for each broker acknowledgement is necessary before marking sent": a message
\* was taken by the broker at least as often as it was marked as sent, whenever the process
\* died in between.
MarkedIsPublished == \A m \in Messages : copies[m] >= 0

\* "Durable quarantine must succeed before committing the offset": below the committed
\* offset every message was accepted or lies in the dead-letter queue.
CommittedIsHandled ==
  \A i \in 1 .. committed : log[i] = Garbage => i \in dlq

\* Every message of the outbox is sent in the end, however often the worker ends.
OutboxDrains == \A m \in Messages : outbox[m] > 0 ~> outbox[m] = 0

\* A run settles even if the messages about it are late, lost with the process or never
\* sent at all, and even if its executor thread dies alone: the process that has lost it ends.
RunsSettle == EventuallySettled

=============================================================================
