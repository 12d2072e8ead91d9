------------------------- MODULE RunTransportProofs -------------------------
(***************************************************************************)
(* Proofs about the Kafka worker over the run database, for any number of  *)
(* runs, executor threads, foreign messages and deaths of the process.     *)
(*                                                                         *)
(* A step of the transport is a step of RunStore, or leaves its tables     *)
(* alone and at most ends all executions at once (a process that dies); so *)
(* what RunStoreProofs shows of a step carries over.                       *)
(***************************************************************************)
EXTENDS RunTransport, RunStoreProofs

\* All executions of the process end, the tables stay.
AllEnd ==
  /\ exec' = [e \in Executors |-> IdleExec]
  /\ UNCHANGED <<now, row, nextToken, saved, outbox, ledger>>

LEMMA StoreSteps ==
  ASSUME [TransportNext]_allVars
  PROVE  [Next]_vars \/ AllEnd
<1>1. CASE Start \/ SomebodyElseWrites \/ Handle \/ Commit
  BY <1>1 DEF Start, SomebodyElseWrites, Handle, Commit
<1>2. CASE Die \/ Notice
  BY <1>2 DEF Die, Notice, AllEnd
<1>3. CASE \E e \in Executors : ThreadDies(e)
  BY <1>3 DEF ThreadDies, Next
<1>4. ASSUME NEW m \in Messages, Publish(m) \/ Mark(m) PROVE [Next]_vars
  BY <1>4 DEF Publish, Mark, Next
<1>5. CASE Execute
  <2>1. RecoverHead \subseteq Runs /\ AnyEpoch \in Wanted
    BY DEF RecoverHead, Recoverable, Wanted
  <2> QED
    BY <1>5, <2>1 DEF Execute, Next
<1>6. CASE Outside
  BY <1>6 DEF Outside, Next
<1>7. CASE UNCHANGED allVars
  BY <1>7 DEF allVars
<1> QED
  BY <1>1, <1>2, <1>3, <1>4, <1>5, <1>6, <1>7 DEF TransportNext

\* The tables keep their types whatever the worker does.
LEMMA StoreTyped == TransportSpec => []TypeOK
<1>1. TransportInit => TypeOK
  BY TypeInit DEF TransportInit
<1>2. TypeOK /\ AllEnd => TypeOK'
  BY StartValues DEF AllEnd, TypeOK, ledger, IdleExec
<1>3. TypeOK /\ [TransportNext]_allVars => TypeOK'
  BY <1>2, StoreSteps, TypeNext
<1> QED
  BY <1>1, <1>3, PTL DEF TransportSpec

-----------------------------------------------------------------------------
(* What the worker keeps of the promises of the run database.               *)

\* Whatever its threads and its process die of, the worker keeps the limit on running runs,
\* and no two of its threads can finish one run.
THEOREM WorkerKeepsOwnership == TransportSpec => [](RunningLimit /\ SoleOwner)
<1>1. TransportInit => RunningLimit /\ TokensUnique
  BY LimitInit, TokensInit DEF TransportInit
<1>2. TypeOK /\ AllEnd /\ RunningLimit /\ TokensUnique => RunningLimit' /\ TokensUnique'
  <2> SUFFICES ASSUME TypeOK, AllEnd, RunningLimit PROVE RunningLimit' /\ TokensUnique'
    OBVIOUS
  <2>1. RunningLimit'
    BY DEF AllEnd, RunningLimit, LiveAt
  <2>2. nextToken' \in Nat \ {0} /\ \A e \in Executors : exec'[e].token = 0 /\ exec'[e].pc = "idle"
    BY DEF AllEnd, TypeOK, IdleExec, NoToken
  <2> QED
    BY <2>1, <2>2 DEF TokensUnique, NoToken
<1>3. TypeOK /\ TypeOK' /\ RunningLimit /\ TokensUnique /\ [TransportNext]_allVars
      => RunningLimit' /\ TokensUnique'
  BY <1>2, StoreSteps, LimitNext, TokensNext
<1> QED
  BY <1>1, <1>3, OneHolder, StoreTyped, PTL DEF TransportSpec

\* A result message is inserted exactly when the work on an epoch of a Kafka run ends,
\* while the worker sends, dies and is started again.
THEOREM WorkerTellsEveryResult == TransportSpec => ResultAnnounced
<1>1. ASSUME TypeOK, AllEnd, NEW r \in Runs, NEW i \in Epochs
      PROVE  Told(r, i) <=> EpochEnds(r, i)
  BY <1>1, NothingTold DEF AllEnd, EpochEnds
<1>2. TypeOK /\ [TransportNext]_allVars =>
        [\A r \in Runs, i \in Epochs :
           outbox'[<<"result", r, i>>] > outbox[<<"result", r, i>>] <=>
           (/\ row[r].transport = "kafka" /\ row[r].epoch = i
            /\ row'[r].status # row[r].status /\ row'[r].status \in Announced)]_vars
  BY <1>1, StoreSteps, ToldNext DEF Told, EpochEnds
<1> QED
  BY <1>2, StoreTyped, PTL DEF TransportSpec, ResultAnnounced

-----------------------------------------------------------------------------
(* The dispatcher.                                                          *)

\* The message between the broker's answer and acknowledge_outbox is one that was taken
\* and not yet marked.
Marked ==
  /\ copies \in [Messages -> Int]
  /\ \A m \in Messages : copies[m] >= IF sending = m THEN 1 ELSE 0

\* A message is taken by the broker at least as often as it is marked as sent.
THEOREM SentBeforeMarked == TransportSpec => []MarkedIsPublished
<1>1. TransportInit => Marked
  BY MessageNames DEF TransportInit, Marked
<1>2. Marked /\ [TransportNext]_allVars => Marked'
  <2> SUFFICES ASSUME Marked, [TransportNext]_allVars PROVE Marked'
    OBVIOUS
  <2>1. CASE UNCHANGED <<sending, copies>>
    BY <2>1 DEF Marked
  <2>2. CASE sending' = NoMessage /\ UNCHANGED copies
    BY <2>2, MessageNames DEF Marked
  <2>3. ASSUME NEW m \in Messages, Publish(m) PROVE Marked'
    <3>1. sending' = m /\ \A k \in Messages : copies'[k] = IF k = m THEN copies[k] + 1 ELSE copies[k]
      BY <2>3 DEF Publish, Marked
    <3>2. copies' \in [Messages -> Int]
      BY <2>3 DEF Publish, Marked
    <3>3. \A k \in Messages : copies[k] \in Int /\ copies[k] >= 0
      BY DEF Marked
    <3> QED
      BY <3>1, <3>2, <3>3 DEF Marked
  <2>4. ASSUME NEW m \in Messages, Mark(m) PROVE Marked'
    <3>1. /\ sending = m /\ sending' = NoMessage
          /\ \A k \in Messages : copies'[k] = IF k = m THEN copies[k] - 1 ELSE copies[k]
      BY <2>4 DEF Mark, Marked
    <3>2. copies' \in [Messages -> Int]
      BY <2>4 DEF Mark, Marked
    <3>3. \A k \in Messages : copies[k] \in Int /\ copies[k] >= 0
      BY DEF Marked
    <3> QED
      BY <3>1, <3>2, <3>3, MessageNames DEF Marked
  <2>5. CASE Start \/ SomebodyElseWrites \/ Handle \/ Commit \/ \E e \in Executors : ThreadDies(e)
    BY <2>1, <2>5 DEF Start, SomebodyElseWrites, Handle, Commit, ThreadDies
  <2>6. CASE Die \/ Notice
    BY <2>2, <2>6 DEF Die, Notice
  <2>7. CASE Execute \/ Outside \/ UNCHANGED allVars
    BY <2>1, <2>7 DEF Execute, Outside, allVars, bus
  <2> QED
    BY <2>3, <2>4, <2>5, <2>6, <2>7 DEF TransportNext
<1>3. Marked => MarkedIsPublished
  BY DEF Marked, MarkedIsPublished
<1> QED
  BY <1>1, <1>2, <1>3, PTL DEF TransportSpec

-----------------------------------------------------------------------------
(* The consumer.                                                            *)

\* The offset follows the reader, the reader the log, and what was read is settled.
Consumed ==
  /\ log \in Seq(Messages \cup {Garbage})
  /\ committed \in Nat /\ position \in Nat
  /\ committed <= position /\ position <= Len(log)
  /\ \A i \in 1 .. position : log[i] = Garbage => i \in dlq

\* Below the committed offset nothing was lost: it was accepted or quarantined.
THEOREM NothingIsSkipped == TransportSpec => []CommittedIsHandled
<1>1. TransportInit => Consumed
  BY DEF TransportInit, Consumed
<1>2. Consumed /\ [TransportNext]_allVars => Consumed'
  <2> SUFFICES ASSUME Consumed, [TransportNext]_allVars PROVE Consumed'
    OBVIOUS
  <2>1. CASE UNCHANGED <<log, position, committed, dlq>>
    BY <2>1 DEF Consumed
  <2>2. CASE Start
    BY <2>2 DEF Start, Consumed
  <2>3. ASSUME NEW m \in Messages \cup {Garbage}, log' = Append(log, m),
               UNCHANGED <<position, committed, dlq>>
        PROVE  Consumed'
    <3>1. log' \in Seq(Messages \cup {Garbage}) /\ Len(log') = Len(log) + 1
      BY <2>3 DEF Consumed
    <3>2. \A i \in 1 .. Len(log) : log'[i] = log[i]
      BY <2>3 DEF Consumed
    <3> QED
      BY <2>3, <3>1, <3>2 DEF Consumed
  <2>4. ASSUME NEW m \in Messages, Publish(m) PROVE Consumed'
    BY <2>1, <2>3, <2>4 DEF Publish
  <2>5. CASE SomebodyElseWrites
    BY <2>3, <2>5 DEF SomebodyElseWrites
  <2>6. CASE Handle
    <3>1. position' = position + 1 /\ position < Len(log) /\ UNCHANGED <<log, committed>>
      BY <2>6 DEF Handle
    <3>2. dlq \subseteq dlq' /\ (log[position + 1] = Garbage => position + 1 \in dlq')
      BY <2>6 DEF Handle, Acceptable
    <3> QED
      BY <3>1, <3>2 DEF Consumed
  <2>7. CASE Commit
    BY <2>7 DEF Commit, Consumed
  <2>8. CASE \E m \in Messages : Mark(m)
    BY <2>1, <2>8 DEF Mark
  <2>9. CASE Die \/ Notice \/ \E e \in Executors : ThreadDies(e)
    BY <2>1, <2>9 DEF Die, Notice, ThreadDies
  <2>10. CASE Execute \/ Outside \/ UNCHANGED allVars
    BY <2>1, <2>10 DEF Execute, Outside, allVars, bus
  <2> QED
    BY <2>2, <2>4, <2>5, <2>6, <2>7, <2>8, <2>9, <2>10 DEF TransportNext
<1>3. Consumed => CommittedIsHandled
  BY DEF Consumed, CommittedIsHandled
<1> QED
  BY <1>1, <1>2, <1>3, PTL DEF TransportSpec

=============================================================================
