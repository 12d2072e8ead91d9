------------------------- MODULE SpaceSandboxProofs -------------------------
(***************************************************************************)
(* Proofs about the sandbox calls, for any number of runs, programs, tries *)
(* and slots, and for both backends.                                       *)
(***************************************************************************)
EXTENDS SpaceSandbox, TLAPS

Verdicts == {"none", "ok", "error", "unavailable", "unknown", "stopped"}
Bodies   == [own : Sandboxes \cup {NoSandbox}, unclean : BOOLEAN, verdict : Verdicts]
Stages   == {"write", "execute", "cleanup", "finish", "stopping", "done", "stopped"} \cup InBody

\* Whoever is about to make a tool call has a program to run.
HasCode == \A r \in Runs : at[r] \in {"execute"} \cup InBody => code[r] \in Codes

\* Whoever is about to run a command has a sandbox to run it in.
HasOwn == \A r \in Runs : at[r] = "command" => body[r].own \in Sandboxes

Typed == SandboxTypeOK /\ HasCode /\ HasOwn

-----------------------------------------------------------------------------
(* Types: the slots                                                         *)

LEMMA SlotsStep ==
  ASSUME SlotsTypeOK, NEW u \in Users, UseSlot(u) \/ TurnedAway(u) \/ Leave(u)
  PROVE  SlotsTypeOK'
<1> USE SlotAssumption DEF SlotsTypeOK
<1>1. CASE Ask(u)         BY <1>1 DEF Ask
<1>2. CASE FindPlace(u)   BY <1>2 DEF FindPlace, Take, PassOver
<1>3. CASE FindSlot(u)    BY <1>3 DEF FindSlot, Take, PassOver
<1>4. CASE Admit(u)       BY <1>4 DEF Admit
<1>5. CASE TurnedAway(u)  BY <1>5 DEF TurnedAway
<1>6. CASE Leave(u)       BY <1>6 DEF Leave
<1> QED
  BY <1>1, <1>2, <1>3, <1>4, <1>5, <1>6 DEF UseSlot

LEMMA DropTyped ==
  ASSUME SlotsTypeOK, DropLocks(Runs)
  PROVE  SlotsTypeOK'
  BY SlotAssumption DEF SlotsTypeOK, DropLocks

-----------------------------------------------------------------------------
(* Types: verdicts and deletions                                            *)

LEMMA VerdictsTyped ==
  /\ BootVerdicts \subseteq Verdicts
  /\ StreamVerdicts \subseteq Verdicts /\ Range(AttachEnds) \subseteq Verdicts
  /\ \A answer : VerdictOf(answer) \in Verdicts
  /\ \A r, verdict : verdict \in Verdicts => Verdict(r, verdict) \in Verdicts
<1>1. Range(OperationEnds) \subseteq Verdicts
  BY DEF Range, OperationEnds, Verdicts
<1>2. Range(SandboxEnds) \subseteq Verdicts
  BY DEF Range, SandboxEnds, Verdicts
<1>3. Range(GuestEnds) \subseteq Verdicts
  BY DEF Range, GuestEnds, Verdicts
<1>4. Range(AttachEnds) \subseteq Verdicts
  BY DEF Range, AttachEnds, Verdicts
<1>5. Range(ExitEnds) \subseteq Verdicts
  BY DEF Range, ExitEnds, Verdicts
<1>6. Range(StreamEnds) \subseteq Verdicts
  BY DEF Range, StreamEnds, Verdicts
<1>7. BootVerdicts \subseteq Verdicts
  <2>1. "ok" \in Verdicts
    BY DEF Verdicts
  <2> QED
    BY <1>1, <1>2, <1>3, <2>1 DEF BootVerdicts
<1>8. StreamVerdicts \subseteq Verdicts
  BY <1>5, <1>6 DEF StreamVerdicts
<1> QED
  BY <1>4, <1>7, <1>8 DEF VerdictOf, Verdict, Verdicts

LEMMA BodyWith ==
  ASSUME body \in [Runs -> Bodies], NEW r \in Runs, NEW verdict \in Verdicts
  PROVE  /\ End(r, verdict) => body' \in [Runs -> Bodies]
         /\ NoBody \in Bodies
         /\ \A own \in Sandboxes \cup {NoSandbox} : [body EXCEPT ![r].own = own] \in [Runs -> Bodies]
  BY DEF End, Bodies, NoBody, Verdicts

\* A deletion leaves everything in its range, whatever the service does.
LEMMA DestroyTyped ==
  ASSUME SandboxTypeOK, NEW s \in Sandboxes \cup {NoSandbox},
         NEW gone \in BOOLEAN, NEW proven \in BOOLEAN, Destroy(s, gone, proven)
  PROVE  /\ remote' \in [Sandboxes -> {"none", "alive", "gone"}] /\ applied' = applied
         /\ active' \in [Sandboxes -> {"no", "fresh", "used"}] /\ cleaned' \subseteq Sandboxes
         /\ \A t \in Sandboxes : active'[t] = active[t] \/ active'[t] = "no"
  BY DEF SandboxTypeOK, Destroy, Remove, service, manager

-----------------------------------------------------------------------------
(* Types: one lemma per kind of step                                        *)

\* The nodes around the call.
LEMMA NodesTyped ==
  ASSUME Typed, NEW r \in Runs, NodeStep(r)
  PROVE  Typed'
<1> USE SandboxAssumption, TriesAssumption DEF Typed
<1> r \in Users
  BY DEF SandboxTypeOK
<1>1. CASE WriteCode(r)
  BY <1>1 DEF WriteCode, Go, SandboxTypeOK, HasCode, HasOwn, SlotsTypeOK, slots, ledger, service, manager, InBody
<1>2. CASE WaitForSlot(r)
  <2>1. SlotsTypeOK'
    BY <1>2, SlotsStep DEF WaitForSlot, SandboxTypeOK
  <2> QED
    BY <1>2, <2>1 DEF WaitForSlot, SandboxTypeOK, HasCode, HasOwn, graphstate, ledger, service, manager
<1>3. CASE SlotRefused(r)
  <2>1. SlotsTypeOK'
    BY <1>3, SlotsStep DEF SlotRefused, SandboxTypeOK
  <2> QED
    BY <1>3, <2>1 DEF SlotRefused, Go, SandboxTypeOK, HasCode, HasOwn, graphstate, ledger, service, manager, InBody
<1>4. CASE StopOutside(r)
  BY <1>4 DEF StopOutside, Go, SandboxTypeOK, HasCode, HasOwn, SlotsTypeOK, slots, graphstate, ledger, service, manager, InBody
<1>5. CASE Report(r)
  <2>1. SlotsTypeOK'
    BY <1>5, SlotsStep DEF Report, SandboxTypeOK
  <2>2. body' \in [Runs -> Bodies]
    BY <1>5, BodyWith DEF Report, SandboxTypeOK, Bodies, Verdicts
  <2>3. session' \in [Runs -> Sandboxes \cup {NoSandbox}]
    BY <1>5 DEF Report, SandboxTypeOK
  <2>4. tries' \in [Runs -> 0 .. MaxTries]
    BY <1>5 DEF Report, SandboxTypeOK
  <2>5. /\ at' \in [Runs -> Stages]
        /\ \A q \in Runs : at'[q] = at[q] \/ at'[q] \in {"stopping", "write", "cleanup"}
    BY <1>5 DEF Report, Go, SandboxTypeOK, Stages
  <2> QED
    BY <1>5, <2>1, <2>2, <2>3, <2>4, <2>5
    DEF Report, SandboxTypeOK, HasCode, HasOwn, ledger, service, manager, InBody, Bodies, Verdicts, Stages
<1>6. CASE CleanupNode(r)
  <2> PICK gone \in BOOLEAN, proven \in BOOLEAN :
        /\ Destroy(session[r], gone, proven)
        /\ session' = [session EXCEPT ![r] = IF proven THEN NoSandbox ELSE @]
    BY <1>6 DEF CleanupNode
  <2>1. session[r] \in Sandboxes \cup {NoSandbox}
    BY DEF SandboxTypeOK
  <2>2. /\ remote' \in [Sandboxes -> {"none", "alive", "gone"}] /\ applied' = applied
        /\ active' \in [Sandboxes -> {"no", "fresh", "used"}] /\ cleaned' \subseteq Sandboxes
    BY <2>1, DestroyTyped
  <2> QED
    BY <1>6, <2>2 DEF CleanupNode, Go, SandboxTypeOK, HasCode, HasOwn, SlotsTypeOK, slots, ledger, InBody
<1>7. CASE Finish(r)
  <2> PICK gone \in BOOLEAN, proven \in BOOLEAN : Destroy(session[r], gone, proven)
    BY <1>7 DEF Finish
  <2>1. session[r] \in Sandboxes \cup {NoSandbox}
    BY DEF SandboxTypeOK
  <2>2. /\ remote' \in [Sandboxes -> {"none", "alive", "gone"}] /\ applied' = applied
        /\ active' \in [Sandboxes -> {"no", "fresh", "used"}] /\ cleaned' \subseteq Sandboxes
    BY <2>1, DestroyTyped
  <2> QED
    BY <1>7, <2>2 DEF Finish, Go, SandboxTypeOK, HasCode, HasOwn, SlotsTypeOK, slots, graphstate, ledger, InBody
<1> QED
  BY <1>1, <1>2, <1>3, <1>4, <1>5, <1>6, <1>7 DEF NodeStep

\* A step inside the call: it stays inside it and keeps its program.
LEMMA StageTyped ==
  ASSUME Typed, NEW r \in Runs, NEW stage \in InBody, at[r] \in {"execute"} \cup InBody, Go(r, stage),
         UNCHANGED code, body' \in [Runs -> Bodies],
         \A q \in Runs : q # r => body'[q] = body[q],
         stage = "command" => body'[r].own \in Sandboxes
  PROVE  at' \in [Runs -> Stages] /\ HasCode' /\ HasOwn'
<1>1. at \in [Runs -> Stages] /\ InBody \subseteq Stages
  BY DEF Typed, SandboxTypeOK, Stages
<1>2. /\ at' \in [Runs -> Stages] /\ at'[r] = stage
      /\ \A q \in Runs : q # r => at'[q] = at[q]
  BY <1>1 DEF Go
<1>3. HasCode'
  <2> SUFFICES ASSUME NEW q \in Runs, at'[q] \in {"execute"} \cup InBody
               PROVE  code'[q] \in Codes
    BY DEF HasCode
  <2> QED
    BY <1>2 DEF Typed, HasCode
<1>4. HasOwn'
  BY <1>2 DEF Typed, HasOwn, Sandboxes
<1> QED
  BY <1>2, <1>3, <1>4

LEMMA EndTyped ==
  ASSUME Typed, NEW r \in Runs, NEW verdict \in Verdicts, End(r, verdict)
  PROVE  /\ body' \in [Runs -> Bodies]
         /\ \A q \in Runs : q # r => body'[q] = body[q]
         /\ body'[r].own = body[r].own
<1>1. body \in [Runs -> Bodies]
  BY DEF Typed, SandboxTypeOK, Bodies, Verdicts
<1> HIDE DEF Verdicts
<1> QED
  BY <1>1 DEF End, Bodies

\* The call itself.
LEMMA CallsTyped ==
  ASSUME Typed, NEW r \in Runs, CallStep(r)
  PROVE  Typed'
<1> USE SandboxAssumption
<1> DEFINE s == body[r].own
<1> DEFINE Framed == /\ body' \in [Runs -> Bodies]
                     /\ \A q \in Runs : q # r => body'[q] = body[q]
<1>0. /\ s \in Sandboxes \cup {NoSandbox}
      /\ at[r] \in {"execute"} \cup InBody => Call(r) \in Sandboxes
      /\ body \in [Runs -> Bodies] /\ {"execute"} \cup InBody \subseteq Stages
  BY DEF Typed, SandboxTypeOK, HasCode, Call, Sandboxes, Bodies, Verdicts, Stages
<1>a. {"none", "ok", "error", "unavailable", "unknown", "stopped"} = Verdicts
  BY DEF Verdicts
<1>b. /\ Verdict(r, "error") \in Verdicts
      /\ {"create", "boot", "sweep", "command", "stream", "clean", "settle", "report"} = InBody
  BY VerdictsTyped, <1>a DEF InBody
<1>1. CASE Begin(r)
  <2> DEFINE clean == Call(r) \in kept
  <2> HIDE DEF clean
  <2>1. Framed
    <3>0. clean \in BOOLEAN
      BY DEF clean
    <3>1. CASE body' = [body EXCEPT ![r] = [NoBody EXCEPT !.own = session[r]]]
      BY <3>1, <1>0 DEF Typed, SandboxTypeOK, NoBody, Bodies, Verdicts
    <3>2. CASE \E own \in Sandboxes \cup {NoSandbox}, verdict \in Verdicts :
                 body' = [body EXCEPT ![r] = [NoBody EXCEPT !.own = own, !.unclean = clean, !.verdict = verdict]]
      BY <3>0, <3>2, <1>0 DEF NoBody, Bodies
    <3> QED
      BY <3>1, <3>2, <1>0, <1>1, <1>a DEF Begin, clean
  <2>2. effect' \in [Sandboxes -> {"none", "started", "done", "failed"}]
    BY <1>1 DEF Begin, Typed, SandboxTypeOK
  <2>3. \E stage \in {"create", "command", "report"} :
          Go(r, stage) /\ (stage = "command" => body'[r].own \in Sandboxes)
    <3>1. CASE body' = [body EXCEPT ![r] = [NoBody EXCEPT !.own = session[r]]]
               /\ Go(r, IF session[r] = NoSandbox THEN "create" ELSE "command")
      <4>1. body'[r].own = session[r] /\ session[r] \in Sandboxes \cup {NoSandbox}
        BY <3>1, <1>0 DEF Typed, SandboxTypeOK, NoBody
      <4> QED
        BY <3>1, <4>1
    <3>2. CASE Go(r, "report")
      BY <3>2
    <3> QED
      BY <1>1, <3>1, <3>2 DEF Begin
  <2>4. at' \in [Runs -> Stages] /\ HasCode' /\ HasOwn'
    BY <1>1, <2>1, <2>3, StageTyped DEF Begin, graphstate, InBody
  <2> QED
    BY <1>1, <2>1, <2>2, <2>4
    DEF Begin, Typed, SandboxTypeOK, SlotsTypeOK, slots, graphstate, service, manager, Bodies, Verdicts, Stages
<1>2. CASE Create(r)
  <2>1. Framed
    BY <1>2, <1>0, <1>b, EndTyped, VerdictsTyped DEF Create
  <2>2. at' \in [Runs -> Stages] /\ HasCode' /\ HasOwn'
    BY <1>2, <1>b, <2>1, StageTyped DEF Create, graphstate, InBody
  <2>3. intents' \subseteq Sandboxes \X {"create", "command"}
    BY <1>2, <1>0, <1>b DEF Create, Recorded, Typed, SandboxTypeOK
  <2>4. /\ remote' \in [Sandboxes -> {"none", "alive", "gone"}]
        /\ applied' \in [{"create", "command"} -> [Sandboxes -> Nat]]
    BY <1>2, <1>0, <1>b DEF Create, Apply, Typed, SandboxTypeOK, service
  <2> QED
    BY <1>2, <2>1, <2>2, <2>3, <2>4
    DEF Create, Typed, SandboxTypeOK, SlotsTypeOK, slots, graphstate, manager, Bodies, Verdicts, Stages
<1>3. CASE CreateRefused(r)
  <2>1. Framed
    BY <1>3, <1>0, <1>b, EndTyped, VerdictsTyped DEF CreateRefused
  <2>2. at' \in [Runs -> Stages] /\ HasCode' /\ HasOwn'
    BY <1>3, <1>b, <2>1, StageTyped DEF CreateRefused, graphstate
  <2> QED
    BY <1>3, <2>1, <2>2
    DEF CreateRefused, Typed, SandboxTypeOK, SlotsTypeOK, slots, graphstate, ledger, service, manager, Bodies, Verdicts, Stages
<1>4. CASE Boot(r)
  <2>1. Framed /\ (at'[r] = "command" => body'[r].own = Call(r))
    <3>1. CASE body' = [body EXCEPT ![r].own = Call(r)]
      BY <1>4, <3>1, <1>0, <1>b, BodyWith DEF Boot, Bodies
    <3>2. CASE \E verdict \in BootVerdicts \ {"ok"} : End(r, Verdict(r, verdict))
      BY <1>4, <3>2, EndTyped, VerdictsTyped DEF Boot, Go, Typed, SandboxTypeOK
    <3> QED
      BY <1>4, <3>1, <3>2 DEF Boot
  <2>2. at' \in [Runs -> Stages] /\ HasCode' /\ HasOwn'
    BY <1>4, <1>0, <1>b, <2>1, StageTyped DEF Boot, Go, graphstate, Typed, SandboxTypeOK
  <2>3. active' \in [Sandboxes -> {"no", "fresh", "used"}]
    BY <1>4 DEF Boot, Typed, SandboxTypeOK
  <2> QED
    BY <1>4, <2>1, <2>2, <2>3
    DEF Boot, Typed, SandboxTypeOK, SlotsTypeOK, slots, graphstate, ledger, service, Bodies, Verdicts, Stages
<1>5. CASE Sweep(r)
  <2>1. Framed
    BY <1>5, <1>0 DEF Sweep
  <2>2. at' \in [Runs -> Stages] /\ HasCode' /\ HasOwn'
    BY <1>5, <1>b, <2>1, StageTyped DEF Sweep, graphstate
  <2>3. remote' \in [Sandboxes -> {"none", "alive", "gone"}]
    BY <1>5 DEF Sweep, Typed, SandboxTypeOK
  <2> QED
    BY <1>5, <2>1, <2>2, <2>3
    DEF Sweep, Typed, SandboxTypeOK, SlotsTypeOK, slots, graphstate, ledger, manager, Bodies, Verdicts, Stages
<1>6. CASE Command(r)
  <2>0. at[r] = "command" /\ s \in Sandboxes
    BY <1>6 DEF Command, Typed, HasOwn
  <2>1. Framed
    BY <1>6, <1>0, <1>b, EndTyped, VerdictsTyped, <2>0 DEF Command
  <2>2. at' \in [Runs -> Stages] /\ HasCode' /\ HasOwn'
    BY <1>6, <1>b, <2>1, StageTyped DEF Command, graphstate, InBody
  <2>3. intents' \subseteq Sandboxes \X {"create", "command"}
    BY <1>6, <2>0 DEF Command, Recorded, Typed, SandboxTypeOK
  <2>4. /\ active' \in [Sandboxes -> {"no", "fresh", "used"}]
        /\ applied' \in [{"create", "command"} -> [Sandboxes -> Nat]]
    BY <1>6, <2>0 DEF Command, Apply, Typed, SandboxTypeOK
  <2> QED
    BY <1>6, <2>1, <2>2, <2>3, <2>4
    DEF Command, Typed, SandboxTypeOK, SlotsTypeOK, slots, graphstate, Bodies, Verdicts, Stages
<1>7. CASE CommandNotSent(r)
  <2>1. Framed
    BY <1>7, <1>0, <1>b, EndTyped, VerdictsTyped DEF CommandNotSent
  <2>2. at' \in [Runs -> Stages] /\ HasCode' /\ HasOwn'
    BY <1>7, <1>b, <2>1, StageTyped DEF CommandNotSent, graphstate
  <2>3. active' \in [Sandboxes -> {"no", "fresh", "used"}]
    BY <1>7 DEF CommandNotSent, Typed, SandboxTypeOK
  <2> QED
    BY <1>7, <2>1, <2>2, <2>3
    DEF CommandNotSent, Typed, SandboxTypeOK, SlotsTypeOK, slots, graphstate, ledger, service, Bodies, Verdicts, Stages
<1>8. CASE CommandRefused(r)
  <2>1. Framed
    BY <1>8, <1>0, <1>b, EndTyped, VerdictsTyped, <1>a DEF CommandRefused
  <2>2. at' \in [Runs -> Stages] /\ HasCode' /\ HasOwn'
    BY <1>8, <1>b, <2>1, StageTyped DEF CommandRefused, graphstate
  <2> QED
    BY <1>8, <2>1, <2>2
    DEF CommandRefused, Typed, SandboxTypeOK, SlotsTypeOK, slots, graphstate, ledger, service, manager, Bodies, Verdicts, Stages
<1>9. CASE Stream(r)
  <2>1. Framed
    BY <1>9, <1>0, <1>b, EndTyped, VerdictsTyped DEF Stream
  <2>2. at' \in [Runs -> Stages] /\ HasCode' /\ HasOwn'
    BY <1>9, <1>b, <2>1, StageTyped DEF Stream, graphstate
  <2> QED
    BY <1>9, <2>1, <2>2
    DEF Stream, Typed, SandboxTypeOK, SlotsTypeOK, slots, graphstate, ledger, service, manager, Bodies, Verdicts, Stages
<1>10. CASE StartContainer(r)
  <2>1. Framed /\ (at'[r] = "command" => body'[r].own = Call(r))
    <3>1. CASE body' = [body EXCEPT ![r].own = Call(r)]
      BY <1>10, <3>1, <1>0, <1>b, BodyWith DEF StartContainer, Bodies
    <3>2. CASE \E verdict \in {"error", "unavailable"} : End(r, verdict) /\ Go(r, "settle")
      BY <3>2, <1>a, EndTyped DEF Go, Typed, SandboxTypeOK
    <3> QED
      BY <1>10, <3>1, <3>2 DEF StartContainer
  <2>2. at' \in [Runs -> Stages] /\ HasCode' /\ HasOwn'
    BY <1>10, <1>0, <1>b, <2>1, StageTyped DEF StartContainer, Go, graphstate, Typed, SandboxTypeOK
  <2>3. /\ active' \in [Sandboxes -> {"no", "fresh", "used"}]
        /\ remote' \in [Sandboxes -> {"none", "alive", "gone"}]
    BY <1>10 DEF StartContainer, Typed, SandboxTypeOK
  <2> QED
    BY <1>10, <2>1, <2>2, <2>3
    DEF StartContainer, Typed, SandboxTypeOK, SlotsTypeOK, slots, graphstate, ledger, Bodies, Verdicts, Stages
<1>11. CASE RunInContainer(r)
  <2>1. Framed
    BY <1>11, <1>a, <1>b, EndTyped DEF RunInContainer
  <2>2. at' \in [Runs -> Stages] /\ HasCode' /\ HasOwn'
    BY <1>11, <1>b, <2>1, StageTyped DEF RunInContainer, graphstate
  <2>3. /\ active' \in [Sandboxes -> {"no", "fresh", "used"}] /\ UNCHANGED <<applied, cleaned>>
        /\ remote' \in [Sandboxes -> {"none", "alive", "gone"}]
    BY <1>11 DEF RunInContainer, Remove, Typed, SandboxTypeOK, service, manager
  <2> QED
    BY <1>11, <2>1, <2>2, <2>3
    DEF RunInContainer, Typed, SandboxTypeOK, SlotsTypeOK, slots, graphstate, ledger, Bodies, Verdicts, Stages
<1>12. CASE Clean(r)
  <2> PICK gone \in BOOLEAN, proven \in BOOLEAN :
        /\ Destroy(s, gone, proven)
        /\ body' = [body EXCEPT ![r].own = IF proven THEN NoSandbox ELSE @, ![r].unclean = ~proven]
    BY <1>12 DEF Clean
  <2>1. Framed
    <3> DEFINE unclean == ~proven
               own == IF proven THEN NoSandbox ELSE s
    <3>1. /\ body' = [body EXCEPT ![r] = [body[r] EXCEPT !.own = own, !.unclean = unclean]]
          /\ unclean \in BOOLEAN /\ own \in Sandboxes \cup {NoSandbox}
      BY <1>0
    <3> HIDE DEF unclean, own, s
    <3> DEFINE new == [body[r] EXCEPT !.own = own, !.unclean = unclean]
    <3>2. new \in Bodies
      <4>1. body[r] \in Bodies
        BY <1>0
      <4>2. new.own = own /\ new.unclean = unclean /\ new.verdict = body[r].verdict
        BY <4>1 DEF Bodies
      <4>3. DOMAIN new = {"own", "unclean", "verdict"}
        BY <4>1 DEF Bodies
      <4> QED
        BY <3>1, <4>1, <4>2, <4>3 DEF Bodies
    <3> HIDE DEF new
    <3> QED
      BY <3>1, <3>2, <1>0 DEF new
  <2>2. at' \in [Runs -> Stages] /\ HasCode' /\ HasOwn'
    BY <1>12, <1>b, <2>1, StageTyped DEF Clean, graphstate
  <2>3. /\ remote' \in [Sandboxes -> {"none", "alive", "gone"}] /\ applied' = applied
        /\ active' \in [Sandboxes -> {"no", "fresh", "used"}] /\ cleaned' \subseteq Sandboxes
    BY <1>0, DestroyTyped DEF Typed
  <2> QED
    BY <1>12, <2>1, <2>2, <2>3
    DEF Clean, Typed, SandboxTypeOK, SlotsTypeOK, slots, graphstate, ledger, Bodies, Verdicts, Stages
<1>13. CASE Settle(r)
  <2>1. Framed
    BY <1>13, <1>0, <1>b, EndTyped, VerdictsTyped, <1>a DEF Settle
  <2>2. at' \in [Runs -> Stages] /\ HasCode' /\ HasOwn'
    BY <1>13, <1>b, <2>1, StageTyped DEF Settle, graphstate
  <2>3. effect' \in [Sandboxes -> {"none", "started", "done", "failed"}] /\ kept' \subseteq Sandboxes
    BY <1>13, <1>0, <1>b DEF Settle, Typed, SandboxTypeOK
  <2> QED
    BY <1>13, <2>1, <2>2, <2>3
    DEF Settle, Typed, SandboxTypeOK, SlotsTypeOK, slots, graphstate, service, manager, Bodies, Verdicts, Stages
<1> QED
  BY <1>1, <1>2, <1>3, <1>4, <1>5, <1>6, <1>7, <1>8, <1>9, <1>10, <1>11, <1>12, <1>13 DEF CallStep

\* The environment: a lost or retried run, a crash, the idle deletion, other processes.
LEMMA WorldTyped ==
  ASSUME Typed,
         \/ \E r \in Runs : Lose(r) \/ Retry(r)
         \/ Crash
         \/ \E u \in Users \ Runs : Elsewhere(u)
         \/ \E s \in Sandboxes : IdleDelete(s)
  PROVE  Typed'
<1> USE SandboxAssumption DEF Typed
<1>1. CASE \E r \in Runs : Lose(r)
  BY <1>1 DEF Lose, SandboxTypeOK, HasCode, HasOwn, SlotsTypeOK, slots, graphstate, ledger, service, manager
<1>2. CASE \E r \in Runs : Retry(r)
  BY <1>2 DEF Retry, Go, SandboxTypeOK, HasCode, HasOwn, SlotsTypeOK, slots, graphstate, ledger, service,
              manager, InBody
<1>3. CASE Crash
  <2>1. SlotsTypeOK'
    BY <1>3, DropTyped DEF Crash, SandboxTypeOK
  <2>2. /\ at' \in [Runs -> Stages]
        /\ \A r \in Runs : at'[r] \in {"execute"} \cup InBody => at[r] \in {"execute"} \cup InBody
        /\ \A r \in Runs : at'[r] # "command"
    BY <1>3 DEF Crash, SandboxTypeOK, Stages, InBody
  <2>3. body' \in [Runs -> Bodies]
    BY <1>3 DEF Crash, NoBody, Bodies, Verdicts
  <2>4. HasCode' /\ HasOwn'
    BY <1>3, <2>2 DEF Crash, HasCode, HasOwn, graphstate
  <2> QED
    BY <1>3, <2>1, <2>2, <2>3, <2>4
    DEF Crash, SandboxTypeOK, graphstate, ledger, service, Bodies, Verdicts, Stages
<1>4. CASE \E u \in Users \ Runs : Elsewhere(u)
  <2>1. SlotsTypeOK'
    BY <1>4, SlotsStep DEF Elsewhere, SandboxTypeOK
  <2> QED
    BY <1>4, <2>1 DEF Elsewhere, SandboxTypeOK, HasCode, HasOwn, graphstate, ledger, service, manager
<1>5. CASE \E s \in Sandboxes : IdleDelete(s)
  BY <1>5 DEF IdleDelete, SandboxTypeOK, HasCode, HasOwn, SlotsTypeOK, slots, graphstate, ledger, manager
<1> QED
  BY <1>1, <1>2, <1>3, <1>4, <1>5

LEMMA TypedInit == Init => Typed
<1> SUFFICES ASSUME Init PROVE Typed
  OBVIOUS
<1>1. SlotsTypeOK
  BY SlotAssumption DEF Init, SlotsInit, Nobody, SlotsTypeOK
<1>2. SandboxTypeOK
  BY <1>1, TriesAssumption DEF Init, SandboxTypeOK, NoBody
<1> QED
  BY <1>2 DEF Init, Typed, HasCode, HasOwn, InBody

LEMMA TypedNext == Typed /\ [Next]_vars => Typed'
<1> SUFFICES ASSUME Typed, [Next]_vars PROVE Typed'
  OBVIOUS
<1>1. CASE UNCHANGED vars
  BY <1>1 DEF vars, slots, graphstate, ledger, service, manager, Typed, SandboxTypeOK, SlotsTypeOK, HasCode, HasOwn
<1>2. CASE Next
  BY <1>2, NodesTyped, CallsTyped, WorldTyped DEF Next
<1> QED
  BY <1>1, <1>2

\* SandboxTypeOK for every set of runs and programs: above all, a command is only ever sent
\* to a sandbox, and everything recorded about a call is about a program that exists.
THEOREM SandboxTyped == Spec => []SandboxTypeOK
<1>1. Init => Typed
  BY TypedInit
<1>2. Typed /\ [Next]_vars => Typed'
  BY TypedNext
<1>3. Typed => SandboxTypeOK
  BY DEF Typed
<1> QED
  BY <1>1, <1>2, <1>3, PTL DEF Spec

-----------------------------------------------------------------------------
(* What the service carries out is in the ledger                            *)

\* Only the two requests are carried out, and each is recorded first; no record is lost.
LEMMA RecordedFirst ==
  ASSUME Typed, [Next]_vars
  PROVE  /\ intents \subseteq intents'
         /\ \A s \in Sandboxes, kind \in {"create", "command"} :
              applied'[kind][s] # applied[kind][s] => <<s, kind>> \in intents'
<1>1. CASE UNCHANGED <<intents, applied>>
  BY <1>1
<1>2. ASSUME NEW r \in Runs, Create(r) PROVE /\ intents' = intents \cup {<<Call(r), "create">>}
                                             /\ UNCHANGED applied \/ Apply(Call(r), "create")
  BY <1>2 DEF Create, Recorded, service
<1>3. ASSUME NEW r \in Runs, Command(r) PROVE /\ intents' = intents \cup {<<body[r].own, "command">>}
                                              /\ UNCHANGED applied \/ Apply(body[r].own, "command")
  BY <1>3 DEF Command, Recorded
<1>4. ASSUME NEW s \in Sandboxes, NEW kind \in {"create", "command"},
             intents' = intents \cup {<<s, kind>>}, UNCHANGED applied \/ Apply(s, kind)
      PROVE  \A t \in Sandboxes, other \in {"create", "command"} :
               applied'[other][t] # applied[other][t] => <<t, other>> \in intents'
  BY <1>4 DEF Apply, Typed, SandboxTypeOK
<1>5. CASE \E r \in Runs : Create(r)
  <2> PICK r \in Runs : Create(r)
    BY <1>5
  <2>1. Call(r) \in Sandboxes
    BY DEF Create, Typed, HasCode, InBody, Call, Sandboxes
  <2> QED
    BY <1>2, <1>4, <2>1
<1>6. CASE \E r \in Runs : Command(r)
  <2> PICK r \in Runs : Command(r)
    BY <1>6
  <2>1. body[r].own \in Sandboxes
    BY DEF Command, Typed, HasOwn
  <2> QED
    BY <1>3, <1>4, <2>1
<1>7. [Next]_vars => \/ UNCHANGED <<intents, applied>>
                     \/ \E r \in Runs : Create(r) \/ Command(r)
  <2>1. ASSUME NEW r \in Runs, NodeStep(r) PROVE UNCHANGED <<intents, applied>>
    BY <2>1 DEF NodeStep, WriteCode, WaitForSlot, SlotRefused, StopOutside, Report, CleanupNode, Finish,
                Destroy, Remove, ledger, service
  <2>2. ASSUME NEW r \in Runs, CallStep(r), ~Create(r), ~Command(r) PROVE UNCHANGED <<intents, applied>>
    BY <2>2 DEF CallStep, Begin, CreateRefused, Boot, Sweep, CommandNotSent, CommandRefused, Stream,
                StartContainer, RunInContainer, Clean, Settle, Destroy, Remove, ledger, service
  <2>3. ASSUME NEW r \in Runs, Lose(r) \/ Retry(r) PROVE UNCHANGED <<intents, applied>>
    BY <2>3 DEF Lose, Retry, ledger, service
  <2>4. Crash => UNCHANGED <<intents, applied>>
    BY DEF Crash, ledger, service
  <2>5. ASSUME NEW u, Elsewhere(u) PROVE UNCHANGED <<intents, applied>>
    BY <2>5 DEF Elsewhere, ledger, service
  <2>6. ASSUME NEW s, IdleDelete(s) PROVE UNCHANGED <<intents, applied>>
    BY <2>6 DEF IdleDelete, ledger
  <2>7. UNCHANGED vars => UNCHANGED <<intents, applied>>
    BY DEF vars, ledger, service
  <2> QED
    BY <2>1, <2>2, <2>3, <2>4, <2>5, <2>6, <2>7 DEF Next
<1> QED
  BY <1>1, <1>5, <1>6, <1>7

\* NothingUnrecorded for every set of runs and programs: after any crash, the ledger names
\* every sandbox and every command the service may have accepted.
THEOREM NothingIsUnrecorded == Spec => []NothingUnrecorded
<1>1. Init => NothingUnrecorded
  BY DEF Init, NothingUnrecorded
<1>2. Typed /\ NothingUnrecorded /\ [Next]_vars => NothingUnrecorded'
  <2> SUFFICES ASSUME Typed, NothingUnrecorded, [Next]_vars,
                      NEW s \in Sandboxes, NEW kind \in {"create", "command"}, applied'[kind][s] > 0
               PROVE  <<s, kind>> \in intents'
    BY DEF NothingUnrecorded
  <2>1. CASE applied'[kind][s] = applied[kind][s]
    BY <2>1, RecordedFirst DEF NothingUnrecorded
  <2>2. CASE applied'[kind][s] # applied[kind][s]
    BY <2>2, RecordedFirst
  <2> QED
    BY <2>1, <2>2
<1>3. Init => Typed
  BY TypedInit
<1>4. Typed /\ [Next]_vars => Typed'
  BY TypedNext
<1> QED
  BY <1>1, <1>2, <1>3, <1>4, PTL DEF Spec

-----------------------------------------------------------------------------
(* Nothing with a side effect is done twice                                 *)

Count(kind, s) == applied[kind][s]

\* A call the ledger does not know has left no trace.
Untouched ==
  \A s \in Sandboxes : effect[s] = "none" => Count("create", s) = 0 /\ Count("command", s) = 0 /\ active[s] = "no"

\* Whoever is about to make a sandbox, or waits for it, is the first to use its name.
FirstToMake ==
  \A r \in Runs : at[r] \in {"create", "boot"} =>
    /\ effect[Call(r)] # "none" /\ Count("command", Call(r)) = 0 /\ active[Call(r)] = "no"
    /\ at[r] = "create" => Count("create", Call(r)) = 0

\* What the manager takes for unused is unused.
FreshIsUnused == \A s \in Sandboxes : active[s] = "fresh" => Count("command", s) = 0

Once ==
  /\ backend = "docker" => \A s \in Sandboxes : Count("create", s) = 0 /\ Count("command", s) = 0
  /\ backend = "space" => Untouched /\ FirstToMake /\ FreshIsUnused /\ RunsAtMostOnce

\* Every step but these four sends nothing, brings no sandbox up and starts no call.
Quiet ==
  /\ UNCHANGED <<backend, applied>>
  /\ backend = "space" => \A s \in Sandboxes :
       /\ active'[s] = active[s] \/ active'[s] = "no" \/ (active[s] = "fresh" /\ active'[s] = "used")
       /\ effect'[s] = "none" => effect[s] = "none"
  /\ \A r \in Runs : at'[r] \in {"create", "boot"} => at'[r] = at[r] /\ code'[r] = code[r]

Loud(r) == Begin(r) \/ Create(r) \/ Boot(r) \/ Command(r)

LEMMA QuietKeepsOnce ==
  ASSUME Typed, Once, Quiet
  PROVE  Once'
<1>1. CASE backend = "docker"
  BY <1>1 DEF Once, Quiet, Count
<1>2. CASE backend = "space"
  <2> USE <1>2 DEF Once, Quiet, Count
  <2>1. Untouched'
    BY DEF Untouched
  <2>2. FirstToMake'
    <3> SUFFICES ASSUME NEW r \in Runs, at'[r] \in {"create", "boot"}
                 PROVE  /\ effect'[Call(r)'] # "none" /\ Count("command", Call(r))' = 0 /\ active'[Call(r)'] = "no"
                        /\ at'[r] = "create" => Count("create", Call(r))' = 0
      BY DEF FirstToMake
    <3>1. Call(r)' = Call(r) /\ Call(r) \in Sandboxes /\ at'[r] = at[r]
      BY DEF Typed, HasCode, Call, Sandboxes, InBody
    <3> QED
      BY <3>1 DEF FirstToMake
  <2>3. FreshIsUnused'
    BY DEF FreshIsUnused
  <2>4. RunsAtMostOnce'
    BY DEF RunsAtMostOnce
  <2> QED
    BY <2>1, <2>2, <2>3, <2>4
<1> QED
  BY <1>1, <1>2 DEF Typed, SandboxTypeOK

\* What a deletion does to the manager's sandboxes.
LEMMA DestroyQuiet ==
  ASSUME Typed, NEW s \in Sandboxes \cup {NoSandbox},
         NEW gone \in BOOLEAN, NEW proven \in BOOLEAN, Destroy(s, gone, proven)
  PROVE  UNCHANGED applied /\ \A t \in Sandboxes : active'[t] = active[t] \/ active'[t] = "no"
  BY DestroyTyped DEF Typed

LEMMA OthersAreQuiet ==
  ASSUME Typed, [Next]_vars, \A r \in Runs : ~Loud(r)
  PROVE  Quiet
<1>0. \A r \in Runs : body[r].own \in Sandboxes \cup {NoSandbox} /\ session[r] \in Sandboxes \cup {NoSandbox}
  BY DEF Typed, SandboxTypeOK
<1>1. ASSUME NEW r \in Runs, NodeStep(r) PROVE Quiet
  <2>1. UNCHANGED <<backend, effect, applied>>
    BY <1>1 DEF NodeStep, WriteCode, WaitForSlot, SlotRefused, StopOutside, Report, CleanupNode, Finish,
                Destroy, Remove, ledger, service
  <2>2. \A s \in Sandboxes : active'[s] = active[s] \/ active'[s] = "no"
    <3>1. CASE CleanupNode(r)
      BY <3>1, <1>0, DestroyQuiet DEF CleanupNode
    <3>2. CASE Finish(r)
      BY <3>2, <1>0, DestroyQuiet DEF Finish
    <3> QED
      BY <1>1, <3>1, <3>2 DEF NodeStep, WriteCode, WaitForSlot, SlotRefused, StopOutside, Report, manager
  <2>3. \A q \in Runs : at'[q] \in {"create", "boot"} => at'[q] = at[q] /\ code'[q] = code[q]
    <3>1. CASE WriteCode(r)
      BY <3>1 DEF WriteCode, Go, Typed, SandboxTypeOK
    <3> QED
      BY <1>1, <3>1 DEF NodeStep, WaitForSlot, SlotRefused, StopOutside, Report, CleanupNode, Finish, Go,
                        graphstate, Typed, SandboxTypeOK
  <2> QED
    BY <2>1, <2>2, <2>3 DEF Quiet
<1>2. ASSUME NEW r \in Runs, CallStep(r) PROVE Quiet
  <2>0. CASE CreateRefused(r) \/ Sweep(r) \/ CommandRefused(r) \/ Stream(r)
    BY <2>0 DEF CreateRefused, Sweep, CommandRefused, Stream, Go, graphstate, ledger, service, manager,
                Quiet, Typed, SandboxTypeOK
  <2>1. CASE CommandNotSent(r)
    BY <2>1 DEF CommandNotSent, Usable, Go, graphstate, ledger, service, Quiet, Typed, SandboxTypeOK
  <2>2. CASE StartContainer(r)
    BY <2>2 DEF StartContainer, Go, graphstate, ledger, Quiet, Typed, SandboxTypeOK
  <2>3. CASE RunInContainer(r)
    BY <2>3 DEF RunInContainer, Remove, Go, graphstate, ledger, service, Quiet, Typed, SandboxTypeOK
  <2>4. CASE Clean(r)
    <3>1. UNCHANGED applied /\ \A s \in Sandboxes : active'[s] = active[s] \/ active'[s] = "no"
      BY <2>4, <1>0, DestroyQuiet DEF Clean
    <3> QED
      BY <2>4, <3>1 DEF Clean, Go, graphstate, ledger, Quiet, Typed, SandboxTypeOK
  <2>5. CASE Settle(r)
    BY <2>5 DEF Settle, Go, graphstate, service, manager, Quiet, Typed, SandboxTypeOK
  <2> QED
    BY <1>2, <2>0, <2>1, <2>2, <2>3, <2>4, <2>5 DEF CallStep, Loud
<1>3. ASSUME NEW r \in Runs, Lose(r) \/ Retry(r) PROVE Quiet
  BY <1>3 DEF Lose, Retry, Go, graphstate, ledger, service, manager, Quiet, Typed, SandboxTypeOK
<1>4. Crash => Quiet
  BY DEF Crash, InBody, graphstate, ledger, service, Quiet
<1>5. ASSUME NEW u, Elsewhere(u) PROVE Quiet
  BY <1>5 DEF Elsewhere, graphstate, ledger, service, manager, Quiet
<1>6. ASSUME NEW s, IdleDelete(s) PROVE Quiet
  BY <1>6 DEF IdleDelete, graphstate, ledger, manager, Quiet
<1>7. UNCHANGED vars => Quiet
  BY DEF vars, graphstate, ledger, service, manager, Quiet
<1> QED
  BY <1>1, <1>2, <1>3, <1>4, <1>5, <1>6, <1>7 DEF Next

\* The four steps that count, in a remote sandbox and in a container.
LEMMA LoudKeepsOnce ==
  ASSUME Typed, Once, NEW r \in Runs, Loud(r)
  PROVE  Once'
<1> DEFINE mine == Call(r)
           own  == body[r].own
<1>0. /\ UNCHANGED <<backend, code>>
      /\ \A q \in Runs : q # r => at'[q] = at[q]
  BY DEF Loud, Begin, Create, Boot, Command, Go, graphstate, Typed, SandboxTypeOK
<1>1. CASE backend = "docker"
  <2>1. UNCHANGED applied
    BY <1>1 DEF Loud, Begin, Create, Boot, Command, service
  <2> QED
    BY <1>0, <1>1, <2>1 DEF Once, Count
<1>2. CASE backend = "space"
  <2>0. /\ mine \in Sandboxes
        /\ \A q \in Runs : Call(q)' = Call(q)
        /\ \A q \in Runs : q # r => Call(q) # mine
        /\ \A q \in Runs : at[q] \in {"execute"} \cup InBody => Call(q) \in Sandboxes
    BY <1>0 DEF Loud, Begin, Create, Boot, Command, Typed, HasCode, Call, Sandboxes, InBody
  <2>1. CASE Begin(r)
    <3>0. /\ UNCHANGED <<applied, active>>
          /\ \A t \in Sandboxes : t # mine => effect'[t] = effect[t]
          /\ effect'[mine] # "none"
          /\ at'[r] \in {"create", "boot"} => effect[mine] = "none"
      BY <1>2, <2>0, <2>1 DEF Begin, Go, service, manager, Typed, SandboxTypeOK
    <3> HIDE DEF mine, own
    <3>1. Untouched'
      BY <1>2, <2>0, <3>0 DEF Once, Untouched, FirstToMake, FreshIsUnused, Count, mine
    <3>2. FirstToMake'
      <4> SUFFICES ASSUME NEW q \in Runs, at'[q] \in {"create", "boot"}
                   PROVE  /\ effect'[Call(q)] # "none" /\ applied'["command"][Call(q)] = 0
                          /\ active'[Call(q)] = "no"
                          /\ at'[q] = "create" => applied'["create"][Call(q)] = 0
        BY <2>0 DEF FirstToMake, Count
      <4>1. CASE q # r
        BY <1>0, <1>2, <2>0, <3>0, <4>1 DEF Once, Untouched, FirstToMake, FreshIsUnused, Count, InBody
      <4>2. CASE q = r
        BY <1>0, <1>2, <2>0, <3>0, <4>2 DEF Once, Untouched, FirstToMake, FreshIsUnused, Count, InBody, mine
      <4> QED
        BY <4>1, <4>2
    <3>3. FreshIsUnused'
      BY <1>2, <2>0, <3>0 DEF Once, Untouched, FirstToMake, FreshIsUnused, Count, mine
    <3>4. RunsAtMostOnce'
      BY <1>2, <2>0, <3>0 DEF Once, FirstToMake, FreshIsUnused, RunsAtMostOnce, Count, mine
    <3> QED
      BY <1>0, <1>2, <3>1, <3>2, <3>3, <3>4 DEF Once
  <2>2. CASE Create(r)
    <3>0. /\ UNCHANGED <<effect, active>> /\ at[r] = "create" /\ at'[r] # "create"
          /\ \A t \in Sandboxes : applied'["command"][t] = applied["command"][t]
          /\ \A t \in Sandboxes : t # mine => applied'["create"][t] = applied["create"][t]
          /\ applied'["create"][mine] \in {applied["create"][mine], applied["create"][mine] + 1}
      BY <1>2, <2>0, <2>2 DEF Create, Go, Apply, service, manager, Typed, SandboxTypeOK
    <3> HIDE DEF mine, own
    <3>1. Untouched'
      BY <1>2, <2>0, <3>0 DEF Once, Untouched, FirstToMake, FreshIsUnused, Count, mine
    <3>2. FirstToMake'
      <4> SUFFICES ASSUME NEW q \in Runs, at'[q] \in {"create", "boot"}
                   PROVE  /\ effect'[Call(q)] # "none" /\ applied'["command"][Call(q)] = 0
                          /\ active'[Call(q)] = "no"
                          /\ at'[q] = "create" => applied'["create"][Call(q)] = 0
        BY <2>0 DEF FirstToMake, Count
      <4>1. CASE q # r
        BY <1>0, <1>2, <2>0, <3>0, <4>1 DEF Once, Untouched, FirstToMake, FreshIsUnused, Count, InBody
      <4>2. CASE q = r
        BY <1>0, <1>2, <2>0, <3>0, <4>2 DEF Once, Untouched, FirstToMake, FreshIsUnused, Count, InBody, mine
      <4> QED
        BY <4>1, <4>2
    <3>3. FreshIsUnused'
      BY <1>2, <2>0, <3>0 DEF Once, Untouched, FirstToMake, FreshIsUnused, Count, mine
    <3>4. RunsAtMostOnce'
      BY <1>2, <2>0, <3>0 DEF Once, FirstToMake, FreshIsUnused, RunsAtMostOnce, Count, mine
    <3> QED
      BY <1>0, <1>2, <3>1, <3>2, <3>3, <3>4 DEF Once
  <2>3. CASE Boot(r)
    <3>0. /\ UNCHANGED <<effect, applied>> /\ at[r] = "boot" /\ at'[r] \notin {"create", "boot"}
          /\ \A t \in Sandboxes : t # mine => active'[t] = active[t]
          /\ active'[mine] \in {active[mine], "fresh"}
      BY <1>2, <2>0, <2>3 DEF Boot, Go, ledger, service, Typed, SandboxTypeOK
    <3> HIDE DEF mine, own
    <3>1. Untouched'
      BY <1>2, <2>0, <3>0 DEF Once, Untouched, FirstToMake, FreshIsUnused, Count, mine
    <3>2. FirstToMake'
      <4> SUFFICES ASSUME NEW q \in Runs, at'[q] \in {"create", "boot"}
                   PROVE  /\ effect'[Call(q)] # "none" /\ applied'["command"][Call(q)] = 0
                          /\ active'[Call(q)] = "no"
                          /\ at'[q] = "create" => applied'["create"][Call(q)] = 0
        BY <2>0 DEF FirstToMake, Count
      <4>1. CASE q # r
        BY <1>0, <1>2, <2>0, <3>0, <4>1 DEF Once, Untouched, FirstToMake, FreshIsUnused, Count, InBody
      <4>2. CASE q = r
        BY <1>0, <1>2, <2>0, <3>0, <4>2 DEF Once, Untouched, FirstToMake, FreshIsUnused, Count, InBody, mine
      <4> QED
        BY <4>1, <4>2
    <3>3. FreshIsUnused'
      BY <1>2, <2>0, <3>0 DEF Once, Untouched, FirstToMake, FreshIsUnused, Count, mine
    <3>4. RunsAtMostOnce'
      BY <1>2, <2>0, <3>0 DEF Once, FirstToMake, FreshIsUnused, RunsAtMostOnce, Count, mine
    <3> QED
      BY <1>0, <1>2, <3>1, <3>2, <3>3, <3>4 DEF Once
  <2>4. CASE Command(r)
    <3>0. /\ UNCHANGED effect /\ at'[r] \notin {"create", "boot"} /\ own \in Sandboxes
          /\ active[own] = "fresh" /\ active'[own] = "used"
          /\ \A t \in Sandboxes : applied'["create"][t] = applied["create"][t]
          /\ \A t \in Sandboxes : t # own => active'[t] = active[t] /\ applied'["command"][t] = applied["command"][t]
          /\ applied'["command"][own] \in {applied["command"][own], applied["command"][own] + 1}
      BY <1>2, <2>0, <2>4 DEF Command, Usable, HasOwn, Go, Apply, Typed, SandboxTypeOK
    <3> HIDE DEF mine, own
    <3>1. Untouched'
      BY <1>2, <2>0, <3>0 DEF Once, Untouched, FirstToMake, FreshIsUnused, Count, mine
    <3>2. FirstToMake'
      <4> SUFFICES ASSUME NEW q \in Runs, at'[q] \in {"create", "boot"}
                   PROVE  /\ effect'[Call(q)] # "none" /\ applied'["command"][Call(q)] = 0
                          /\ active'[Call(q)] = "no"
                          /\ at'[q] = "create" => applied'["create"][Call(q)] = 0
        BY <2>0 DEF FirstToMake, Count
      <4>1. CASE q # r
        BY <1>0, <1>2, <2>0, <3>0, <4>1 DEF Once, Untouched, FirstToMake, FreshIsUnused, Count, InBody
      <4>2. CASE q = r
        BY <1>0, <1>2, <2>0, <3>0, <4>2 DEF Once, Untouched, FirstToMake, FreshIsUnused, Count, InBody, mine
      <4> QED
        BY <4>1, <4>2
    <3>3. FreshIsUnused'
      BY <1>2, <2>0, <3>0 DEF Once, Untouched, FirstToMake, FreshIsUnused, Count, mine
    <3>4. RunsAtMostOnce'
      BY <1>2, <2>0, <3>0 DEF Once, FirstToMake, FreshIsUnused, RunsAtMostOnce, Count, mine
    <3> QED
      BY <1>0, <1>2, <3>1, <3>2, <3>3, <3>4 DEF Once
  <2> QED
    BY <2>1, <2>2, <2>3, <2>4 DEF Loud
<1> QED
  BY <1>1, <1>2 DEF Typed, SandboxTypeOK

\* RunsAtMostOnce for every set of runs, programs and tries: through lost answers, lost
\* runs, crashes, retries and reused sessions, no sandbox is created twice and none runs
\* a second command.
THEOREM NothingRunsTwice == Spec => []RunsAtMostOnce
<1>1. Init => Once
  BY DEF Init, Once, Untouched, FirstToMake, FreshIsUnused, RunsAtMostOnce, Count
<1>2. Typed /\ Once /\ [Next]_vars => Once'
  <2> SUFFICES ASSUME Typed, Once, [Next]_vars PROVE Once'
    OBVIOUS
  <2>1. CASE \E r \in Runs : Loud(r)
    BY <2>1, LoudKeepsOnce
  <2>2. CASE \A r \in Runs : ~Loud(r)
    BY <2>2, OthersAreQuiet, QuietKeepsOnce
  <2> QED
    BY <2>1, <2>2
<1>3. Typed /\ Once => RunsAtMostOnce
  BY DEF Typed, SandboxTypeOK, Once, RunsAtMostOnce, Count
<1>4. Init => Typed
  BY TypedInit
<1>5. Typed /\ [Next]_vars => Typed'
  BY TypedNext
<1> QED
  BY <1>1, <1>2, <1>3, <1>4, <1>5, PTL DEF Spec

-----------------------------------------------------------------------------
(* A recorded release has happened                                          *)

Mine(r)  == {<<r, c>> : c \in Codes} \cup {NoSandbox}
Made(r)  == backend = "docker" => remote[Call(r)] # "none"
Ready(r) == body[r].own = Call(r) /\ active[Call(r)] # "no" /\ Made(r)

\* A run only handles sandboxes of its own.
KeepsToItsOwn(r) == session[r] \in Mine(r) /\ body[r].own \in Mine(r)

\* While a call is under way the ledger says so, and nobody else can finish it.
UnderWay(r) == at[r] \in InBody \ {"report"} => effect[Call(r)] = "started"

\* A sandbox that may take a command is the one of the call that is about to run it.
FreshIsMine(r) ==
  \A c \in Codes : active[<<r, c>>] = "fresh" =>
    /\ at[r] = "command" \/ (at[r] = "clean" /\ backend = "docker")
    /\ code[r] = c /\ body[r].own = Call(r) /\ Made(r)

\* A success comes from the call's own sandbox, and is settled when that is gone or named.
SuccessIsClean(r) ==
  /\ at[r] \in {"boot", "stream"} => backend = "space"
  /\ at[r] = "stream" => Ready(r)
  /\ at[r] = "clean" /\ body[r].verdict = "ok" => Ready(r)
  /\ at[r] = "sweep" => body[r].verdict # "ok"
  /\ at[r] = "settle" /\ body[r].verdict = "ok" => body[r].unclean \/ remote[Call(r)] = "gone"

Released(r) ==
  \A c \in Codes : effect[<<r, c>>] = "done" /\ <<r, c>> \notin kept => remote[<<r, c>>] = "gone"

Tidy(r) == KeepsToItsOwn(r) /\ UnderWay(r) /\ FreshIsMine(r) /\ SuccessIsClean(r) /\ Released(r)

\* What a step of one run leaves alone: everything of the others.
Apart(r) ==
  /\ UNCHANGED backend
  /\ \A q \in Runs : q # r =>
       /\ at'[q] = at[q] /\ code'[q] = code[q] /\ session'[q] = session[q] /\ body'[q] = body[q]
       /\ \A c \in Codes : /\ effect'[<<q, c>>] = effect[<<q, c>>] /\ active'[<<q, c>>] = active[<<q, c>>]
                           /\ remote'[<<q, c>>] = remote[<<q, c>>]
                           /\ <<q, c>> \in kept' <=> <<q, c>> \in kept

LEMMA ApartKeepsTidy ==
  ASSUME Typed, NEW r \in Runs, Apart(r), NEW q \in Runs, q # r, Tidy(q)
  PROVE  Tidy(q)'
<1>1. Call(q)' = Call(q)
  BY DEF Apart, Call
<1>2. KeepsToItsOwn(q)'
  BY DEF Apart, Tidy, KeepsToItsOwn, Mine
<1>3. UnderWay(q)'
  BY <1>1 DEF Apart, Tidy, UnderWay, Call, Typed, HasCode
<1>4. at[q] \in InBody => Made(q)' = Made(q) /\ active'[Call(q)] = active[Call(q)] /\ remote'[Call(q)] = remote[Call(q)]
  BY <1>1 DEF Apart, Made, Call, Typed, HasCode
<1>5. FreshIsMine(q)'
  BY <1>1, <1>4 DEF Apart, Tidy, FreshIsMine, InBody
<1>6. SuccessIsClean(q)'
  BY <1>1, <1>4 DEF Apart, Tidy, SuccessIsClean, Ready, InBody
<1>7. Released(q)'
  BY DEF Apart, Tidy, Released
<1> QED
  BY <1>2, <1>3, <1>5, <1>6, <1>7 DEF Tidy

\* A deletion by its owner touches nothing else, and never brings a sandbox back.
LEMMA DestroyApart ==
  ASSUME Typed, NEW r \in Runs, NEW s \in Mine(r), NEW gone \in BOOLEAN, NEW proven \in BOOLEAN,
         Destroy(s, gone, proven)
  PROVE  /\ \A t \in Sandboxes : t # s => active'[t] = active[t] /\ remote'[t] = remote[t]
         /\ \A t \in Sandboxes : /\ active'[t] \in {active[t], "no"}
                                /\ remote'[t] \in {remote[t], "gone"}
         /\ \A q \in Runs, c \in Codes : q # r => <<q, c>> \in Sandboxes /\ <<q, c>> # s
         /\ s = NoSandbox => UNCHANGED <<active, remote>>
         /\ s # NoSandbox /\ backend = "docker" => active'[s] = "no"
         /\ s # NoSandbox /\ backend = "docker" /\ proven /\ remote[s] # "none" => remote'[s] = "gone"
         /\ s # NoSandbox /\ backend = "space" /\ proven /\ active[s] # "no" => remote'[s] = "gone"
<1>1. s = NoSandbox \/ s \in Sandboxes
  BY DEF Mine, Sandboxes
<1>2. /\ \A q \in Runs, c \in Codes : q # r => <<q, c>> \in Sandboxes /\ <<q, c>> # s
      /\ NoSandbox \notin Sandboxes
  BY SandboxAssumption DEF Mine, Sandboxes
<1>3. /\ active \in [Sandboxes -> {"no", "fresh", "used"}] /\ remote \in [Sandboxes -> {"none", "alive", "gone"}]
      /\ backend \in {"docker", "space"}
  BY DEF Typed, SandboxTypeOK
<1> QED
  BY <1>1, <1>2, <1>3 DEF Destroy, Remove, service, manager

\* A run's step at home: what it may touch is its stage and body, and its own sandboxes.
LEMMA StepApart ==
  ASSUME Typed, NEW r \in Runs, Tidy(r), NodeStep(r) \/ CallStep(r) \/ Lose(r) \/ Retry(r)
  PROVE  Apart(r)
<1>0. /\ \A q \in Runs, c \in Codes : q # r => <<q, c>> \in Sandboxes /\ <<q, c>> # Call(r)
      /\ at[r] \in InBody => Call(r) \in Mine(r)
      /\ at[r] = "command" => body[r].own \in Sandboxes
      /\ \A q \in Runs, c \in Codes : q # r => <<q, c>> # body[r].own
      /\ body[r].own \in Mine(r) /\ session[r] \in Mine(r)
  BY SandboxAssumption DEF Typed, HasCode, HasOwn, Tidy, KeepsToItsOwn, Mine, Call, Sandboxes
<1>1. CASE NodeStep(r)
  <2>1. CASE WriteCode(r)
    BY <2>1 DEF WriteCode, Go, Apart, Typed, SandboxTypeOK, ledger, service, manager
  <2>2. CASE WaitForSlot(r) \/ SlotRefused(r) \/ StopOutside(r)
    BY <2>2 DEF WaitForSlot, SlotRefused, StopOutside, Go, Apart, Typed, SandboxTypeOK, graphstate, ledger, service,
                manager
  <2>3. CASE Report(r)
    BY <2>3 DEF Report, Go, Apart, Typed, SandboxTypeOK, ledger, service, manager
  <2>4. CASE CleanupNode(r)
    BY <2>4, <1>0, DestroyApart DEF CleanupNode, Go, Apart, Typed, SandboxTypeOK, ledger
  <2>5. CASE Finish(r)
    BY <2>5, <1>0, DestroyApart DEF Finish, Go, Apart, Typed, SandboxTypeOK, graphstate, ledger
  <2> QED
    BY <1>1, <2>1, <2>2, <2>3, <2>4, <2>5 DEF NodeStep
<1>2. CASE CallStep(r)
  <2> USE <1>0 DEF Go, Apart, Typed, SandboxTypeOK, graphstate
  <2>1. CASE Begin(r)
    BY <2>1 DEF Begin, service, manager
  <2>2. CASE Create(r)
    BY <2>2 DEF Create, End, service, manager
  <2>3. CASE CreateRefused(r) \/ CommandRefused(r) \/ Stream(r)
    BY <2>3 DEF CreateRefused, CommandRefused, Stream, End, ledger, service, manager
  <2>4. CASE Boot(r)
    BY <2>4 DEF Boot, End, ledger, service
  <2>5. CASE Sweep(r)
    BY <2>5 DEF Sweep, ledger, manager
  <2>6. CASE Command(r)
    BY <2>6 DEF Command, End
  <2>7. CASE CommandNotSent(r)
    BY <2>7 DEF CommandNotSent, End, ledger, service
  <2>8. CASE StartContainer(r)
    BY <2>8 DEF StartContainer, End, ledger
  <2>9. CASE RunInContainer(r)
    BY <2>9 DEF RunInContainer, Remove, End, ledger, service, manager
  <2>10. CASE Clean(r)
    BY <2>10, DestroyApart DEF Clean, ledger
  <2>11. CASE Settle(r)
    BY <2>11 DEF Settle, End, service, manager
  <2> QED
    BY <1>2, <2>1, <2>2, <2>3, <2>4, <2>5, <2>6, <2>7, <2>8, <2>9, <2>10, <2>11 DEF CallStep
<1>3. CASE Lose(r) \/ Retry(r)
  BY <1>3 DEF Lose, Retry, Go, Apart, Typed, SandboxTypeOK, graphstate, ledger, service, manager
<1> QED
  BY <1>1, <1>2, <1>3

\* Outside the calls, a run keeps tidy when nothing of its own comes back.
LEMMA CalmKeepsTidy ==
  ASSUME Typed, NEW r \in Runs, Tidy(r), at[r] \notin {"command", "clean"},
         at'[r] \notin InBody \ {"report"}, KeepsToItsOwn(r)',
         \A c \in Codes : /\ active'[<<r, c>>] \in {active[<<r, c>>], "no"}
                         /\ effect'[<<r, c>>] = effect[<<r, c>>]
                         /\ remote'[<<r, c>>] \in {remote[<<r, c>>], "gone"},
         UNCHANGED kept
  PROVE  Tidy(r)'
<1>1. UnderWay(r)' /\ SuccessIsClean(r)'
  BY DEF UnderWay, SuccessIsClean, InBody
<1>2. FreshIsMine(r)'
  BY DEF Tidy, FreshIsMine
<1>3. Released(r)'
  BY DEF Tidy, Released
<1> QED
  BY <1>1, <1>2, <1>3 DEF Tidy

LEMMA NodesTidy ==
  ASSUME Typed, NEW r \in Runs, Tidy(r), NodeStep(r) \/ Lose(r) \/ Retry(r)
  PROVE  Tidy(r)'
<1>0. /\ \A c \in Codes : <<r, c>> \in Sandboxes
      /\ session[r] \in Mine(r) /\ body[r].own \in Mine(r) /\ NoSandbox \in Mine(r)
  BY DEF Tidy, KeepsToItsOwn, Mine, Sandboxes
<1>1. CASE Lose(r)
  BY <1>1 DEF Lose, Tidy, KeepsToItsOwn, UnderWay, FreshIsMine, SuccessIsClean, Released, Ready, Made, Call,
              graphstate, ledger, service, manager
<1>2. CASE ~Lose(r)
  <2>1. at[r] \notin {"command", "clean"} /\ at'[r] \notin InBody \ {"report"}
    BY <1>2 DEF NodeStep, WriteCode, WaitForSlot, SlotRefused, StopOutside, Report, CleanupNode, Finish, Retry,
                Go, Typed, SandboxTypeOK, InBody
  <2>2. KeepsToItsOwn(r)'
    BY <1>0, <1>2 DEF NodeStep, WriteCode, WaitForSlot, SlotRefused, StopOutside, Report, CleanupNode, Finish, Retry,
                KeepsToItsOwn, Mine, NoBody, Typed, SandboxTypeOK, graphstate
  <2>3. /\ \A c \in Codes : /\ active'[<<r, c>>] \in {active[<<r, c>>], "no"}
                           /\ remote'[<<r, c>>] \in {remote[<<r, c>>], "gone"}
        /\ UNCHANGED <<effect, kept>>
    <3>1. CASE CleanupNode(r)
      BY <1>0, <3>1, DestroyApart DEF CleanupNode, ledger
    <3>2. CASE Finish(r)
      BY <1>0, <3>2, DestroyApart DEF Finish, ledger
    <3> QED
      BY <1>2, <3>1, <3>2 DEF NodeStep, WriteCode, WaitForSlot, SlotRefused, StopOutside, Report, Retry,
                              ledger, service, manager
  <2> QED
    BY <2>1, <2>2, <2>3, CalmKeepsTidy
<1> QED
  BY <1>1, <1>2

LEMMA CallsTidy ==
  ASSUME Typed, NEW r \in Runs, Tidy(r), CallStep(r)
  PROVE  Tidy(r)'
<1>0. /\ \A c \in Codes : <<r, c>> \in Sandboxes
      /\ session[r] \in Mine(r) /\ body[r].own \in Mine(r) /\ NoSandbox \in Mine(r)
      /\ Call(r) = <<r, code[r]>> /\ code[r] \in Codes /\ Call(r) \in Mine(r)
      /\ Call(r) \in Sandboxes /\ Call(r)' = Call(r) /\ UNCHANGED <<backend, code, session>>
      /\ NoSandbox \notin Sandboxes /\ backend \in {"docker", "space"}
      /\ at[r] = "command" => body[r].own \in Sandboxes
  BY SandboxAssumption
  DEF CallStep, Begin, Create, CreateRefused, Boot, Sweep, Command, CommandNotSent, CommandRefused, Stream,
      StartContainer, RunInContainer, Clean, Settle, graphstate, Tidy, KeepsToItsOwn, Mine, Sandboxes, Call,
      Typed, HasCode, HasOwn, InBody, SandboxTypeOK
<1> DEFINE mine == Call(r)
           own  == body[r].own
<1>v. /\ Verdict(r, "error") # "ok" /\ \A answer : VerdictOf(answer) # "ok"
      /\ \A verdict \in BootVerdicts \ {"ok"} : Verdict(r, verdict) # "ok"
  BY DEF Verdict, VerdictOf
<1>1. CASE Begin(r)
  <2>0. /\ UNCHANGED <<active, remote, kept>>
        /\ at[r] = "execute" /\ at'[r] \in {"create", "command", "report"}
        /\ \A c \in Codes : <<r, c>> # mine => effect'[<<r, c>>] = effect[<<r, c>>]
        /\ effect'[mine] # "done" \/ effect'[mine] = effect[mine]
        /\ at'[r] # "report" => effect'[mine] = "started"
    BY <1>0, <1>v, <1>1 DEF Begin, service, manager, Typed, SandboxTypeOK, Go
  <2>1. KeepsToItsOwn(r)'
    <3> DEFINE clean == mine \in kept
    <3>1. body'[r].own \in {session[r], mine, NoSandbox}
      <4>1. \E own2 \in {session[r], mine, NoSandbox} :
              \/ body' = [body EXCEPT ![r] = [NoBody EXCEPT !.own = own2]]
              \/ \E verdict : body' = [body EXCEPT ![r] = [NoBody EXCEPT !.own = own2, !.unclean = clean,
                                                                       !.verdict = verdict]]
        BY <1>1 DEF Begin
      <4> HIDE DEF clean, mine
      <4> QED
        BY <4>1 DEF NoBody, Typed, SandboxTypeOK
    <3> QED
      BY <1>0, <3>1 DEF KeepsToItsOwn, Mine
  <2>2. UnderWay(r)'
    BY <1>0, <2>0 DEF Tidy, UnderWay, InBody
  <2>3. FreshIsMine(r)'
    BY <1>0, <2>0 DEF Tidy, FreshIsMine, SuccessIsClean, Made
  <2>4. SuccessIsClean(r)'
    BY <1>0, <2>0 DEF Tidy, FreshIsMine, SuccessIsClean, Ready, Made
  <2>5. Released(r)'
    BY <1>0, <2>0 DEF Tidy, UnderWay, Released, InBody
  <2> QED
    BY <2>1, <2>2, <2>3, <2>4, <2>5 DEF Tidy
<1>2. CASE Create(r)
  <2>0. /\ UNCHANGED <<active, effect, kept>>
        /\ at[r] = "create" /\ at'[r] \in {"boot", "sweep", "settle"} /\ backend = "space"
        /\ \A c \in Codes : <<r, c>> # mine => remote'[<<r, c>>] = remote[<<r, c>>]
        /\ body'[r].own = own /\ (at'[r] # "boot" => body'[r].verdict # "ok")
    BY <1>0, <1>v, <1>2 DEF Create, service, manager, Typed, SandboxTypeOK, Go, End
  <2>1. KeepsToItsOwn(r)'
    BY <1>0, <2>0 DEF KeepsToItsOwn, Mine
  <2>2. UnderWay(r)'
    BY <1>0, <2>0 DEF Tidy, UnderWay, InBody
  <2>3. FreshIsMine(r)'
    BY <1>0, <2>0 DEF Tidy, FreshIsMine, SuccessIsClean, Made
  <2>4. SuccessIsClean(r)'
    BY <1>0, <2>0 DEF Tidy, FreshIsMine, SuccessIsClean, Ready, Made
  <2>5. Released(r)'
    BY <1>0, <2>0 DEF Tidy, UnderWay, Released, InBody
  <2> QED
    BY <2>1, <2>2, <2>3, <2>4, <2>5 DEF Tidy
<1>3. CASE CreateRefused(r)
  <2>0. /\ UNCHANGED <<active, remote, effect, kept>>
        /\ at[r] = "create" /\ at'[r] = "settle" /\ body'[r].own = own /\ body'[r].verdict # "ok"
    BY <1>0, <1>v, <1>3 DEF CreateRefused, ledger, service, manager, Typed, SandboxTypeOK, Go, End
  <2>1. KeepsToItsOwn(r)'
    BY <1>0, <2>0 DEF KeepsToItsOwn, Mine
  <2>2. UnderWay(r)'
    BY <1>0, <2>0 DEF Tidy, UnderWay, InBody
  <2>3. FreshIsMine(r)'
    BY <1>0, <2>0 DEF Tidy, FreshIsMine, SuccessIsClean, Made
  <2>4. SuccessIsClean(r)'
    BY <1>0, <2>0 DEF Tidy, FreshIsMine, SuccessIsClean, Ready, Made
  <2>5. Released(r)'
    BY <1>0, <2>0 DEF Tidy, UnderWay, Released, InBody
  <2> QED
    BY <2>1, <2>2, <2>3, <2>4, <2>5 DEF Tidy
<1>4. CASE Boot(r)
  <2>0. /\ UNCHANGED <<remote, effect, kept>>
        /\ at[r] = "boot" /\ at'[r] \in {"command", "sweep"}
        /\ \A c \in Codes : <<r, c>> # mine => active'[<<r, c>>] = active[<<r, c>>]
        /\ at'[r] = "sweep" => active' = active /\ body'[r].own = own /\ body'[r].verdict # "ok"
        /\ at'[r] = "command" => body'[r].own = mine
        /\ backend = "space"
    BY <1>0, <1>v, <1>4 DEF Boot, ledger, service, Tidy, SuccessIsClean, Typed, SandboxTypeOK, Go, End
  <2>1. KeepsToItsOwn(r)'
    BY <1>0, <2>0 DEF KeepsToItsOwn, Mine
  <2>2. UnderWay(r)'
    BY <1>0, <2>0 DEF Tidy, UnderWay, InBody
  <2>3. FreshIsMine(r)'
    BY <1>0, <2>0 DEF Tidy, FreshIsMine, SuccessIsClean, Made
  <2>4. SuccessIsClean(r)'
    BY <1>0, <2>0 DEF Tidy, FreshIsMine, SuccessIsClean, Ready, Made
  <2>5. Released(r)'
    BY <1>0, <2>0 DEF Tidy, UnderWay, Released, InBody
  <2> QED
    BY <2>1, <2>2, <2>3, <2>4, <2>5 DEF Tidy
<1>5. CASE Sweep(r)
  <2>0. /\ UNCHANGED <<active, effect, kept, body>>
        /\ at[r] = "sweep" /\ at'[r] = "settle"
        /\ \A c \in Codes : remote'[<<r, c>>] \in {remote[<<r, c>>], "gone"}
    BY <1>0, <1>v, <1>5 DEF Sweep, ledger, manager, Typed, SandboxTypeOK, Go, End
  <2>1. KeepsToItsOwn(r)'
    BY <1>0, <2>0 DEF KeepsToItsOwn, Mine
  <2>2. UnderWay(r)'
    BY <1>0, <2>0 DEF Tidy, UnderWay, InBody
  <2>3. FreshIsMine(r)'
    BY <1>0, <2>0 DEF Tidy, FreshIsMine, SuccessIsClean, Made
  <2>4. SuccessIsClean(r)'
    BY <1>0, <2>0 DEF Tidy, FreshIsMine, SuccessIsClean, Ready, Made
  <2>5. Released(r)'
    BY <1>0, <2>0 DEF Tidy, UnderWay, Released, InBody
  <2> QED
    BY <2>1, <2>2, <2>3, <2>4, <2>5 DEF Tidy
<1>6. CASE Command(r)
  <2>0. /\ UNCHANGED <<remote, effect, kept>>
        /\ at[r] = "command" /\ at'[r] \in {"stream", "clean"} /\ backend = "space"
        /\ own \in Sandboxes /\ active[own] = "fresh" /\ body'[r].own = own
        /\ \A c \in Codes : active'[<<r, c>>] = IF <<r, c>> = own THEN "used" ELSE active[<<r, c>>]
        /\ at'[r] = "clean" => body'[r].verdict # "ok"
    BY <1>0, <1>v, <1>6 DEF Command, Usable, Typed, SandboxTypeOK, Go, End
  <2>1. KeepsToItsOwn(r)'
    BY <1>0, <2>0 DEF KeepsToItsOwn, Mine
  <2>2. UnderWay(r)'
    BY <1>0, <2>0 DEF Tidy, UnderWay, InBody
  <2>3. FreshIsMine(r)'
    BY <1>0, <2>0 DEF Tidy, FreshIsMine, SuccessIsClean, Made
  <2>4. SuccessIsClean(r)'
    BY <1>0, <2>0 DEF Tidy, FreshIsMine, SuccessIsClean, Ready, Made, Mine, Sandboxes
  <2>5. Released(r)'
    BY <1>0, <2>0 DEF Tidy, UnderWay, Released, InBody
  <2> QED
    BY <2>1, <2>2, <2>3, <2>4, <2>5 DEF Tidy
<1>7. CASE CommandNotSent(r)
  <2>0. /\ UNCHANGED <<remote, effect, kept>>
        /\ at[r] = "command" /\ at'[r] = "clean" /\ backend = "space"
        /\ own \in Sandboxes /\ active[own] = "fresh" /\ body'[r].own = own
        /\ \A c \in Codes : active'[<<r, c>>] = IF <<r, c>> = own THEN "used" ELSE active[<<r, c>>]
        /\ body'[r].verdict # "ok"
    BY <1>0, <1>v, <1>7 DEF CommandNotSent, Usable, ledger, service, Typed, SandboxTypeOK, Go, End
  <2>1. KeepsToItsOwn(r)'
    BY <1>0, <2>0 DEF KeepsToItsOwn, Mine
  <2>2. UnderWay(r)'
    BY <1>0, <2>0 DEF Tidy, UnderWay, InBody
  <2>3. FreshIsMine(r)'
    BY <1>0, <2>0 DEF Tidy, FreshIsMine, SuccessIsClean, Made
  <2>4. SuccessIsClean(r)'
    BY <1>0, <2>0 DEF Tidy, FreshIsMine, SuccessIsClean, Ready, Made
  <2>5. Released(r)'
    BY <1>0, <2>0 DEF Tidy, UnderWay, Released, InBody
  <2> QED
    BY <2>1, <2>2, <2>3, <2>4, <2>5 DEF Tidy
<1>8. CASE CommandRefused(r)
  <2>0. /\ UNCHANGED <<active, remote, effect, kept>>
        /\ at[r] = "command" /\ at'[r] = "clean" /\ backend = "space"
        /\ active[own] # "fresh" /\ body'[r].own = own /\ body'[r].verdict # "ok"
    BY <1>0, <1>v, <1>8 DEF CommandRefused, Usable, ledger, service, manager, Typed, SandboxTypeOK, Go, End
  <2>1. KeepsToItsOwn(r)'
    BY <1>0, <2>0 DEF KeepsToItsOwn, Mine
  <2>2. UnderWay(r)'
    BY <1>0, <2>0 DEF Tidy, UnderWay, InBody
  <2>3. FreshIsMine(r)'
    BY <1>0, <2>0 DEF Tidy, FreshIsMine, SuccessIsClean, Made
  <2>4. SuccessIsClean(r)'
    BY <1>0, <2>0 DEF Tidy, FreshIsMine, SuccessIsClean, Ready, Made
  <2>5. Released(r)'
    BY <1>0, <2>0 DEF Tidy, UnderWay, Released, InBody
  <2> QED
    BY <2>1, <2>2, <2>3, <2>4, <2>5 DEF Tidy
<1>9. CASE Stream(r)
  <2>0. /\ UNCHANGED <<active, remote, effect, kept>>
        /\ at[r] = "stream" /\ at'[r] = "clean" /\ body'[r].own = own
    BY <1>0, <1>v, <1>9 DEF Stream, ledger, service, manager, Typed, SandboxTypeOK, Go, End
  <2>1. KeepsToItsOwn(r)'
    BY <1>0, <2>0 DEF KeepsToItsOwn, Mine
  <2>2. UnderWay(r)'
    BY <1>0, <2>0 DEF Tidy, UnderWay, InBody
  <2>3. FreshIsMine(r)'
    BY <1>0, <2>0 DEF Tidy, FreshIsMine, SuccessIsClean, Made
  <2>4. SuccessIsClean(r)'
    BY <1>0, <2>0 DEF Tidy, FreshIsMine, SuccessIsClean, Ready, Made
  <2>5. Released(r)'
    BY <1>0, <2>0 DEF Tidy, UnderWay, Released, InBody
  <2> QED
    BY <2>1, <2>2, <2>3, <2>4, <2>5 DEF Tidy
<1>10. CASE StartContainer(r)
  <2>0. /\ UNCHANGED <<effect, kept>>
        /\ at[r] = "create" /\ at'[r] \in {"command", "settle"} /\ backend = "docker"
        /\ \A c \in Codes : <<r, c>> # mine => active'[<<r, c>>] = active[<<r, c>>] /\ remote'[<<r, c>>] = remote[<<r, c>>]
        /\ at'[r] = "settle" => active' = active /\ body'[r].own = own /\ body'[r].verdict # "ok"
        /\ at'[r] = "command" => body'[r].own = mine /\ remote'[mine] = "alive"
    BY <1>0, <1>v, <1>10 DEF StartContainer, ledger, Typed, SandboxTypeOK, Go, End
  <2>1. KeepsToItsOwn(r)'
    BY <1>0, <2>0 DEF KeepsToItsOwn, Mine
  <2>2. UnderWay(r)'
    BY <1>0, <2>0 DEF Tidy, UnderWay, InBody
  <2>3. FreshIsMine(r)'
    BY <1>0, <2>0 DEF Tidy, FreshIsMine, SuccessIsClean, Made
  <2>4. SuccessIsClean(r)'
    BY <1>0, <2>0 DEF Tidy, FreshIsMine, SuccessIsClean, Ready, Made
  <2>5. Released(r)'
    BY <1>0, <2>0 DEF Tidy, UnderWay, Released, InBody
  <2> QED
    BY <2>1, <2>2, <2>3, <2>4, <2>5 DEF Tidy
<1>11. CASE RunInContainer(r)
  <2>0. /\ UNCHANGED <<effect, kept>>
        /\ at[r] = "command" /\ at'[r] = "clean" /\ backend = "docker" /\ own \in Sandboxes /\ body'[r].own = own
        /\ \A c \in Codes : /\ active'[<<r, c>>] \in {active[<<r, c>>], "no"}
                           /\ remote'[<<r, c>>] \in {remote[<<r, c>>], "gone"}
        /\ body'[r].verdict = "ok" => UNCHANGED <<active, remote>> /\ active[own] = "fresh"
    BY <1>0, <1>v, <1>11 DEF RunInContainer, Remove, ledger, service, manager, Typed, SandboxTypeOK, Go, End
  <2>1. KeepsToItsOwn(r)'
    BY <1>0, <2>0 DEF KeepsToItsOwn, Mine
  <2>2. UnderWay(r)'
    BY <1>0, <2>0 DEF Tidy, UnderWay, InBody
  <2>3. FreshIsMine(r)'
    BY <1>0, <2>0 DEF Tidy, FreshIsMine, SuccessIsClean, Made
  <2>4. SuccessIsClean(r)'
    BY <1>0, <2>0 DEF Tidy, FreshIsMine, SuccessIsClean, Ready, Made, Mine, Sandboxes
  <2>5. Released(r)'
    BY <1>0, <2>0 DEF Tidy, UnderWay, Released, InBody
  <2> QED
    BY <2>1, <2>2, <2>3, <2>4, <2>5 DEF Tidy
<1>12. CASE Clean(r)
  <2>0. /\ UNCHANGED <<effect, kept>>
        /\ at[r] = "clean" /\ at'[r] = "settle" /\ body'[r].own \in {own, NoSandbox}
        /\ \A c \in Codes : /\ active'[<<r, c>>] \in {active[<<r, c>>], "no"}
                           /\ remote'[<<r, c>>] \in {remote[<<r, c>>], "gone"}
        /\ own # NoSandbox /\ backend = "docker" => active'[own] = "no"
        /\ own # NoSandbox /\ ~body'[r].unclean /\ backend = "docker" /\ remote[own] # "none" => remote'[own] = "gone"
        /\ own # NoSandbox /\ ~body'[r].unclean /\ backend = "space" /\ active[own] # "no" => remote'[own] = "gone"
        /\ body'[r].verdict = body[r].verdict
    BY <1>0, <1>v, <1>12, DestroyApart DEF Clean, ledger, Typed, SandboxTypeOK, Go, End
  <2>1. KeepsToItsOwn(r)'
    BY <1>0, <2>0 DEF KeepsToItsOwn, Mine
  <2>2. UnderWay(r)'
    BY <1>0, <2>0 DEF Tidy, UnderWay, InBody
  <2>3. FreshIsMine(r)'
    BY <1>0, <2>0 DEF Tidy, FreshIsMine, SuccessIsClean, Made
  <2>4. SuccessIsClean(r)'
    BY <1>0, <2>0 DEF Tidy, FreshIsMine, SuccessIsClean, Ready, Made
  <2>5. Released(r)'
    BY <1>0, <2>0 DEF Tidy, UnderWay, Released, InBody
  <2> QED
    BY <2>1, <2>2, <2>3, <2>4, <2>5 DEF Tidy
<1>13. CASE Settle(r)
  <2>0. /\ UNCHANGED <<active, remote>>
        /\ at[r] = "settle" /\ at'[r] = "report" /\ body'[r].own = own
        /\ \A c \in Codes : <<r, c>> # mine => effect'[<<r, c>>] = effect[<<r, c>>]
        /\ kept \subseteq kept'
        /\ effect'[mine] = effect[mine] \/ effect'[mine] = "failed" \/ body[r].verdict = "ok"
        /\ effect'[mine] = "done" /\ body[r].verdict = "ok" => mine \in kept' \/ ~body[r].unclean \/ effect'[mine] = effect[mine]
    BY <1>0, <1>v, <1>13 DEF Settle, service, manager, Typed, SandboxTypeOK, Go, End
  <2>1. KeepsToItsOwn(r)'
    BY <1>0, <2>0 DEF KeepsToItsOwn, Mine
  <2>2. UnderWay(r)'
    BY <1>0, <2>0 DEF Tidy, UnderWay, InBody
  <2>3. FreshIsMine(r)'
    BY <1>0, <2>0 DEF Tidy, FreshIsMine, SuccessIsClean, Made
  <2>4. SuccessIsClean(r)'
    BY <1>0, <2>0 DEF Tidy, FreshIsMine, SuccessIsClean, Ready, Made
  <2>5. Released(r)'
    <3> SUFFICES ASSUME NEW c \in Codes, effect'[<<r, c>>] = "done", <<r, c>> \notin kept'
                 PROVE  remote'[<<r, c>>] = "gone"
      BY DEF Released
    <3>1. CASE <<r, c>> # mine
      <4>1. effect[<<r, c>>] = "done" /\ <<r, c>> \notin kept /\ remote' = remote
        BY <2>0, <3>1
      <4> QED
        BY <4>1 DEF Tidy, Released
    <3>2. CASE <<r, c>> = mine
      <4>1. effect[mine] = "started"
        BY <2>0 DEF Tidy, UnderWay, InBody
      <4>2. body[r].verdict = "ok" /\ ~body[r].unclean
        BY <2>0, <3>2, <4>1
      <4> QED
        BY <2>0, <3>2, <4>2 DEF Tidy, SuccessIsClean
    <3> QED
      BY <3>1, <3>2
  <2> QED
    BY <2>1, <2>2, <2>3, <2>4, <2>5 DEF Tidy
<1> QED
  BY <1>1, <1>2, <1>3, <1>4, <1>5, <1>6, <1>7, <1>8, <1>9, <1>10, <1>11, <1>12, <1>13 DEF CallStep

LEMMA WorldTidy ==
  ASSUME Typed, NEW r \in Runs, Tidy(r),
         Crash \/ (\E u : Elsewhere(u)) \/ (\E s \in Sandboxes : IdleDelete(s)) \/ UNCHANGED vars
  PROVE  Tidy(r)'
<1>1. CASE Crash
  <2>1. at'[r] \notin InBody /\ body'[r].own = NoSandbox /\ (\A c \in Codes : active'[<<r, c>>] = "no")
    BY <1>1 DEF Crash, InBody, NoBody, Sandboxes
  <2>2. Released(r)'
    BY <1>1 DEF Crash, Tidy, Released, ledger, service
  <2>3. KeepsToItsOwn(r)'
    BY <1>1, <2>1 DEF Crash, Tidy, KeepsToItsOwn, Mine, graphstate
  <2> QED
    BY <2>1, <2>2, <2>3 DEF Tidy, UnderWay, FreshIsMine, SuccessIsClean, InBody
<1>2. CASE UNCHANGED <<backend, at, code, session, body, effect, kept, remote, active>>
  BY <1>2 DEF Tidy, KeepsToItsOwn, UnderWay, FreshIsMine, SuccessIsClean, Released, Ready, Made, Mine, Call
<1>3. CASE \E s \in Sandboxes : IdleDelete(s)
  <2>1. /\ UNCHANGED <<backend, at, code, session, body, effect, kept, active>> /\ backend = "space"
        /\ \A t \in Sandboxes : remote'[t] \in {remote[t], "gone"}
    BY <1>3 DEF IdleDelete, graphstate, ledger, manager, Typed, SandboxTypeOK
  <2>2. Call(r)' = Call(r) /\ (\A c \in Codes : <<r, c>> \in Sandboxes)
    BY <2>1 DEF Call, Sandboxes
  <2>3. KeepsToItsOwn(r)' /\ UnderWay(r)' /\ FreshIsMine(r)' /\ Released(r)'
    BY <2>1, <2>2 DEF Tidy, KeepsToItsOwn, UnderWay, FreshIsMine, Released, Made, Mine
  <2>4. at[r] \in InBody => Call(r) \in Sandboxes
    BY DEF Typed, HasCode, Call, Sandboxes
  <2>5. SuccessIsClean(r)'
    BY <2>1, <2>2, <2>4 DEF Tidy, SuccessIsClean, Ready, Made, InBody
  <2> QED
    BY <2>3, <2>5 DEF Tidy
<1> QED
  BY <1>1, <1>2, <1>3 DEF Elsewhere, vars, graphstate, ledger, service, manager

AllTidy == \A r \in Runs : Tidy(r)

LEMMA TidyNext == Typed /\ AllTidy /\ [Next]_vars => AllTidy'
<1> SUFFICES ASSUME Typed, AllTidy, [Next]_vars, NEW q \in Runs PROVE Tidy(q)'
  BY DEF AllTidy
<1>1. Tidy(q)
  BY DEF AllTidy
<1>2. ASSUME NEW r \in Runs, NodeStep(r) \/ CallStep(r) \/ Lose(r) \/ Retry(r)
      PROVE  Tidy(q)'
  <2>1. CASE q = r
    BY <1>1, <1>2, <2>1, NodesTidy, CallsTidy
  <2>2. CASE q # r
    <3>1. Tidy(r)
      BY DEF AllTidy
    <3> QED
      BY <1>1, <1>2, <2>2, <3>1, StepApart, ApartKeepsTidy
  <2> QED
    BY <2>1, <2>2
<1> QED
  BY <1>1, <1>2, WorldTidy DEF Next

\* ReleasedMeansGone for every set of runs, programs and tries: a success the ledger holds
\* without a session names no sandbox that still exists, for both backends.
THEOREM ReleasesAreReal == Spec => []ReleasedMeansGone
<1>1. Init => AllTidy
  BY DEF Init, AllTidy, Tidy, KeepsToItsOwn, UnderWay, FreshIsMine, SuccessIsClean, Released, Mine, NoBody,
         Sandboxes, InBody
<1>2. Typed /\ AllTidy /\ [Next]_vars => AllTidy'
  BY TidyNext
<1>3. AllTidy => ReleasedMeansGone
  BY DEF AllTidy, Tidy, Released, ReleasedMeansGone, Sandboxes
<1>4. Init => Typed
  BY TypedInit
<1>5. Typed /\ [Next]_vars => Typed'
  BY TypedNext
<1> QED
  BY <1>1, <1>2, <1>3, <1>4, <1>5, PTL DEF Spec

=============================================================================
