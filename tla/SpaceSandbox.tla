---------------------------- MODULE SpaceSandbox -----------------------------
(***************************************************************************)
(* Code execution in a sandbox: legal_agent/nodes.py (WriteCode,           *)
(* ExecuteCode, Cleanup), agent_tools/sandbox/executor.py (run_code_once), *)
(* the two backends - containers of the local Docker (manager.py), and     *)
(* remote one-shot sandboxes of SPACE (space_manager.py, space_client.py)  *)
(* -, the tool ledger of agent_runtime (context.py, store.py) and the      *)
(* slots of resources.py.                                                  *)
(*                                                                         *)
(* A tool call is named by its run and its code: that is its identity in   *)
(* the ledger, and also the name of the sandbox it may create.  A request  *)
(* that changes the remote side has two results, which need not agree:     *)
(* whether the service carried it out, and what the client learns.         *)
(*                                                                         *)
(* For Docker remote tells of the last container made for a call.  One     *)
(* that a crash or a failed start has left behind stays for good: nothing  *)
(* in the repository calls cleanup_orphans.                                *)
(***************************************************************************)
EXTENDS ResourceSlots, Functions

CONSTANTS
  Runs,          \* the runs of this process, each a user of the tool slots
  Codes,         \* the programs the model may write
  NoCode, NoSandbox,
  MaxTries       \* sandbox.max_retries

ASSUME SandboxAssumption == NoCode \notin Codes /\ NoSandbox \notin Runs \X Codes /\ Runs \subseteq Users
ASSUME TriesAssumption == MaxTries \in Nat \ {0}

VARIABLES
  backend,   \* sandbox.backend of the configuration
  held,      \* the runs that are neither cancelled nor overtaken
  at,        \* where each run is
  code, tries, session,   \* graph state: generated_code, sandbox_retries, sandbox_session_id
  body,      \* the locals of run_code_once, per run
  effect,    \* effects: the status of each tool call
  kept,      \* calls whose recorded result still names a session
  intents,   \* the requests recorded inside the effects
  remote,    \* the sandboxes as the service knows them
  applied,   \* how many requests of each kind it carried out (observed only)
  active,    \* the manager's _active
  cleaned    \* the manager's _cleaned

graphstate == <<code, tries, session>>
ledger     == <<effect, kept, intents>>
service    == <<remote, applied>>
manager    == <<active, cleaned>>
vars == <<slots, backend, held, at, graphstate, body, ledger, service, manager>>

Sandboxes == Runs \X Codes
Call(r)   == <<r, code[r]>>
NoBody    == [own |-> NoSandbox, verdict |-> "none", unclean |-> FALSE]

Init ==
  /\ SlotsInit
  /\ backend \in {"docker", "space"}
  /\ held = Runs
  /\ at = [r \in Runs |-> "write"]
  /\ code = [r \in Runs |-> NoCode]
  /\ tries = [r \in Runs |-> 0]
  /\ session = [r \in Runs |-> NoSandbox]
  /\ body = [r \in Runs |-> NoBody]
  /\ effect = [s \in Sandboxes |-> "none"]
  /\ kept = {} /\ intents = {}
  /\ remote = [s \in Sandboxes |-> "none"]
  /\ applied = [k \in {"create", "command"} |-> [s \in Sandboxes |-> 0]]
  /\ active = [s \in Sandboxes |-> "no"]
  /\ cleaned = {}

-----------------------------------------------------------------------------
(* Helpers *)

Go(r, stage)       == at' = [at EXCEPT ![r] = stage]
End(r, verdict)    == body' = [body EXCEPT ![r].verdict = verdict]

\* Every wait and every request checks the run first: a lost one stops the call.
Verdict(r, verdict) == IF r \in held THEN verdict ELSE "stopped"

\* UrllibTransport: connecting, sending or reading fails or runs into the timer; the
\* service may have carried the request out or not.
Unanswered == BOOLEAN \X {"timeout"}

\* request_json: a 5xx says nothing, a 4xx that the request was refused; a success may be
\* too long, no JSON, or name other things than those that were asked for.
Answered == ({TRUE} \X {"ok", "garbled"}) \cup (BOOLEAN \X {"5xx"}) \cup ({FALSE} \X {"4xx"})

Fates == Unanswered \cup Answered

\* What is learnt of a request that changes something.
VerdictOf(answer) == IF answer = "4xx" THEN "error" ELSE "unknown"

\* Polling while a sandbox comes up: it does, a bad state or an unreadable answer ends the
\* wait, or its time is over.  A guest that is not listening yet is asked again.
OperationEnds == [succeeded |-> "ok", failed |-> "error", unreadable |-> "error", late |-> "unknown"]
SandboxEnds   == [running |-> "ok", deleted |-> "error", unreadable |-> "error", late |-> "unknown"]
GuestEnds     == [listed |-> "ok", refused |-> "error", unreadable |-> "error", late |-> "unknown"]

\* The three waits one after the other; the first that fails decides.
BootVerdicts ==
  {"ok"} \cup UNION {Range(ends) \ {"ok"} : ends \in {OperationEnds, SandboxEnds, GuestEnds}}

\* validate_attach and open_events: the command runs, whatever is wrong with the way to it.
AttachEnds == [attached |-> "ok", foreign_url |-> "unknown", expired |-> "unknown", refused |-> "unknown"]

\* SpaceEventStream: why reading stops before the service says so.
Interruptions ==
  {"deadline", "read_failed", "frame_too_long", "stream_too_long", "not_json", "cut_off"}

\* What ends the reading before the process has: only too much output is an error of its own.
StreamEnds ==
  [why \in Interruptions \cup {"alarm", "closed", "output_limit"} |->
     IF why = "output_limit" THEN "error" ELSE "unknown"]

\* The last frame of the process, and what its output is worth.
ExitEnds == [foreign |-> "unknown", malformed |-> "unknown", killed |-> "error", nonzero |-> "error",
             no_json |-> "unknown", reported |-> "error", empty |-> "unknown", overlong |-> "error",
             result |-> "ok"]

\* _consume_command.
StreamVerdicts == Range(StreamEnds) \cup Range(ExitEnds)

\* _persist: refused once the run is lost.
Recorded(r, s, kind) == r \in held /\ intents' = intents \cup {<<s, kind>>}

Apply(s, kind) == applied' = [applied EXCEPT ![kind][s] = @ + 1]

\* destroy_session of the Docker manager: the entry goes whatever happens, the container is
\* found by its name, and one that is gone already is as good as removed.
Remove(s, gone, proven) ==
  /\ gone => remote[s] = "alive"
  /\ proven => gone \/ remote[s] # "alive"
  /\ remote' = IF gone THEN [remote EXCEPT ![s] = "gone"] ELSE remote
  /\ active' = [active EXCEPT ![s] = "no"]
  /\ UNCHANGED <<applied, cleaned>>

\* Variant: an accepted DELETE counts as done, whatever its operation says.
DestroyOnAccept(s, gone, proven) ==
  \/ s = NoSandbox /\ proven /\ UNCHANGED <<service, manager>>
  \/ /\ s # NoSandbox
     /\ gone \/ proven
     /\ remote' = IF gone THEN [remote EXCEPT ![s] = "gone"] ELSE remote
     /\ active' = IF proven THEN [active EXCEPT ![s] = "no"] ELSE active
     /\ cleaned' = IF proven THEN cleaned \cup {s} ELSE cleaned
     /\ UNCHANGED applied

\* destroy_session: the entry goes only when the delete operation has succeeded.
Destroy(s, gone, proven) ==
  \/ s = NoSandbox /\ proven /\ ~gone /\ UNCHANGED <<service, manager>>
  \/ backend = "docker" /\ s # NoSandbox /\ Remove(s, gone, proven)
  \/ backend = "space" /\ s # NoSandbox /\ active[s] = "no" /\ ~gone /\ proven = (s \in cleaned)
     /\ UNCHANGED <<service, manager>>
  \/ /\ backend = "space" /\ s # NoSandbox /\ active[s] # "no"
     /\ proven => gone
     /\ remote' = IF gone THEN [remote EXCEPT ![s] = "gone"] ELSE remote
     /\ active' = IF proven THEN [active EXCEPT ![s] = "no"] ELSE active
     /\ cleaned' = IF proven THEN cleaned \cup {s} ELSE cleaned
     /\ UNCHANGED applied

-----------------------------------------------------------------------------
(* The workflow's nodes around the tool call *)

WriteCode(r) ==
  /\ at[r] = "write" /\ r \in held
  /\ \E c \in Codes : code' = [code EXCEPT ![r] = c]
  /\ Go(r, "execute")
  /\ UNCHANGED <<slots, backend, held, tries, session, body, ledger, service, manager>>

\* ExecuteCode waits for the tool slot...
WaitForSlot(r) ==
  /\ at[r] = "execute" /\ r \in held
  /\ UseSlot(r)
  /\ UNCHANGED <<backend, held, at, graphstate, body, ledger, service, manager>>

\* ...unless the queue is full or the run is lost meanwhile.
SlotRefused(r) ==
  /\ at[r] = "execute"
  /\ TurnedAway(r) \/ (r \notin held /\ Leave(r))
  /\ Go(r, "stopping")
  /\ UNCHANGED <<backend, held, graphstate, body, ledger, service, manager>>

StopOutside(r) ==
  /\ at[r] \in {"write", "execute", "cleanup"} /\ step[r] = "out" /\ r \notin held
  /\ Go(r, "stopping")
  /\ UNCHANGED <<slots, backend, held, graphstate, body, ledger, service, manager>>

-----------------------------------------------------------------------------
(* The tool call *)

\* Variant: a failed call is started again, as a read-only one would be.
BeginRetries(r) ==
  LET known == effect[Call(r)] IN
  /\ at[r] = "execute" /\ step[r] = "inside" /\ r \in held
  /\ effect' = [effect EXCEPT ![Call(r)] = IF known = "done" THEN @ ELSE "started"]
  /\ Go(r, IF known = "done" THEN "report" ELSE IF session[r] = NoSandbox THEN "create" ELSE "command")
  /\ body' = [body EXCEPT ![r] = [NoBody EXCEPT !.own = session[r],
                                  !.verdict = IF known = "done" THEN "ok" ELSE "none"]]
  /\ UNCHANGED <<slots, backend, held, graphstate, kept, intents, service, manager>>

\* begin_effect: a recorded success is returned again; whatever else is known of it, the
\* call of a container is made again, while that of a remote sandbox, a write tool, is
\* OutcomeUnknown.  A session kept from the last call is used again.
Begin(r) ==
  LET known == effect[Call(r)] IN
  /\ at[r] = "execute" /\ step[r] = "inside" /\ r \in held
  /\ IF known = "none" \/ (backend = "docker" /\ known # "done")
     THEN /\ effect' = [effect EXCEPT ![Call(r)] = "started"]
          /\ Go(r, IF session[r] = NoSandbox THEN "create" ELSE "command")
          /\ body' = [body EXCEPT ![r] = [NoBody EXCEPT !.own = session[r]]]
     ELSE /\ Go(r, "report")
          /\ body' = [body EXCEPT ![r] = [NoBody EXCEPT
                !.own = IF Call(r) \in kept THEN Call(r) ELSE NoSandbox,
                !.unclean = Call(r) \in kept,
                !.verdict = IF known = "done" THEN "ok" ELSE "unknown"]]
          /\ UNCHANGED effect
  /\ UNCHANGED <<slots, backend, held, graphstate, kept, intents, service, manager>>

\* Variant: a request that cannot be recorded is sent all the same.
CreateUnrecorded(r) ==
  /\ backend = "space" /\ at[r] = "create"
  /\ intents' = IF r \in held THEN intents \cup {<<Call(r), "create">>} ELSE intents
  /\ remote' = [remote EXCEPT ![Call(r)] = "alive"] /\ Apply(Call(r), "create")
  /\ Go(r, "boot")
  /\ UNCHANGED <<slots, backend, held, graphstate, body, effect, kept, manager>>

\* start_session up to the create request.  A partial answer may name the sandbox.
Create(r) ==
  /\ backend = "space" /\ at[r] = "create"
  /\ Recorded(r, Call(r), "create")
  /\ \E fate \in Fates, partial \in BOOLEAN :
       /\ partial => fate = <<TRUE, "garbled">>
       /\ IF fate[1] THEN remote' = [remote EXCEPT ![Call(r)] = "alive"] /\ Apply(Call(r), "create")
                     ELSE UNCHANGED service
       /\ IF fate[2] = "ok" THEN Go(r, "boot") /\ UNCHANGED body
          ELSE Go(r, IF partial THEN "sweep" ELSE "settle") /\ End(r, VerdictOf(fate[2]))
  /\ UNCHANGED <<slots, backend, held, graphstate, effect, kept, manager>>

\* Its answer is recorded, and the creation, the sandbox and its guest are waited for.
Boot(r) ==
  /\ at[r] = "boot"
  /\ \/ /\ r \in held
        /\ active' = [active EXCEPT ![Call(r)] = "fresh"]
        /\ body' = [body EXCEPT ![r].own = Call(r)]
        /\ Go(r, "command")
     \/ /\ \E verdict \in BootVerdicts \ {"ok"} : End(r, Verdict(r, verdict))
        /\ Go(r, "sweep")
        /\ UNCHANGED active
  /\ UNCHANGED <<slots, backend, held, graphstate, ledger, service, cleaned>>

\* _destroy_best_effort of a sandbox that did not come up: whatever comes of it.
Sweep(r) ==
  /\ at[r] = "sweep"
  /\ \E gone \in BOOLEAN : remote' = IF gone THEN [remote EXCEPT ![Call(r)] = "gone"] ELSE remote
  /\ Go(r, "settle")
  /\ UNCHANGED <<slots, backend, held, graphstate, body, ledger, applied, manager>>

\* _entry: only a sandbox this manager made for this run, and never for a second command.
Usable(s) == active[s] = "fresh"

\* execute_code up to the command request.
Command(r) ==
  LET s == body[r].own IN
  /\ backend = "space" /\ at[r] = "command" /\ Usable(s)
  /\ active' = [active EXCEPT ![s] = "used"]
  /\ Recorded(r, s, "command")
  /\ \E fate \in Fates :
       /\ IF fate[1] THEN remote[s] = "alive" /\ Apply(s, "command")
                     ELSE UNCHANGED applied
       /\ IF fate[2] = "ok" THEN Go(r, "stream") /\ UNCHANGED body
          ELSE Go(r, "clean") /\ End(r, VerdictOf(fate[2]))
  /\ UNCHANGED <<slots, backend, held, graphstate, effect, kept, remote, cleaned>>

\* The run is lost, or what is left of its time is too short for a command.
CommandNotSent(r) ==
  LET s == body[r].own IN
  /\ backend = "space" /\ at[r] = "command" /\ Usable(s)
  /\ active' = [active EXCEPT ![s] = "used"]
  /\ End(r, Verdict(r, "error")) /\ Go(r, "clean")
  /\ UNCHANGED <<slots, backend, held, graphstate, ledger, service, cleaned>>

CommandRefused(r) ==
  /\ backend = "space" /\ at[r] = "command" /\ ~Usable(body[r].own)
  /\ End(r, "unavailable") /\ Go(r, "clean")
  /\ UNCHANGED <<slots, backend, held, graphstate, ledger, service, manager>>

\* start_session of the Docker manager; there may be no daemon to make a manager for, and a
\* container that does not start is there all the same.
StartContainer(r) ==
  /\ backend = "docker" /\ at[r] = "create"
  /\ \/ /\ remote' = [remote EXCEPT ![Call(r)] = "alive"]
        /\ active' = [active EXCEPT ![Call(r)] = "fresh"]
        /\ body' = [body EXCEPT ![r].own = Call(r)]
        /\ Go(r, "command")
     \/ /\ \E made \in BOOLEAN, verdict \in {"error", "unavailable"} :
             /\ made => verdict = "error"
             /\ remote' = IF made THEN [remote EXCEPT ![Call(r)] = "alive"] ELSE remote
             /\ End(r, verdict)
        /\ Go(r, "settle")
        /\ UNCHANGED active
  /\ UNCHANGED <<slots, backend, held, graphstate, ledger, applied, cleaned>>

\* execute_code of the Docker manager: a timeout, the loss of the run and every exception
\* remove the container.  A session it does not know is a ValueError, like a fault of the code.
RunInContainer(r) ==
  LET s == body[r].own IN
  /\ backend = "docker" /\ at[r] = "command"
  /\ \/ /\ active[s] = "fresh"
        /\ \E verdict \in {"ok", "error"} : End(r, verdict)
        /\ UNCHANGED <<service, manager>>
     \/ /\ active[s] = "fresh"
        /\ \E gone, proven \in BOOLEAN :
             /\ Remove(s, gone, proven)
             /\ \E verdict \in {"error"} \cup (IF proven THEN {Verdict(r, "error")} ELSE {}) : End(r, verdict)
     \/ /\ active[s] = "no"
        /\ End(r, "error")
        /\ UNCHANGED <<service, manager>>
  /\ Go(r, "clean")
  /\ UNCHANGED <<slots, backend, held, graphstate, ledger>>

\* The command is attached to and its stream is read to the end.
Stream(r) ==
  /\ at[r] = "stream"
  /\ \E verdict \in (Range(AttachEnds) \ {"ok"}) \cup StreamVerdicts : End(r, Verdict(r, verdict))
  /\ Go(r, "clean")
  /\ UNCHANGED <<slots, backend, held, graphstate, ledger, service, manager>>

\* cleanup in run_code_once, whatever the body's verdict and whoever holds the run.
Clean(r) ==
  /\ at[r] = "clean"
  /\ \E gone, proven \in BOOLEAN :
       /\ Destroy(body[r].own, gone, proven)
       /\ body' = [body EXCEPT ![r].own = IF proven THEN NoSandbox ELSE @, ![r].unclean = ~proven]
  /\ Go(r, "settle")
  /\ UNCHANGED <<slots, backend, held, graphstate, ledger>>

\* RunContext.tool records success or failure, if the run is still held.
Settle(r) ==
  /\ at[r] = "settle"
  /\ IF r \in held
     THEN /\ effect' = [effect EXCEPT ![Call(r)] = IF body[r].verdict = "ok" THEN "done" ELSE "failed"]
          /\ kept' = IF body[r].verdict = "ok" /\ body[r].unclean THEN kept \cup {Call(r)} ELSE kept
          /\ UNCHANGED body
     ELSE End(r, "stopped") /\ UNCHANGED <<effect, kept>>
  /\ Go(r, "report")
  /\ UNCHANGED <<slots, backend, held, graphstate, intents, service, manager>>

\* ExecuteCode returns its update and route_after_execute chooses; an unknown outcome or
\* a lost run ends the execution.
Report(r) ==
  LET verdict == body[r].verdict
      ends == verdict \in {"unknown", "stopped"} \/ r \notin held
      again == verdict = "error" /\ tries[r] + 1 < MaxTries
  IN
  /\ at[r] = "report"
  /\ Leave(r)
  /\ body' = [body EXCEPT ![r] = NoBody]
  /\ Go(r, IF ends THEN "stopping" ELSE IF again THEN "write" ELSE "cleanup")
  /\ session' = IF ends THEN session ELSE [session EXCEPT ![r] = body[r].own]
  /\ tries' = IF ends \/ verdict = "ok" THEN tries
              ELSE [tries EXCEPT ![r] = IF again THEN @ + 1 ELSE MaxTries]
  /\ UNCHANGED <<backend, held, code, ledger, service, manager>>

\* The Cleanup node forgets the session only when it is gone.
CleanupNode(r) ==
  /\ at[r] = "cleanup" /\ r \in held
  /\ \E gone, proven \in BOOLEAN :
       /\ Destroy(session[r], gone, proven)
       /\ session' = [session EXCEPT ![r] = IF proven THEN NoSandbox ELSE @]
  /\ Go(r, "finish")
  /\ UNCHANGED <<slots, backend, held, code, tries, body, ledger>>

\* The finally clause of AgentService.execute tries once more, however the run ended; the
\* graph state is no longer its to change.
Finish(r) ==
  /\ at[r] \in {"finish", "stopping"}
  /\ \E gone, proven \in BOOLEAN : Destroy(session[r], gone, proven)
  /\ Go(r, IF at[r] = "finish" THEN "done" ELSE "stopped")
  /\ UNCHANGED <<slots, backend, held, graphstate, body, ledger>>

-----------------------------------------------------------------------------
(* The environment *)

Lose(r) ==
  /\ r \in held
  /\ at[r] \notin {"done", "stopped"}
  /\ held' = held \ {r}
  /\ UNCHANGED <<slots, backend, at, graphstate, body, ledger, service, manager>>

\* A failed run that is still held is queued again, at the node it failed in.
Retry(r) ==
  /\ at[r] = "stopped" /\ r \in held
  /\ Go(r, IF code[r] = NoCode THEN "write" ELSE "execute")
  /\ UNCHANGED <<slots, backend, held, graphstate, body, ledger, service, manager>>

\* The process dies: the manager's memory and the locks are gone, and recovery runs the
\* interrupted nodes again.
InBody == {"create", "boot", "sweep", "command", "stream", "clean", "settle", "report"}
Crash ==
  /\ \E r \in Runs : at[r] \in InBody
  /\ at' = [r \in Runs |-> IF at[r] \in InBody THEN "execute" ELSE at[r]]
  /\ DropLocks(Runs)
  /\ body' = [r \in Runs |-> NoBody]
  /\ active' = [s \in Sandboxes |-> "no"] /\ cleaned' = {}
  /\ UNCHANGED <<backend, held, graphstate, ledger, service>>

\* idle_action: the service deletes a sandbox nobody uses (idle_timeout is far longer than
\* a call may take).
IdleDelete(s) ==
  /\ backend = "space" /\ remote[s] = "alive"
  /\ \A r \in Runs : at[r] \in InBody => s \notin {Call(r), body[r].own}
  /\ remote' = [remote EXCEPT ![s] = "gone"]
  /\ UNCHANGED <<slots, backend, held, at, graphstate, body, ledger, applied, manager>>

\* Another process uses the tool slots too.
Elsewhere(u) ==
  /\ UseSlot(u) \/ TurnedAway(u) \/ Leave(u)
  /\ UNCHANGED <<backend, held, at, graphstate, body, ledger, service, manager>>

NodeStep(r) == WriteCode(r) \/ WaitForSlot(r) \/ SlotRefused(r) \/ StopOutside(r)
               \/ Report(r) \/ CleanupNode(r) \/ Finish(r)

\* start_session gives up before its request: the run is lost, its time is over or the
\* request is too long.
CreateRefused(r) ==
  /\ backend = "space" /\ at[r] = "create"
  /\ End(r, Verdict(r, "error")) /\ Go(r, "settle")
  /\ UNCHANGED <<slots, backend, held, graphstate, ledger, service, manager>>

CallStep(r) == Begin(r) \/ Create(r) \/ CreateRefused(r) \/ Boot(r) \/ Sweep(r) \/ Command(r)
               \/ CommandNotSent(r) \/ CommandRefused(r) \/ Stream(r)
               \/ StartContainer(r) \/ RunInContainer(r) \/ Clean(r) \/ Settle(r)

Next ==
  \/ \E r \in Runs : NodeStep(r) \/ CallStep(r) \/ Lose(r) \/ Retry(r)
  \/ Crash
  \/ \E u \in Users \ Runs : Elsewhere(u)
  \/ \E s \in Sandboxes : IdleDelete(s)

\* Every request has a timeout and every wait a deadline, so a call that is under way goes on.
Fairness ==
  /\ \A r \in Runs : WF_vars(WaitForSlot(r) \/ SlotRefused(r) \/ CallStep(r) \/ Report(r))
  /\ \A u \in Users \ Runs : WF_vars(slot[u] # 0 /\ Elsewhere(u))

Spec == Init /\ [][Next]_vars
FairSpec == Spec /\ Fairness

-----------------------------------------------------------------------------
(* Properties *)

\* Every variable stays in its range.
SandboxTypeOK ==
  /\ SlotsTypeOK
  /\ backend \in {"docker", "space"}
  /\ held \subseteq Runs
  /\ at \in [Runs -> {"write", "execute", "cleanup", "finish", "stopping", "done", "stopped"} \cup InBody]
  /\ code \in [Runs -> Codes \cup {NoCode}]
  /\ tries \in [Runs -> 0 .. MaxTries]
  /\ session \in [Runs -> Sandboxes \cup {NoSandbox}]
  /\ body \in [Runs -> [own : Sandboxes \cup {NoSandbox}, unclean : BOOLEAN,
                        verdict : {"none", "ok", "error", "unavailable", "unknown", "stopped"}]]
  /\ effect \in [Sandboxes -> {"none", "started", "done", "failed"}]
  /\ kept \subseteq Sandboxes
  /\ intents \subseteq Sandboxes \X {"create", "command"}
  /\ remote \in [Sandboxes -> {"none", "alive", "gone"}]
  /\ applied \in [{"create", "command"} -> [Sandboxes -> Nat]]
  /\ active \in [Sandboxes -> {"no", "fresh", "used"}]
  /\ cleaned \subseteq Sandboxes

\* Nothing with a side effect is done twice: no code makes the service create a second
\* sandbox, and no sandbox runs a second command, through retries, crashes and reuse.
RunsAtMostOnce == \A s \in Sandboxes : applied["create"][s] <= 1 /\ applied["command"][s] <= 1

\* What the service carried out can be found in the ledger, even after a crash.
NothingUnrecorded ==
  \A s \in Sandboxes, kind \in {"create", "command"} :
    applied[kind][s] > 0 => <<s, kind>> \in intents

\* The ledger does not claim a release that did not happen: a recorded success that keeps
\* no session has no sandbox left.
ReleasedMeansGone ==
  \A s \in Sandboxes : effect[s] = "done" /\ s \notin kept => remote[s] = "gone"

\* Whoever holds a tool slot gives it back.
SlotsComeBack == \A u \in Users : slot[u] # 0 ~> slot[u] = 0

=============================================================================
