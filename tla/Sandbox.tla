------------------------------ MODULE Sandbox ------------------------------
(***************************************************************************)
(* One sandboxed build: the runtime function (bobr-sandbox lib.rs and       *)
(* lifecycle.rs), the launcher's supervisor and its namespace init          *)
(* (launcher.rs), the step runner in that init (runner.rs) and the          *)
(* processes of the steps.  They share the cancellation FIFO, the handshake *)
(* pipe, the event pipe and the failure report file, and die by signals     *)
(* that arrive at any moment.                                               *)
(*                                                                          *)
(* A frame of the event pipe is its length and its payload, written one     *)
(* after the other.  A killed process may still take steps until it dies.   *)
(***************************************************************************)
EXTENDS Naturals, Sequences, FiniteSets

CONSTANTS NumSteps,   \* the steps of the recipe
          MaxKills,   \* kills from outside (out of memory) in a behaviour
          MaxStrays,  \* steps that leave something running
          PlainObject \* the Sandbox builder ($out), not SandboxInstall (overlay upper)

ASSUME SandboxAssumption ==
  NumSteps \in Nat \ {0} /\ MaxKills \in Nat /\ MaxStrays \in Nat /\ PlainObject \in BOOLEAN

VARIABLES
  fifo,      \* the cancellation FIFO has no writer any more
  pc,        \* the runtime function
  handshake, \* the wait pipe: "open", "byte" or "closed"
  sup,       \* the launcher's supervisor
  supCode,   \* its exit status
  supDoomed, \* SIGKILL is on its way to it
  init,      \* process 1 of the namespace, with the runner
  initCode,
  initDoomed,
  guarded,   \* its parent death signal was set while the parent lived
  step,      \* the step it is at
  main,      \* the process of each step
  stray,     \* what a step left running in the background
  writer,    \* the runner still has its end of the event pipe
  pipe,      \* parts of frames on their way
  decoder,   \* parts of an incomplete frame
  emitted,   \* events handed to the caller
  report,    \* the failure report file
  dirs,      \* the directories that exist: "workspace", "out"
  outcome,   \* what run_sandbox_and_capture returned
  result,    \* what the function returned
  explained, \* the report the caller was given
  fault,     \* the component that failed first, or the report it could not write
  kills

sandboxVars == <<fifo, pc, handshake, sup, supCode, supDoomed, init, initCode,
          initDoomed, guarded, step, main, stray, writer, pipe, decoder, emitted,
          report, dirs, outcome, result, explained, fault, kills>>
callerVars == <<pc, handshake, decoder, emitted, dirs, outcome, result, explained>>
supVars == <<sup, supCode, supDoomed>>
initVars == <<init, initCode, initDoomed, guarded, step, writer>>
procVars == <<main, stray>>

Steps == 1..NumSteps
Kinds == {"started", "finished", "failed"}
Event == [kind : Kinds, index : Steps]
Part == [event : Event, half : {"length", "payload"}]

SupEnded == sup \in {"none", "zombie", "gone"}
InitEnded == init \in {"none", "zombie", "gone"}
Running(i) == main[i] \in {"alive", "doomed"} \/ stray[i] \in {"alive", "doomed"}

SandboxTypeOK ==
  /\ fifo \in BOOLEAN /\ guarded \in BOOLEAN /\ writer \in BOOLEAN
  /\ supDoomed \in BOOLEAN /\ initDoomed \in BOOLEAN
  /\ pc \in {"open", "workspace", "prepare", "check", "spawning", "recheck", "ready", "drain",
             "wait", "poll", "kill", "reap", "stderr", "drained", "final", "capture",
             "cleanup", "done", "dead"}
  /\ handshake \in {"open", "byte", "closed"}
  /\ sup \in {"none", "fork", "config", "handshake", "setup", "wait", "zombie", "gone"}
  /\ init \in {"none", "born", "mount", "runner", "prepare", "start", "starting", "spawn",
               "step", "sweep", "end", "ending", "next", "report", "reporting", "finish", "zap",
               "zombie", "gone"}
  /\ supCode \in Nat /\ initCode \in Nat /\ step \in Steps /\ kills \in 0..MaxKills
  /\ main \in [Steps -> {"none", "alive", "doomed", "ok", "failed"}]
  /\ stray \in [Steps -> {"none", "alive", "doomed", "dead"}]
  /\ pipe \in Seq(Part) /\ decoder \in Seq(Part) /\ emitted \in Seq(Event)
  /\ report \in {"none", "empty", "partial", "launcher", "runner"}
  /\ dirs \subseteq {"workspace", "out"}
  /\ {outcome, result} \subseteq {"none", "completed", "cancelled", "error"}
  /\ explained \in {"none", "empty", "partial", "launcher", "runner"}
  /\ fault \in {"none", "config", "launcher", "runner", "report", "killed"}

SandboxInit ==
  /\ fifo = FALSE /\ pc = "open" /\ handshake = "open"
  /\ sup = "none" /\ supCode = 0 /\ supDoomed = FALSE
  /\ init = "none" /\ initCode = 0 /\ initDoomed = FALSE /\ guarded = FALSE
  /\ step = 1 /\ main = [i \in Steps |-> "none"] /\ stray = [i \in Steps |-> "none"]
  /\ writer = TRUE /\ pipe = <<>> /\ decoder = <<>> /\ emitted = <<>>
  /\ report = "none" /\ dirs = {} /\ outcome = "none" /\ result = "none"
  /\ explained = "none" /\ fault = "none" /\ kills = 0

Blame(who) == fault' = IF fault = "none" THEN who ELSE fault
\* write_launcher_failure: a report that cannot be written is let go.
LauncherReport ==
  \/ report' = "launcher" /\ Blame("launcher")
  \/ report' \in {report, "partial"} /\ fault' = "report"

------------------------------------------------------------------------------
(* The runtime function: run_sandbox_function, run_sandbox_and_capture and  *)
(* run_sandbox_launcher_command.                                            *)

Caller(from, to) == pc = from /\ pc' = to
Conclude(o) == outcome' = o /\ explained' = explained

\* Opens the FIFO and makes the directories; leaves before anything exists
\* when the run is cancelled already.
OpenCancellation ==
  /\ \/ fifo /\ Caller("open", "done") /\ result' = "cancelled"
     \/ Caller("open", "done") /\ result' = "error"
     \/ ~fifo /\ Caller("open", "workspace") /\ UNCHANGED result
  /\ UNCHANGED <<fifo, handshake, decoder, emitted, dirs, outcome, explained, report,
                 pipe, fault, kills, supVars, initVars, procVars>>

CreateDirs ==
  /\ \/ /\ Caller("workspace", "prepare")
        /\ dirs' = {"workspace"} \cup (IF PlainObject THEN {"out"} ELSE {})
        /\ UNCHANGED result
     \/ /\ Caller("workspace", "done")   \* the workspace or, after it, $out fails
        /\ result' = "error" /\ UNCHANGED dirs
  /\ UNCHANGED <<fifo, handshake, decoder, emitted, outcome, explained, report,
                 pipe, fault, kills, supVars, initVars, procVars>>

\* PreparedSandbox::create: an empty report and the two configurations.
Prepare ==
  /\ \/ Caller("prepare", "check") /\ report' = "empty" /\ UNCHANGED <<outcome, explained>>
     \/ Caller("prepare", "cleanup") /\ Conclude("error") /\ UNCHANGED report
  /\ UNCHANGED <<fifo, handshake, decoder, emitted, dirs, result, pipe, fault, kills,
                 supVars, initVars, procVars>>

\* The first look at the FIFO, the pipes, and the fork of the launcher.
SpawnLauncher ==
  /\ \/ fifo /\ Caller("check", "cleanup") /\ Conclude("cancelled") /\ UNCHANGED sup
     \/ Caller("check", "cleanup") /\ Conclude("error") /\ UNCHANGED sup
     \/ /\ ~fifo /\ Caller("check", "spawning") /\ sup' = "fork"
        /\ UNCHANGED <<outcome, explained>>
  /\ UNCHANGED <<fifo, handshake, decoder, emitted, dirs, result, report, pipe, fault,
                 kills, supCode, supDoomed, initVars, procVars>>

\* spawn returns when the child has passed exec or failed before it.
SpawnReturns ==
  /\ sup # "fork"
  /\ IF sup = "gone" THEN Caller("spawning", "cleanup") /\ Conclude("error")
                     ELSE Caller("spawning", "recheck") /\ UNCHANGED <<outcome, explained>>
  /\ UNCHANGED <<fifo, handshake, decoder, emitted, dirs, result, report, pipe, fault,
                 kills, supVars, initVars, procVars>>

\* The second look at the FIFO, and the byte that lets the launcher go; the
\* write fails when the launcher has ended and closed its end.
Recheck ==
  /\ \/ fifo /\ Caller("recheck", "kill") /\ Conclude("cancelled")
     \/ ~fifo /\ Caller("recheck", "ready") /\ UNCHANGED <<outcome, explained>>
  /\ UNCHANGED <<fifo, handshake, decoder, emitted, dirs, result, report, pipe, fault,
                 kills, supVars, initVars, procVars>>

WriteHandshake ==
  /\ IF SupEnded
     THEN /\ Caller("ready", "kill")
          /\ Conclude(IF fifo THEN "cancelled" ELSE "error")
          /\ UNCHANGED handshake
     ELSE /\ Caller("ready", "drain") /\ handshake' = "byte"
          /\ UNCHANGED <<outcome, explained>>
  /\ UNCHANGED <<fifo, decoder, emitted, dirs, result, report, pipe, fault, kills,
                 supVars, initVars, procVars>>

\* The decoder keeps the part of an incomplete frame and yields the events of
\* complete ones, in order: what follows a length is its payload.
Parts == decoder \o pipe
Decoded == [k \in 1..(Len(Parts) \div 2) |-> Parts[2 * k].event]
Rest == IF Len(Parts) % 2 = 1 THEN <<Parts[Len(Parts)]>> ELSE <<>>
DrainEvents == emitted' = emitted \o Decoded /\ decoder' = Rest /\ pipe' = <<>>
\* Handing one of them on fails; those after it are lost.
EmitFails ==
  /\ \E k \in 1..Len(Decoded) : emitted' = emitted \o SubSeq(Decoded, 1, k - 1)
  /\ decoder' = Rest /\ pipe' = <<>>

\* One round of the loop: drain, look for the exit status, poll.  When an
\* event cannot be handed on the guard of the child kills and reaps it.
Drain ==
  /\ \/ DrainEvents /\ Caller("drain", "wait") /\ UNCHANGED <<outcome, explained>>
     \/ EmitFails /\ Caller("drain", "kill") /\ Conclude("error")
  /\ UNCHANGED <<fifo, handshake, dirs, result, report, fault, kills, supVars, initVars,
                 procVars>>

TryWait ==
  /\ IF sup = "zombie" THEN Caller("wait", "final") /\ sup' = "gone"
                       ELSE Caller("wait", "poll") /\ UNCHANGED sup
  /\ UNCHANGED <<fifo, handshake, decoder, emitted, dirs, outcome, result, explained,
                 report, pipe, fault, kills, supCode, supDoomed, initVars, procVars>>

Poll ==
  /\ IF fifo THEN Caller("poll", "kill") /\ Conclude("cancelled")
             ELSE Caller("poll", "drain") /\ UNCHANGED <<outcome, explained>>
  /\ UNCHANGED <<fifo, handshake, decoder, emitted, dirs, result, report, pipe, fault,
                 kills, supVars, initVars, procVars>>

\* kill_and_reap: SIGKILL, then a wait for the supervisor and nobody else.
KillForgotten ==
  /\ Caller("kill", "reap")
  /\ UNCHANGED <<fifo, handshake, decoder, emitted, dirs, outcome, result, explained,
                 report, pipe, fault, kills, supVars, initVars, procVars>>
Kill ==
  /\ Caller("kill", "reap")
  /\ supDoomed' = ~SupEnded
  /\ UNCHANGED <<fifo, handshake, decoder, emitted, dirs, outcome, result, explained,
                 report, pipe, fault, kills, sup, supCode, initVars, procVars>>

Reap ==
  /\ SupEnded
  /\ Caller("reap", IF handshake = "byte" THEN "drained" ELSE "stderr")
  /\ sup' = "gone" /\ supDoomed' = FALSE
  /\ UNCHANGED <<fifo, handshake, decoder, emitted, dirs, outcome, result, explained,
                 report, pipe, fault, kills, supCode, initVars, procVars>>

\* terminate_child reads the launcher's stderr to its end, that is until no
\* process has it open.
ReadStderr ==
  /\ SupEnded /\ InitEnded
  /\ Caller("stderr", "cleanup")
  /\ UNCHANGED <<fifo, handshake, decoder, emitted, dirs, outcome, result, explained,
                 report, pipe, fault, kills, supVars, initVars, procVars>>

\* After a kill the events that are still in the pipe are handed on; an
\* error of the callback changes nothing.
DrainAfterKill ==
  /\ Caller("drained", "cleanup")
  /\ IF outcome = "cancelled" THEN DrainEvents \/ EmitFails ELSE UNCHANGED <<emitted, decoder, pipe>>
  /\ UNCHANGED <<fifo, handshake, dirs, outcome, result, explained, report, fault, kills,
                 supVars, initVars, procVars>>

\* The launcher has exited: the last events, which may not be wanted, the end
\* of the pipe, a frame cut off, the exit status, the report.
EventEof == SupEnded /\ (InitEnded \/ init = "zap")
FinalDrain ==
  /\ \/ EmitFails /\ Caller("final", "cleanup") /\ Conclude("error")
     \/ /\ DrainEvents
        /\ IF ~EventEof \/ Rest # <<>>
           THEN Caller("final", "cleanup") /\ Conclude("error")
           ELSE IF supCode = 0
                THEN Caller("final", "capture") /\ UNCHANGED <<outcome, explained>>
                ELSE Caller("final", "cleanup") /\ outcome' = "error" /\ explained' = report
  /\ UNCHANGED <<fifo, handshake, dirs, result, report, fault, kills, supVars, initVars,
                 procVars>>

\* The third look at the FIFO; then $out is chowned, or the upper layer is
\* checked and interned (SandboxLayer).
Capture ==
  /\ \/ fifo /\ Caller("capture", "cleanup") /\ Conclude("cancelled")
     \/ ~fifo /\ Caller("capture", "cleanup") /\ \E o \in {"completed", "error"} : Conclude(o)
  /\ UNCHANGED <<fifo, handshake, decoder, emitted, dirs, result, report, pipe, fault,
                 kills, supVars, initVars, procVars>>

\* $out is removed unless it is the artifact, the workspace always; both
\* removals are tried.  A process that is still alive can make one fail.
Busy == \E i \in Steps : Running(i)
Kept(o) == IF o = "completed" THEN dirs \cap {"out"} ELSE {}
Cleanup ==
  /\ Caller("cleanup", "done")
  /\ \/ dirs' = Kept(outcome) /\ result' = outcome
     \/ /\ Busy /\ result' = "error"
        /\ dirs' \in {d \in SUBSET dirs : Kept(outcome) \subseteq d /\ d # Kept(outcome)}
  /\ UNCHANGED <<fifo, handshake, decoder, emitted, outcome, explained, report, pipe,
                 fault, kills, supVars, initVars, procVars>>

------------------------------------------------------------------------------
(* The supervisor: launch and run_supervisor.                               *)

Sup(from, to) == sup = from /\ sup' = to
SupExit(from, code) == Sup(from, "zombie") /\ supCode' = code
NoCaller == UNCHANGED <<callerVars, fifo, kills, pipe>>

\* pre_exec: the parent death signal, and a look whether the parent has died
\* before it was set.
PreExec ==
  /\ \/ Sup("fork", "gone")
     \/ pc # "dead" /\ Sup("fork", "config")
  /\ UNCHANGED <<supCode, supDoomed, report, fault, initVars, procVars>> /\ NoCaller

\* An unreadable configuration or report ends the launcher without a report.
ReadConfig ==
  /\ \/ Sup("config", "handshake") /\ report' = "empty" /\ UNCHANGED <<supCode, fault>>
     \/ SupExit("config", 2) /\ Blame("config") /\ UNCHANGED report
  /\ UNCHANGED <<supDoomed, initVars, procVars>> /\ NoCaller

ReadHandshake ==
  /\ \/ handshake = "byte" /\ Sup("handshake", "setup") /\ UNCHANGED <<supCode, report, fault>>
     \/ handshake = "closed" /\ SupExit("handshake", 1) /\ LauncherReport
  /\ UNCHANGED <<supDoomed, initVars, procVars>> /\ NoCaller

\* The namespaces, the loopback, the mounts made private, then the fork of
\* process 1; the supervisor closes its end of the event pipe.
ForkInit ==
  /\ \/ Sup("setup", "wait") /\ init' = "born" /\ UNCHANGED <<supCode, report, fault>>
     \/ SupExit("setup", 1) /\ LauncherReport /\ UNCHANGED init
  /\ UNCHANGED <<supDoomed, initCode, initDoomed, guarded, step, writer, procVars>> /\ NoCaller

WaitForChild ==
  /\ init = "zombie" /\ init' = "gone"
  /\ SupExit("wait", initCode)
  /\ UNCHANGED <<supDoomed, report, fault, initCode, initDoomed, guarded, step, writer, procVars>>
  /\ NoCaller

\* A doomed supervisor dies; the kernel then signals process 1 if it has
\* asked for that while the supervisor lived.
SupDies ==
  /\ supDoomed /\ ~SupEnded
  /\ sup' = (IF pc = "dead" THEN "gone" ELSE "zombie") /\ supCode' = 137 /\ supDoomed' = FALSE
  /\ initDoomed' = (initDoomed \/ (guarded /\ ~InitEnded))
  /\ UNCHANGED <<report, fault, init, initCode, guarded, step, writer, procVars>> /\ NoCaller

------------------------------------------------------------------------------
(* Process 1 of the namespace: run_pid1 and the runner.                     *)

At(from, to) == init = from /\ init' = to
InitExit(from, code) == At(from, "zap") /\ initCode' = code
NoSup == UNCHANGED <<callerVars, supVars, fifo, kills>>

\* The parent death signal is asked for after the fork.
Guard ==
  /\ At("born", "mount") /\ guarded' = (sup = "wait")
  /\ UNCHANGED <<initCode, initDoomed, step, writer, pipe, report, fault, procVars>> /\ NoSup

\* The overlay, the mounts, chroot, the capabilities.
Mount ==
  /\ \/ At("mount", "runner") /\ UNCHANGED <<initCode, report, fault>>
     \/ InitExit("mount", 1) /\ LauncherReport
  /\ UNCHANGED <<initDoomed, guarded, step, writer, pipe, procVars>> /\ NoSup

\* run_config: an early failure, of the configuration or of a file the runner
\* creates, is reported through the launcher's handle; SandboxRunner::new
\* truncates the report through one of its own.
StartRunner ==
  /\ \/ At("runner", "prepare") /\ report' = "empty" /\ UNCHANGED <<initCode, fault>>
     \/ InitExit("runner", 2) /\ LauncherReport
  /\ UNCHANGED <<initDoomed, guarded, step, writer, pipe, procVars>> /\ NoSup

PreparePaths ==
  /\ \/ At("prepare", "start") /\ UNCHANGED <<initCode, fault>>
     \/ At("prepare", "report") /\ initCode' = 1 /\ Blame("runner")
  /\ UNCHANGED <<initDoomed, guarded, step, writer, pipe, report, procVars>> /\ NoSup

\* emit: the two writes of a frame.  With the reader gone the write fails and
\* the runner goes on without its writer.
ReaderGone == pc \in {"cleanup", "done", "dead"}
Emit(from, to, event, half) ==
  /\ At(from, to)
  /\ writer' = (writer /\ ~ReaderGone)
  /\ pipe' = IF writer' THEN Append(pipe, [event |-> event, half |-> half]) ELSE pipe
  /\ UNCHANGED <<initCode, initDoomed, guarded, step, report, fault, procVars>> /\ NoSup
StartEvent == [kind |-> "started", index |-> step]
Failing == initCode # 0
EndEvent == [kind |-> IF Failing THEN "failed" ELSE "finished", index |-> step]
EmitStarted == Emit("start", "starting", StartEvent, "length")
EmitStartedPayload == Emit("starting", "spawn", StartEvent, "payload")

\* A step that cannot be spawned fails without a sweep.
SpawnStep ==
  /\ \/ At("spawn", "step") /\ main' = [main EXCEPT ![step] = "alive"]
        /\ UNCHANGED <<initCode, fault>>
     \/ At("spawn", "end") /\ initCode' = 1 /\ Blame("runner") /\ UNCHANGED main
  /\ UNCHANGED <<initDoomed, guarded, step, writer, pipe, report, stray>> /\ NoSup

WaitStep ==
  /\ main[step] \in {"ok", "failed"}
  /\ At("step", "sweep")
  /\ initCode' = IF main[step] = "ok" THEN 0 ELSE 1
  /\ IF main[step] = "ok" THEN UNCHANGED fault ELSE Blame("runner")
  /\ UNCHANGED <<initDoomed, guarded, step, writer, pipe, report, procVars>> /\ NoSup

\* terminate_remaining_children: SIGTERM and SIGKILL to every process of the
\* namespace, and a wait for those that have ended already.
Doom(f) == [i \in Steps |-> IF f[i] = "alive" THEN "doomed" ELSE f[i]]
Sweep ==
  /\ At("sweep", "end")
  /\ main' = Doom(main) /\ stray' = Doom(stray)
  /\ UNCHANGED <<initCode, initDoomed, guarded, step, writer, pipe, report, fault>> /\ NoSup

EmitEndPayloadGoesOn ==
  Emit("ending", IF step < NumSteps THEN "next" ELSE "finish", EndEvent, "payload")
EmitEnd == Emit("end", "ending", EndEvent, "length")
EmitEndPayload == Emit("ending", IF Failing THEN "report"
                                 ELSE IF step < NumSteps THEN "next" ELSE "finish",
                       EndEvent, "payload")
NextStep ==
  /\ At("next", "start") /\ step' = step + 1
  /\ UNCHANGED <<initCode, initDoomed, guarded, writer, pipe, report, fault, procVars>> /\ NoSup

\* write_failure, through the runner's handle, in several writes, each of
\* which may fail.
WriteFailure ==
  /\ \/ At("report", "reporting") /\ report' = "partial" /\ UNCHANGED fault
     \/ At("reporting", "finish") /\ report' = "runner" /\ UNCHANGED fault
     \/ At("report", "finish") /\ fault' = "report" /\ UNCHANGED report
     \/ At("reporting", "finish") /\ fault' = "report" /\ UNCHANGED report
  /\ UNCHANGED <<initCode, initDoomed, guarded, step, writer, pipe, procVars>> /\ NoSup

\* exec ends with a second sweep; the exit of process 1 ends its namespace.
Finish ==
  /\ At("finish", "zap")
  /\ main' = Doom(main) /\ stray' = Doom(stray)
  /\ UNCHANGED <<initCode, initDoomed, guarded, step, writer, pipe, report, fault>> /\ NoSup

InitDies ==
  /\ initDoomed /\ ~InitEnded /\ init # "zap"
  /\ init' = "zap" /\ initCode' = 137 /\ Blame("killed")
  /\ UNCHANGED <<initDoomed, guarded, step, writer, pipe, report, procVars>> /\ NoSup

\* The kernel kills what is left in the namespace and lets process 1 become a
\* zombie when everything is dead; without a supervisor it is reaped at once.
Zap ==
  /\ init = "zap"
  /\ main' = Doom(main) /\ stray' = Doom(stray)
  /\ init' = IF Busy THEN "zap" ELSE IF sup = "wait" THEN "zombie" ELSE "gone"
  /\ <<main', stray', init'>> # <<main, stray, init>>
  /\ UNCHANGED <<initCode, initDoomed, guarded, step, writer, pipe, report, fault>> /\ NoSup

ReapedByHost ==
  /\ init = "zombie" /\ sup \in {"zombie", "gone"} /\ init' = "gone"
  /\ UNCHANGED <<initCode, initDoomed, guarded, step, writer, pipe, report, fault, procVars>>
  /\ NoSup

------------------------------------------------------------------------------
(* The processes of the steps, and the outside world.                       *)

NoInit == UNCHANGED <<initVars, pipe, report, fault>>
StepForks(i) ==
  /\ main[i] \in {"alive", "doomed"} /\ stray[i] = "none"
  /\ Cardinality({j \in Steps : stray[j] # "none"}) < MaxStrays
  /\ stray' = [stray EXCEPT ![i] = main[i]]
  /\ UNCHANGED main /\ NoInit /\ NoSup

StepExits(i) ==
  /\ main[i] = "alive"
  /\ main' = [main EXCEPT ![i] = "ok"] \/ main' = [main EXCEPT ![i] = "failed"]
  /\ UNCHANGED stray /\ NoInit /\ NoSup

ProcessDies(i) ==
  /\ \/ main[i] = "doomed" /\ main' = [main EXCEPT ![i] = "failed"] /\ UNCHANGED stray
     \/ stray[i] = "doomed" /\ stray' = [stray EXCEPT ![i] = "dead"] /\ UNCHANGED main
  /\ NoInit /\ NoSup

\* The run is cancelled: the token drops the only writer of the FIFO.
Cancel ==
  /\ ~fifo /\ fifo' = TRUE
  /\ UNCHANGED <<callerVars, supVars, initVars, procVars, pipe, report, fault, kills>>

\* The kernel kills the namespace init (out of memory).
OutsideKill ==
  /\ kills < MaxKills /\ ~InitEnded /\ init # "zap" /\ ~initDoomed
  /\ kills' = kills + 1 /\ initDoomed' = TRUE
  /\ UNCHANGED <<callerVars, supVars, fifo, pipe, report, fault, init, initCode, guarded, step,
                 writer, procVars>>

\* The worker process dies: its pipes close, the supervisor is signalled.
CallerDies ==
  /\ kills < MaxKills /\ kills' = kills + 1
  /\ pc \notin {"open", "done", "dead"} /\ pc' = "dead"
  /\ handshake' = IF handshake = "open" THEN "closed" ELSE handshake
  /\ supDoomed' = (sup \notin {"none", "fork", "zombie", "gone"})
  /\ sup' = IF sup = "zombie" THEN "gone" ELSE sup
  /\ Blame("killed")
  /\ UNCHANGED <<decoder, emitted, dirs, outcome, result, explained, fifo, pipe, report,
                 supCode, initVars, procVars>>

------------------------------------------------------------------------------
CallerStep ==
  \/ OpenCancellation \/ CreateDirs \/ Prepare \/ SpawnLauncher \/ SpawnReturns \/ Recheck
  \/ WriteHandshake \/ Drain \/ TryWait \/ Poll \/ Kill \/ Reap \/ ReadStderr
  \/ DrainAfterKill \/ FinalDrain \/ Capture \/ Cleanup
SupStep == PreExec \/ ReadConfig \/ ReadHandshake \/ ForkInit \/ WaitForChild
InitStep ==
  \/ Guard \/ Mount \/ StartRunner \/ PreparePaths \/ EmitStarted \/ EmitStartedPayload
  \/ SpawnStep \/ WaitStep \/ Sweep \/ EmitEnd \/ EmitEndPayload \/ NextStep \/ WriteFailure
  \/ Finish
Kernel == SupDies \/ InitDies \/ Zap \/ ReapedByHost \/ \E i \in Steps : ProcessDies(i)

SandboxNext ==
  \/ CallerStep \/ SupStep \/ InitStep \/ Kernel
  \/ \E i \in Steps : StepForks(i) \/ StepExits(i)
  \/ Cancel \/ OutsideKill \/ CallerDies
SandboxSpec == SandboxInit /\ [][SandboxNext]_sandboxVars

------------------------------------------------------------------------------
(* Properties.                                                              *)

Sent == emitted \o Decoded
AllGone == SupEnded /\ InitEnded /\ \A i \in Steps : ~Running(i)
Full == [k \in 1..(2 * NumSteps) |->
           [kind |-> IF k % 2 = 1 THEN "started" ELSE "finished", index |-> (k + 1) \div 2]]

\* A completed build ran every step to success, has handed on every event,
\* has left no process and no workspace, and keeps $out exactly for the
\* builder whose artifact it is; "cancelled" is only said of a cancelled run;
\* whatever else happened, nothing of an unfinished build stays unless the
\* supervisor was killed and a process outlived it for a moment
\* (lib.rs run_sandbox_function, lifecycle.rs run_sandbox_launcher_command).
EndJustified ==
  /\ result = "completed" =>
       /\ \A i \in Steps : main[i] = "ok"
       /\ emitted = Full
       /\ AllGone
       /\ dirs = IF PlainObject THEN {"out"} ELSE {}
  /\ result = "cancelled" => fifo /\ dirs = {}
  /\ result = "error" /\ dirs # {} => handshake = "byte" /\ supCode = 137
  /\ result = "error" => outcome # "completed"

\* The error of a failed launcher carries the report of the component that
\* failed first, whole, although the launcher and the runner write one file
\* through handles of their own; only a kill, a configuration that could not
\* be read or a failing write leaves it empty or cut off, and then it is
\* nobody else's
\* (reports.rs read_sandbox_failure_report, launcher.rs run_pid1, runner.rs).
FailureExplained ==
  explained # "none" =>
    CASE fault \in {"launcher", "runner"} /\ kills = 0 -> explained = fault
      [] fault = "config" -> explained = "empty"
      [] fault = "report" -> explained \in {"empty", "partial"}
      [] OTHER -> kills > 0

\* Events reach the caller in the order of the steps, each once, and say what
\* happened: a step is announced before it runs, as long as somebody listens,
\* and called finished or failed only when its process has ended and what it
\* left behind has been sent SIGKILL; the next step starts only then
\* (runner.rs run, terminate_remaining_children; protocol.rs SandboxEventDecoder).
EventsFaithful ==
  /\ \A k \in DOMAIN emitted :
       \/ emitted[k] = Full[k]
       \/ k = Len(emitted) /\ k % 2 = 0 /\ emitted[k] = [Full[k] EXCEPT !.kind = "failed"]
  /\ \A i \in Steps :
       /\ main[i] # "none" /\ writer /\ outcome # "error" /\ ~ReaderGone
            => \E k \in DOMAIN Sent : Sent[k] = [kind |-> "started", index |-> i]
       /\ (\E k \in DOMAIN emitted : emitted[k] = [kind |-> "finished", index |-> i])
            => main[i] = "ok" /\ stray[i] # "alive"
       /\ main[i] # "none" => \A j \in 1..(i - 1) : main[j] = "ok" /\ stray[j] # "alive"

\* A run ends in the way it says, a failure names its cause, and the events
\* on the way say what happened.
OutcomeJustified == EndJustified /\ FailureExplained /\ EventsFaithful

\* The run is cancelled or over, or its worker process has died.
SandboxOver == fifo \/ pc \in {"done", "dead"}
\* It is over, and every process of the sandbox has died; the only exception is
\* the one the launcher accepts, a supervisor killed between the fork of
\* process 1 and the request for its death signal (launcher.rs run_supervisor).
SandboxGone == pc \in {"done", "dead"} /\ (AllGone \/ (~InitEnded /\ ~guarded))
=============================================================================
