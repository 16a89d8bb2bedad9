--------------------------- MODULE NamespaceRuntime ---------------------------
(***************************************************************************)
(* Concurrent calls of the namespace runtime (bobr-runtime runtime_ns.rs    *)
(* and runtime_provider.rs).  Every call forks a worker from the one        *)
(* multi-threaded parent, so a worker inherits, until it execs, whatever    *)
(* pipe ends of other calls the parent had open at the moment of its fork;  *)
(* the end of a pipe is seen only when nobody holds its other side.         *)
(*                                                                          *)
(* A frame is one element of a pipe; "cut" is a frame whose writer died in  *)
(* the middle of it.  The child holds a copy of the write end of its own    *)
(* idmap pipe until it execs, so it never sees the end of that pipe and is  *)
(* ended by the parent's signal alone.                                      *)
(***************************************************************************)
EXTENDS Naturals, Sequences, FiniteSets

CONSTANTS Calls,      \* threads of the parent (numbers from 1), one call each
          BigInputs,  \* calls whose input does not fit into a pipe
          MaxEvents,  \* events a function emits
          MaxDeaths   \* workers killed from outside in a behaviour

ASSUME RuntimeAssumption ==
  /\ IsFiniteSet(Calls) /\ Calls \subseteq Nat \ {0} /\ BigInputs \subseteq Calls
  /\ MaxEvents \in Nat /\ MaxDeaths \in Nat

VARIABLES
  runtime,  \* the provider has its runtime: "none" or "ready"
  nextId,   \* the runtime's counter of calls
  id,       \* the number of each call
  thread,   \* where the caller's thread is
  worker,   \* where the worker process is
  code,     \* its exit status
  holders,  \* who has an end of a pipe of a call open
  ready,    \* bytes of the handshake: "userns", "idmap"
  request,  \* frames to the worker
  response, \* frames from it
  sentEvents, \* events the function has emitted
  seen,     \* events handed to the caller
  answer,   \* what the response loop found
  returned, \* what the call returned
  deaths

runtimeVars == <<runtime, nextId, id, thread, worker, code, holders, ready, request, response, sentEvents,
          seen, answer, returned, deaths>>

Parent == 0
Ends == {"usernsWrite", "requestRead", "requestWrite", "responseWrite", "responseRead"}
Worker(c) == c
NoId == 0
Frame == [kind : {"event", "ok", "err", "cut"}, id : Nat]

RuntimeTypeOK ==
  /\ runtime \in {"none", "ready"} /\ nextId \in Nat /\ id \in [Calls -> Nat]
  /\ thread \in [Calls -> {"idle", "pipes", "fork", "drop", "userns", "idmap", "send", "input",
                           "read", "wait", "kill", "reap", "done"}]
  /\ worker \in [Calls -> {"none", "setup", "ready", "request", "input", "run", "exit", "zombie",
                           "gone"}]
  /\ code \in [Calls -> Nat]
  /\ holders \in [Calls -> [Ends -> SUBSET ({Parent} \cup {Worker(c) : c \in Calls})]]
  /\ ready \in [Calls -> SUBSET {"userns", "idmap"}]
  /\ request \in [Calls -> Seq({"call", "input"})] /\ response \in [Calls -> Seq(Frame)]
  /\ sentEvents \in [Calls -> 0..MaxEvents] /\ seen \in [Calls -> 0..MaxEvents]
  /\ answer \in [Calls -> {"none", "ok", "err", "broken"}]
  /\ returned \in [Calls -> {"none", "ok", "err"}] /\ deaths \in 0..MaxDeaths

RuntimeInit ==
  /\ runtime = "none" /\ nextId = 1 /\ id = [c \in Calls |-> NoId]
  /\ thread = [c \in Calls |-> "idle"] /\ worker = [c \in Calls |-> "none"]
  /\ code = [c \in Calls |-> 0] /\ holders = [c \in Calls |-> [e \in Ends |-> {}]]
  /\ ready = [c \in Calls |-> {}] /\ request = [c \in Calls |-> <<>>]
  /\ response = [c \in Calls |-> <<>>]
  /\ sentEvents = [c \in Calls |-> 0] /\ seen = [c \in Calls |-> 0]
  /\ answer = [c \in Calls |-> "none"] /\ returned = [c \in Calls |-> "none"]
  /\ deaths = 0

Goes(c, from, to) == thread[c] = from /\ thread' = [thread EXCEPT ![c] = to]
Returns(c, from, r) == Goes(c, from, "done") /\ returned' = [returned EXCEPT ![c] = r]
Alive(c) == worker[c] \notin {"none", "zombie", "gone"}
Closed(c, end) == holders[c][end] = {}
\* A process lets go of the ends S of call c; of everything, when it dies.
Drop(h, p, c, S) == [h EXCEPT ![c] = [e \in Ends |-> IF e \in S THEN h[c][e] \ {p} ELSE h[c][e]]]
DropAll(h, p) == [c \in Calls |-> [e \in Ends |-> h[c][e] \ {p}]]

\* The provider makes its runtime for the first call, under its lock, and
\* keeps no failure: the next call tries again.
OpenRuntime(c) ==
  /\ \/ Goes(c, "idle", "pipes") /\ runtime' = "ready" /\ UNCHANGED returned
     \/ runtime = "none" /\ Returns(c, "idle", "err") /\ UNCHANGED runtime
  /\ UNCHANGED <<nextId, id, worker, code, holders, ready, request, response, sentEvents, seen,
                 answer, deaths>>

\* fork_ns_worker: the pipes, the fork, and the ends the parent gives up.
OpenPipes(c) ==
  /\ id' = [id EXCEPT ![c] = nextId] /\ nextId' = nextId + 1
  /\ \/ /\ Goes(c, "pipes", "fork") /\ UNCHANGED returned
        /\ holders' = [holders EXCEPT ![c] = [e \in Ends |-> {Parent}]]
     \/ Returns(c, "pipes", "err") /\ UNCHANGED holders
  /\ UNCHANGED <<runtime, worker, code, ready, request, response, sentEvents, seen, answer, deaths>>

Inherit(h, p) ==
  [d \in Calls |-> [e \in Ends |-> IF Parent \in h[d][e] THEN h[d][e] \cup {p} ELSE h[d][e]]]

Fork(c) ==
  /\ \/ /\ Goes(c, "fork", "drop")
        /\ worker' = [worker EXCEPT ![c] = "setup"]
        /\ holders' = Inherit(holders, Worker(c))
        /\ UNCHANGED returned
     \/ /\ Returns(c, "fork", "err") /\ holders' = Drop(holders, Parent, c, Ends)
        /\ UNCHANGED worker
  /\ UNCHANGED <<runtime, nextId, id, code, ready, request, response, sentEvents, seen, answer, deaths>>

ChildEnds == {"usernsWrite", "requestRead", "responseWrite"}
DropChildEnds(c) ==
  /\ Goes(c, "drop", "userns")
  /\ holders' = Drop(holders, Parent, c, ChildEnds)
  /\ UNCHANGED <<runtime, nextId, id, worker, code, ready, request, response, sentEvents, seen,
                 answer, returned, deaths>>

\* complete_namespace_setup: the worker's byte, or the end of that pipe; the
\* two idmap helpers; the parent's byte.
WaitUserns(c) ==
  /\ \/ "userns" \in ready[c] /\ Goes(c, "userns", "idmap")
     \/ "userns" \notin ready[c] /\ Closed(c, "usernsWrite") /\ Goes(c, "userns", "kill")
  /\ UNCHANGED <<runtime, nextId, id, worker, code, holders, ready, request, response, sentEvents,
                 seen, answer, returned, deaths>>

ConfigureIdMaps(c) ==
  /\ \/ Goes(c, "idmap", "send") /\ ready' = [ready EXCEPT ![c] = @ \cup {"idmap"}]
     \/ Goes(c, "idmap", "kill") /\ UNCHANGED ready
  /\ UNCHANGED <<runtime, nextId, id, worker, code, holders, request, response, sentEvents, seen,
                 answer, returned, deaths>>

\* send_call_and_read_response.  An input that does not fit into the pipe is
\* written as the worker reads it.
Broken(c, from) ==
  /\ Closed(c, "requestRead")
  /\ Goes(c, from, "kill") /\ answer' = [answer EXCEPT ![c] = "broken"]
  /\ holders' = Drop(holders, Parent, c, Ends)
  /\ UNCHANGED request
SendRequest(c) ==
  /\ \/ /\ ~Closed(c, "requestRead") /\ Goes(c, "send", "input")
        /\ request' = [request EXCEPT ![c] = Append(@, "call")] /\ UNCHANGED <<answer, holders>>
     \/ Broken(c, "send")
  /\ UNCHANGED <<runtime, nextId, id, worker, code, ready, response, sentEvents, seen,
                 returned, deaths>>

SendInput(c) ==
  /\ \/ /\ ~Closed(c, "requestRead") /\ (c \in BigInputs => worker[c] = "input")
        /\ Goes(c, "input", "read")
        /\ request' = [request EXCEPT ![c] = Append(@, "input")] /\ UNCHANGED <<answer, holders>>
     \/ Broken(c, "input")
  /\ UNCHANGED <<runtime, nextId, id, worker, code, ready, response, sentEvents, seen,
                 returned, deaths>>

\* One frame of the response; an end of file before or within a frame ends the
\* call.  A frame of another call would too, but the pipe is the call's own.
\* call_worker drops the protocol's ends before it waits for the worker.
ReadResponse(c) ==
  /\ \/ /\ response[c] # <<>> /\ Head(response[c]).id = id[c]
        /\ response' = [response EXCEPT ![c] = Tail(@)]
        /\ \/ /\ Head(response[c]).kind = "event" /\ Goes(c, "read", "read")
              /\ seen' = [seen EXCEPT ![c] = @ + 1] /\ UNCHANGED <<answer, holders>>
           \/ /\ Head(response[c]).kind \in {"ok", "err"} /\ Goes(c, "read", "wait")
              /\ answer' = [answer EXCEPT ![c] = Head(response[c]).kind] /\ UNCHANGED seen
              /\ holders' = Drop(holders, Parent, c, Ends)
     \/ /\ \A k \in DOMAIN response[c] : response[c][k].kind = "cut"
        /\ Closed(c, "responseWrite")
        /\ Goes(c, "read", "kill") /\ answer' = [answer EXCEPT ![c] = "broken"]
        /\ holders' = Drop(holders, Parent, c, Ends)
        /\ UNCHANGED <<response, seen>>
  /\ UNCHANGED <<runtime, nextId, id, worker, code, ready, request, sentEvents, returned,
                 deaths>>

\* Faulty variant: the exit status is not looked at.
VerdictTrusting(c) == answer[c]

\* call_worker waits for the worker, whose exit status counts whatever the
\* answer was.
Verdict(c) == IF answer[c] = "ok" /\ code[c] = 0 THEN "ok" ELSE "err"
WaitForWorker(c) ==
  /\ worker[c] = "zombie"
  /\ worker' = [worker EXCEPT ![c] = "gone"]
  /\ Returns(c, "wait", Verdict(c))
  /\ UNCHANGED <<runtime, nextId, id, code, holders, ready, request, response, sentEvents, seen, answer, deaths>>

\* terminate_child: SIGKILL to the worker's process group, or to the worker
\* when it has not made one yet, and a wait.
Dies(c, status) ==
  /\ worker' = [worker EXCEPT ![c] = "zombie"] /\ code' = [code EXCEPT ![c] = status]
  /\ holders' = DropAll(holders, Worker(c))

Terminate(c) ==
  /\ Goes(c, "kill", "reap")
  /\ IF Alive(c) THEN Dies(c, 137) ELSE UNCHANGED <<worker, code, holders>>
  /\ UNCHANGED <<runtime, nextId, id, ready, request, response, sentEvents, seen, answer, returned,
                 deaths>>

ReapKilled(c) ==
  /\ worker[c] = "zombie" /\ worker' = [worker EXCEPT ![c] = "gone"]
  /\ Returns(c, "reap", "err") /\ holders' = Drop(holders, Parent, c, Ends)
  /\ UNCHANGED <<runtime, nextId, id, code, ready, request, response, sentEvents, seen, answer, deaths>>

------------------------------------------------------------------------------
(* The worker: child_exec_ns_worker, then run_worker_once.                  *)

Works(c, from, to) == worker[c] = from /\ worker' = [worker EXCEPT ![c] = to]
NoThread == UNCHANGED <<runtime, nextId, id, thread, seen, answer, returned>>

\* stdio, the process group, the user namespace, the first byte; any of them
\* failing ends the child with status 127.
ChildSetup(c) ==
  /\ worker[c] = "setup"
  /\ \/ /\ Works(c, "setup", "ready") /\ ready' = [ready EXCEPT ![c] = @ \cup {"userns"}]
        /\ UNCHANGED <<code, holders>>
     \/ Dies(c, 127) /\ UNCHANGED ready
  /\ UNCHANGED <<request, response, sentEvents, deaths>> /\ NoThread

\* After the parent's byte: ids 0, and exec, which closes all inherited ends
\* but the two of the protocol.
ChildExec(c) ==
  /\ worker[c] = "ready" /\ "idmap" \in ready[c]
  /\ \/ /\ Works(c, "ready", "request") /\ UNCHANGED code
        /\ holders' = [d \in Calls |-> [e \in Ends |->
             IF d = c /\ e \in {"requestRead", "responseWrite"} THEN holders[d][e]
             ELSE holders[d][e] \ {Worker(c)}]]
     \/ Dies(c, 127)
  /\ UNCHANGED <<ready, request, response, sentEvents, deaths>> /\ NoThread

WorkerReads(c) ==
  /\ request[c] # <<>> /\ request' = [request EXCEPT ![c] = Tail(@)]
  /\ \/ Head(request[c]) = "call" /\ Works(c, "request", "input")
     \/ Head(request[c]) = "input" /\ Works(c, "input", "run")
  /\ UNCHANGED <<code, holders, ready, response, sentEvents, deaths>> /\ NoThread

Send(c, kind) == response' = [response EXCEPT ![c] = Append(@, [kind |-> kind, id |-> id[c]])]

\* emit: the header and the payload of an event, flushed together.
WorkerEvent(c) ==
  /\ worker[c] = "run" /\ sentEvents[c] < MaxEvents
  /\ sentEvents' = [sentEvents EXCEPT ![c] = @ + 1] /\ Send(c, "event")
  /\ UNCHANGED <<worker, code, holders, ready, request, deaths>> /\ NoThread

\* The function returns, fails, panics, or is not known.
WorkerAnswers(c) ==
  /\ Works(c, "run", "exit")
  /\ Send(c, "ok") \/ Send(c, "err")
  /\ UNCHANGED <<code, holders, ready, request, sentEvents, deaths>> /\ NoThread

WorkerExits(c) ==
  /\ worker[c] = "exit" /\ Dies(c, 0)
  /\ UNCHANGED <<ready, request, response, sentEvents, deaths>> /\ NoThread

\* A signal from outside; what the worker was writing is cut off.
WorkerKilled(c) ==
  /\ deaths < MaxDeaths /\ deaths' = deaths + 1
  /\ Alive(c) /\ Dies(c, 137)
  /\ \/ worker[c] = "run" /\ Send(c, "cut")
     \/ UNCHANGED response
  /\ UNCHANGED <<ready, request, sentEvents>> /\ NoThread

ThreadStep(c) ==
  \/ OpenRuntime(c) \/ OpenPipes(c) \/ Fork(c) \/ DropChildEnds(c) \/ WaitUserns(c)
  \/ ConfigureIdMaps(c) \/ SendRequest(c) \/ SendInput(c) \/ ReadResponse(c) \/ WaitForWorker(c)
  \/ Terminate(c) \/ ReapKilled(c)
WorkerStep(c) ==
  ChildSetup(c) \/ ChildExec(c) \/ WorkerReads(c) \/ WorkerAnswers(c) \/ WorkerExits(c)

RuntimeNext == \E c \in Calls : ThreadStep(c) \/ WorkerStep(c) \/ WorkerEvent(c) \/ WorkerKilled(c)
RuntimeSpec == RuntimeInit /\ [][RuntimeNext]_runtimeVars

------------------------------------------------------------------------------
\* A call returns an output only when its own worker said so and ended well,
\* and has then handed on every event the function emitted; it never hands on
\* more than were emitted (runtime_ns.rs call_worker,
\* send_call_and_read_response).
CallsMatch ==
  \A c \in Calls :
    /\ seen[c] <= sentEvents[c]
    /\ returned[c] = "ok" => worker[c] = "gone" /\ code[c] = 0 /\ seen[c] = sentEvents[c]
    /\ \A d \in Calls \ {c} : id[c] = id[d] => id[c] = NoId

\* A call that has returned has left no worker, not even an unreaped one, and
\* no pipe end in the parent, whichever way it ended
\* (runtime_ns.rs call_erased, terminate_child).
NothingLeftBehind ==
  \A c \in Calls : thread[c] = "done" =>
    worker[c] \in {"none", "gone"} /\ \A e \in Ends : Parent \notin holders[c][e]

\* A call gives back what its worker gave, and leaves nothing of it.
RuntimeCallsExact == CallsMatch /\ NothingLeftBehind
=============================================================================
