---------------------------- MODULE BuildExecutor ----------------------------
(***************************************************************************)
(* The build executor of bobr-source (src/bobr-source/src/                 *)
(* build_executor.rs): submitter tasks, the dispatcher thread that owns    *)
(* the FIFO of pending jobs, one worker thread per active job, the bounded *)
(* command channel between them, the capacity semaphore, and the lifetime  *)
(* of a job's scratch directory and terminal log event up to publication.  *)
(*                                                                         *)
(* A job is abstracted to its identity and its cancellation token.  What a *)
(* builder computes is abstracted to whether it succeeds, fails, notices   *)
(* the cancellation of its token or panics.                                *)
(***************************************************************************)
EXTENDS Naturals, FiniteSets, Sequences

CONSTANTS
  Jobs,           \* jobs the clients may submit, each at most once
  Tokens,         \* cancellation tokens
  TokenOf,        \* the token a job was created with (clones share one flag)
  JobLimit,       \* the argument jobs of BuildExecutor::new
  QueueCapacity,  \* the argument queue_capacity of BuildExecutor::new
  Events,         \* what the environment may do in this instance (a bound)
  NoJob           \* stands for the job of a command that names none

\* Failures of a step, and choices of the clients and of the owner.
EventKinds ==
  {"workspace", "scratch", "build", "panic", "spawn", "publish"}
    \cup {"cancel", "abandon", "dropHandle", "dropExecutor", "shutdown", "signal"}

ASSUME JobsAssumption     == IsFiniteSet(Jobs) /\ NoJob \notin Jobs
ASSUME TokenAssumption    == TokenOf \in [Jobs -> Tokens]
ASSUME LimitAssumption    == JobLimit \in Nat \ {0}
ASSUME CapacityAssumption == QueueCapacity \in Nat \ {0}
ASSUME EventAssumption    == Events \subseteq EventKinds

VARIABLES
  pc,         \* per job, where its submitter task is
  outcome,    \* per job, what the submitter ended with
  holds,      \* jobs whose client still owns a clone of the handle
  asked,      \* jobs for which handle.cancel has been called
  owner,      \* the BuildExecutor value: in use, shutting down, or gone
  acked,      \* the dispatcher acknowledged the shutdown
  channel,    \* the bounded command channel
  permit,     \* jobs that own a permit of the capacity semaphore
  slot,       \* per job, the oneshot that carries its result
  dpc,        \* control state of the dispatcher thread
  joining,    \* the job whose worker the dispatcher joins, or NoJob
  queue,      \* pending jobs of the dispatcher
  active,     \* keys of the dispatcher's map of active jobs
  shuttingDown,
  worker,     \* per job, control state of its worker thread
  cancelled,  \* tokens that have been cancelled
  scratch,    \* jobs whose scratch directory is guarded
  log         \* per job, its Start and terminal log events

clientVars == <<pc, outcome, holds, asked>>
ownerVars  == <<owner, acked>>
wireVars   == <<channel, permit, slot>>
dispVars   == <<dpc, joining, queue, active, shuttingDown>>
workVars   == <<worker, scratch, log>>
vars == <<clientVars, ownerVars, wireVars, dispVars, workVars, cancelled>>

----------------------------------------------------------------------------
(* State predicates and helpers.                                          *)

Capacity == JobLimit + QueueCapacity

Errors == {"Cancelled", "Closed", "Run", "Build", "Panic", "Setup", "Publish"}
WorkerResults == {"Staged", "Cancelled", "Run", "Build", "Panic"}
SlotStates == {"open", "lost", "Closed", "Setup"} \cup WorkerResults
TerminalStatuses == {"Done", "Failed", "Cancelled"}
Commands == [kind : {"Submit", "Cancel", "Finished"}, job : Jobs]
              \cup [kind : {"Shutdown"}, job : {NoJob}]
Command(k, j) == [kind |-> k, job |-> j]

IsCancelled(j) == TokenOf[j] \in cancelled

InChannel(k) == {channel[i].job : i \in {n \in 1..Len(channel) : channel[n].kind = k}}
InQueue == {queue[i] : i \in 1..Len(queue)}

\* VecDeque::remove(i).
Without(q, i) == [k \in 1..(Len(q) - 1) |-> IF k < i THEN q[k] ELSE q[k + 1]]

\* A worker thread exists from its spawn until it has returned.
LiveWorkers == {j \in Jobs : worker[j] \notin {"none", "exited"}}

HasRoom == Len(channel) < QueueCapacity

\* Somebody owns a strong sender: the executor, a client, or a worker.
SenderAlive ==
  \/ owner \in {"open", "closing", "acking"}
  \/ holds # {}
  \/ LiveWorkers # {}

\* BuilderTerminalGuard::finish logs a terminal event unless one was logged.
IsTerminal(events) ==
  events # <<>> /\ events[Len(events)] \in TerminalStatuses

Finish(events, status) ==
  IF IsTerminal(events) THEN events ELSE Append(events, status)

\* Dropping the guard: a guard that was never finished logs on its own.
DropGuard(j, events) ==
  Finish(events, IF IsCancelled(j) THEN "Cancelled" ELSE "Failed")

\* A discarded result: a staged output takes its two guards along.
DiscardIf(j, staged) ==
  /\ scratch' = IF staged THEN scratch \ {j} ELSE scratch
  /\ log' = IF staged THEN [log EXCEPT ![j] = DropGuard(j, @)] ELSE log

----------------------------------------------------------------------------
Init ==
  /\ pc = [j \in Jobs |-> "idle"]
  /\ outcome = [j \in Jobs |-> "none"]
  /\ holds = Jobs
  /\ asked = {}
  /\ owner = "open"
  /\ acked = FALSE
  /\ channel = <<>>
  /\ permit = {}
  /\ slot = [j \in Jobs |-> "open"]
  /\ dpc = "recv"
  /\ joining = NoJob
  /\ queue = <<>>
  /\ active = {}
  /\ shuttingDown = FALSE
  /\ worker = [j \in Jobs |-> "none"]
  /\ cancelled = {}
  /\ scratch = {}
  /\ log = [j \in Jobs |-> <<>>]

----------------------------------------------------------------------------
(* Submitter tasks: BuildExecutorHandle::submit, ::cancel and              *)
(* BuilderCompletion::wait.                                                *)

Finalize(j, result) ==
  /\ pc' = [pc EXCEPT ![j] = "done"]
  /\ outcome' = [outcome EXCEPT ![j] = result]

SubmitCall(j) ==
  /\ pc[j] = "idle"
  /\ j \in holds
  /\ pc' = [pc EXCEPT ![j] = "acquiring"]
  /\ UNCHANGED <<outcome, holds, asked, ownerVars, wireVars, dispVars, workVars, cancelled>>

SubmitAcquire(j) ==
  /\ pc[j] = "acquiring"
  /\ Cardinality(permit) < Capacity
  /\ permit' = permit \cup {j}
  /\ pc' = [pc EXCEPT ![j] = "sending"]
  /\ UNCHANGED <<outcome, holds, asked, ownerVars, channel, slot, dispVars, workVars, cancelled>>

SubmitSend(j) ==
  /\ pc[j] = "sending"
  /\ dpc # "exited"
  /\ HasRoom
  /\ channel' = Append(channel, Command("Submit", j))
  /\ pc' = [pc EXCEPT ![j] = "waiting"]
  /\ UNCHANGED <<outcome, holds, asked, ownerVars, permit, slot, dispVars, workVars, cancelled>>

\* The receiver is gone: the command comes back and drops its permit.
SubmitClosed(j) ==
  /\ pc[j] = "sending"
  /\ dpc = "exited"
  /\ permit' = permit \ {j}
  /\ Finalize(j, "Closed")
  /\ UNCHANGED <<holds, asked, ownerVars, channel, slot, dispVars, workVars, cancelled>>

\* wait(): a staged output goes to publication, everything else is an error.
WaitResult(j) ==
  /\ pc[j] = "waiting"
  /\ slot[j] # "open"
  /\ IF slot[j] = "Staged"
       THEN pc' = [pc EXCEPT ![j] = "staged"] /\ UNCHANGED outcome
       ELSE Finalize(j, IF slot[j] = "lost" THEN "Closed" ELSE slot[j])
  /\ UNCHANGED <<holds, asked, ownerVars, wireVars, dispVars, workVars, cancelled>>

\* The client drops its BuilderCompletion; a result already sent goes with it.
AbandonWait(j) ==
  /\ "abandon" \in Events
  /\ pc[j] = "waiting"
  /\ Finalize(j, "abandoned")
  /\ DiscardIf(j, slot[j] = "Staged")
  /\ UNCHANGED <<holds, asked, ownerVars, wireVars, dispVars, worker, cancelled>>

CancelCall(j) ==
  /\ "cancel" \in Events
  /\ j \in holds \ asked
  /\ pc[j] \notin {"idle", "acquiring", "sending"}
  /\ asked' = asked \cup {j}
  /\ \/ dpc # "exited" /\ HasRoom /\ channel' = Append(channel, Command("Cancel", j))
     \/ dpc = "exited" /\ UNCHANGED channel
  /\ UNCHANGED <<pc, outcome, holds, ownerVars, permit, slot, dispVars, workVars, cancelled>>

DropHandle(j) ==
  /\ "dropHandle" \in Events
  /\ j \in holds
  /\ pc[j] \notin {"acquiring", "sending"}
  /\ holds' = holds \ {j}
  /\ UNCHANGED <<pc, outcome, asked, ownerVars, wireVars, dispVars, workVars, cancelled>>

\* Faulty variant: the Done event is logged before the import is tried.
PublishOutputDoneFirst(j) ==
  /\ pc[j] = "staged"
  /\ ~IsCancelled(j)
  /\ \/ Finalize(j, "Published")
     \/ "publish" \in Events /\ Finalize(j, "Publish")
  /\ scratch' = scratch \ {j}
  /\ log' = [log EXCEPT ![j] = DropGuard(j, Finish(@, "Done"))]
  /\ UNCHANGED <<holds, asked, ownerVars, wireVars, dispVars, worker, cancelled>>

\* publish_builder_output: refused under cancellation, then import_build.
PublishOutput(j) ==
  /\ pc[j] = "staged"
  /\ scratch' = scratch \ {j}
  /\ \/ /\ IsCancelled(j)
        /\ Finalize(j, "Cancelled")
        /\ log' = [log EXCEPT ![j] = DropGuard(j, Finish(@, "Cancelled"))]
     \/ /\ ~IsCancelled(j)
        /\ Finalize(j, "Published")
        /\ log' = [log EXCEPT ![j] = DropGuard(j, Finish(@, "Done"))]
     \/ /\ ~IsCancelled(j)
        /\ "publish" \in Events
        /\ Finalize(j, "Publish")
        /\ log' = [log EXCEPT ![j] = DropGuard(j, Finish(@, "Failed"))]
  /\ UNCHANGED <<holds, asked, ownerVars, wireVars, dispVars, worker, cancelled>>

\* The realizer gives up between wait() and publication.
DiscardOutput(j) ==
  /\ "abandon" \in Events
  /\ pc[j] = "staged"
  /\ Finalize(j, "abandoned")
  /\ DiscardIf(j, TRUE)
  /\ UNCHANGED <<holds, asked, ownerVars, wireVars, dispVars, worker, cancelled>>

----------------------------------------------------------------------------
(* The owner: BuildExecutor::shutdown and Drop for BuildExecutor.          *)

ShutdownCall ==
  /\ "shutdown" \in Events
  /\ owner = "open"
  /\ owner' = "closing"
  /\ UNCHANGED <<clientVars, acked, wireVars, dispVars, workVars, cancelled>>

ShutdownSend ==
  /\ owner = "closing"
  /\ dpc # "exited"
  /\ HasRoom
  /\ channel' = Append(channel, Command("Shutdown", NoJob))
  /\ owner' = "acking"
  /\ UNCHANGED <<clientVars, acked, permit, slot, dispVars, workVars, cancelled>>

\* The acknowledgement arrived and the dispatcher thread was joined.
ShutdownReturn ==
  /\ owner = "acking"
  /\ acked
  /\ dpc = "exited"
  /\ owner' = "closed"
  /\ UNCHANGED <<clientVars, acked, wireVars, dispVars, workVars, cancelled>>

\* Drop uses try_send: the command is lost when the channel is full.
DropExecutor ==
  /\ "dropExecutor" \in Events
  /\ owner = "open"
  /\ owner' = "dropped"
  /\ channel' = IF dpc # "exited" /\ HasRoom
                  THEN Append(channel, Command("Shutdown", NoJob)) ELSE channel
  /\ UNCHANGED <<clientVars, acked, permit, slot, dispVars, workVars, cancelled>>

\* The run's signal watcher, the monitor or a failed goal cancels a token.
CancelToken(t) ==
  /\ "signal" \in Events
  /\ t \notin cancelled
  /\ cancelled' = cancelled \cup {t}
  /\ UNCHANGED <<clientVars, ownerVars, wireVars, dispVars, workVars>>

----------------------------------------------------------------------------
(* The dispatcher thread: dispatch().                                      *)

Received(k) ==
  /\ dpc = "recv"
  /\ channel # <<>>
  /\ Head(channel).kind = k
  /\ channel' = Tail(channel)

\* send_pending_result to every job of S, whose permits are dropped with
\* their PendingJob.  A result nobody waits for is dropped by the channel.
AnswerPending(S, result) ==
  /\ slot' = [j \in Jobs |-> IF j \in S THEN result ELSE slot[j]]
  /\ permit' = permit \ S

\* Faulty variant: the pending job is pushed to the front of the queue.
RecvSubmitFront ==
  /\ Received("Submit")
  /\ ~shuttingDown
  /\ queue' = <<Head(channel).job>> \o queue
  /\ dpc' = "fill"
  /\ UNCHANGED <<clientVars, ownerVars, permit, slot, joining, active, shuttingDown,
                 workVars, cancelled>>

RecvSubmit ==
  LET j == Head(channel).job IN
  /\ Received("Submit")
  /\ ~shuttingDown
  /\ queue' = Append(queue, j)
  /\ dpc' = "fill"
  /\ UNCHANGED <<clientVars, ownerVars, permit, slot, joining, active, shuttingDown,
                 workVars, cancelled>>

RecvLateSubmit ==
  LET j == Head(channel).job IN
  /\ Received("Submit")
  /\ shuttingDown
  /\ cancelled' = cancelled \cup {TokenOf[j]}
  /\ AnswerPending({j}, "Closed")
  /\ dpc' = "fill"
  /\ UNCHANGED <<clientVars, ownerVars, joining, queue, active, shuttingDown, workVars>>

RecvCancelQueued ==
  LET j == Head(channel).job IN
  /\ Received("Cancel")
  /\ \E i \in 1..Len(queue) :
       /\ queue[i] = j
       /\ \A k \in 1..(i - 1) : queue[k] # j
       /\ queue' = Without(queue, i)
  /\ cancelled' = cancelled \cup {TokenOf[j]}
  /\ AnswerPending({j}, "Cancelled")
  /\ dpc' = "fill"
  /\ UNCHANGED <<clientVars, ownerVars, joining, active, shuttingDown, workVars>>

RecvCancelOther ==
  LET j == Head(channel).job IN
  /\ Received("Cancel")
  /\ j \notin InQueue
  /\ cancelled' = IF j \in active THEN cancelled \cup {TokenOf[j]} ELSE cancelled
  /\ dpc' = "fill"
  /\ UNCHANGED <<clientVars, ownerVars, permit, slot, joining, queue, active,
                 shuttingDown, workVars>>

\* Faulty variant: the finished worker is forgotten instead of joined.
RecvFinishedNoJoin ==
  /\ Received("Finished")
  /\ active' = active \ {Head(channel).job}
  /\ dpc' = "fill"
  /\ UNCHANGED <<clientVars, ownerVars, permit, slot, joining, queue, shuttingDown,
                 workVars, cancelled>>

RecvFinished ==
  LET j == Head(channel).job IN
  /\ Received("Finished")
  /\ IF j \in active
       THEN active' = active \ {j} /\ joining' = j /\ dpc' = "join"
       ELSE dpc' = "fill" /\ UNCHANGED <<active, joining>>
  /\ UNCHANGED <<clientVars, ownerVars, permit, slot, queue, shuttingDown, workVars, cancelled>>

\* active_job.worker.join(): blocks until the worker thread has returned.
JoinWorker ==
  /\ dpc = "join"
  /\ worker[joining] = "exited"
  /\ joining' = NoJob
  /\ dpc' = "fill"
  /\ UNCHANGED <<clientVars, ownerVars, wireVars, queue, active, shuttingDown,
                 workVars, cancelled>>

RecvShutdown ==
  /\ Received("Shutdown")
  /\ shuttingDown' = TRUE
  /\ AnswerPending(InQueue, "Closed")
  /\ queue' = <<>>
  /\ cancelled' = cancelled \cup {TokenOf[j] : j \in InQueue \cup active}
  /\ dpc' = "fill"
  /\ UNCHANGED <<clientVars, ownerVars, joining, active, workVars>>

\* Dropping the receiver drops every command still in the channel, and with
\* the pending jobs their result senders and permits.
DropReceiver(pendingJobs) ==
  /\ channel' = <<>>
  /\ slot' = [j \in Jobs |-> IF j \in pendingJobs THEN "lost" ELSE slot[j]]
  /\ permit' = permit \ pendingJobs
  /\ dpc' = "exited"

\* blocking_recv returns None once no strong sender is left.
RecvNone ==
  /\ dpc = "recv"
  /\ channel = <<>>
  /\ ~SenderAlive
  /\ DropReceiver(InQueue)
  /\ queue' = <<>>
  /\ UNCHANGED <<clientVars, ownerVars, joining, active, shuttingDown, workVars, cancelled>>

CanFill == ~shuttingDown /\ Cardinality(active) < JobLimit /\ queue # <<>>

\* The head of the queue is answered without a worker.
FillRefuse ==
  LET j == Head(queue) IN
  /\ dpc = "fill"
  /\ CanFill
  /\ queue' = Tail(queue)
  /\ \/ IsCancelled(j) /\ AnswerPending({j}, "Cancelled")
     \/ ~IsCancelled(j) /\ ~SenderAlive /\ AnswerPending({j}, "Closed")
     \/ ~IsCancelled(j) /\ SenderAlive /\ "spawn" \in Events /\ AnswerPending({j}, "Setup")
  /\ UNCHANGED <<clientVars, ownerVars, channel, dpc, joining, active, shuttingDown,
                 workVars, cancelled>>

FillStart ==
  LET j == Head(queue) IN
  /\ dpc = "fill"
  /\ CanFill
  /\ ~IsCancelled(j)
  /\ SenderAlive
  /\ queue' = Tail(queue)
  /\ active' = active \cup {j}
  /\ worker' = [worker EXCEPT ![j] = "created"]
  /\ UNCHANGED <<clientVars, ownerVars, wireVars, dpc, joining, shuttingDown,
                 scratch, log, cancelled>>

FillDone ==
  /\ dpc = "fill"
  /\ ~CanFill
  /\ ~(shuttingDown /\ active = {})
  /\ dpc' = "recv"
  /\ UNCHANGED <<clientVars, ownerVars, wireVars, joining, queue, active, shuttingDown,
                 workVars, cancelled>>

\* Faulty variant: the dispatcher acknowledges without waiting for workers.
DispatcherExitEarly ==
  /\ dpc = "fill"
  /\ shuttingDown
  /\ acked' = TRUE
  /\ DropReceiver(InChannel("Submit") \cup InQueue)
  /\ queue' = <<>>
  /\ UNCHANGED <<clientVars, owner, joining, active, shuttingDown, workVars, cancelled>>

DispatcherExit ==
  /\ dpc = "fill"
  /\ shuttingDown
  /\ active = {}
  /\ acked' = TRUE
  /\ DropReceiver(InChannel("Submit") \cup InQueue)
  /\ queue' = <<>>
  /\ UNCHANGED <<clientVars, owner, joining, active, shuttingDown, workVars, cancelled>>

----------------------------------------------------------------------------
(* A worker thread: execute_builder_staged under catch_unwind.             *)

\* The worker sends its result.  With the receiver gone the result, and the
\* guards inside a staged output, are dropped here.
WorkerResult(j, result, events) ==
  LET orphan == result = "Staged" /\ pc[j] # "waiting" IN
  /\ worker' = [worker EXCEPT ![j] = "notify"]
  /\ slot' = [slot EXCEPT ![j] = result]
  /\ scratch' = IF result = "Staged" /\ ~orphan THEN scratch \cup {j} ELSE scratch \ {j}
  /\ log' = [log EXCEPT ![j] = IF orphan THEN DropGuard(j, events) ELSE events]

\* Nothing is logged before the workspace exists.
WorkerBegin(j) ==
  /\ worker[j] = "created"
  /\ \/ IsCancelled(j) /\ WorkerResult(j, "Cancelled", log[j])
     \/ ~IsCancelled(j) /\ "workspace" \in Events /\ WorkerResult(j, "Run", log[j])
     \/ /\ ~IsCancelled(j)
        /\ worker' = [worker EXCEPT ![j] = "prepared"]
        /\ scratch' = scratch \cup {j}
        /\ log' = [log EXCEPT ![j] = Append(@, "Start")]
        /\ UNCHANGED slot
  /\ UNCHANGED <<clientVars, ownerVars, channel, permit, dispVars, cancelled>>

WorkerPrepare(j) ==
  /\ worker[j] = "prepared"
  /\ \/ /\ "scratch" \in Events
        /\ WorkerResult(j, "Run", DropGuard(j, Finish(log[j], "Failed")))
     \/ /\ IsCancelled(j)
        /\ WorkerResult(j, "Cancelled", DropGuard(j, Finish(log[j], "Cancelled")))
     \/ /\ ~IsCancelled(j)
        /\ worker' = [worker EXCEPT ![j] = "running"]
        /\ UNCHANGED <<slot, scratch, log>>
  /\ UNCHANGED <<clientVars, ownerVars, channel, permit, dispVars, cancelled>>

\* subject.execute returns, the cancellation check after it included.
WorkerRun(j) ==
  /\ worker[j] = "running"
  /\ \/ /\ ~IsCancelled(j)
        /\ WorkerResult(j, "Staged", log[j])
     \/ /\ IsCancelled(j)
        /\ WorkerResult(j, "Cancelled", DropGuard(j, Finish(log[j], "Cancelled")))
     \/ /\ "build" \in Events
        /\ WorkerResult(j, "Build", DropGuard(j, Finish(log[j], "Failed")))
     \/ /\ "panic" \in Events
        /\ WorkerResult(j, "Panic", DropGuard(j, log[j]))
  /\ UNCHANGED <<clientVars, ownerVars, channel, permit, dispVars, cancelled>>

\* Faulty variants: the permit is released before the dispatcher is told;
\* the notification is lost when the channel is full.
WorkerNotifyEarlyRelease(j) ==
  /\ worker[j] = "notify"
  /\ HasRoom
  /\ channel' = Append(channel, Command("Finished", j))
  /\ permit' = permit \ {j}
  /\ worker' = [worker EXCEPT ![j] = "dropping"]
  /\ UNCHANGED <<clientVars, ownerVars, slot, dispVars, scratch, log, cancelled>>
WorkerNotifyTrySend(j) ==
  /\ worker[j] = "notify"
  /\ channel' = IF HasRoom THEN Append(channel, Command("Finished", j)) ELSE channel
  /\ worker' = [worker EXCEPT ![j] = "dropping"]
  /\ UNCHANGED <<clientVars, ownerVars, permit, slot, dispVars, scratch, log, cancelled>>

WorkerNotify(j) ==
  /\ worker[j] = "notify"
  /\ \/ dpc # "exited" /\ HasRoom /\ channel' = Append(channel, Command("Finished", j))
     \/ dpc = "exited" /\ UNCHANGED channel
  /\ worker' = [worker EXCEPT ![j] = "dropping"]
  /\ UNCHANGED <<clientVars, ownerVars, permit, slot, dispVars, scratch, log, cancelled>>

WorkerExit(j) ==
  /\ worker[j] = "dropping"
  /\ worker' = [worker EXCEPT ![j] = "exited"]
  /\ permit' = permit \ {j}
  /\ UNCHANGED <<clientVars, ownerVars, channel, slot, dispVars, scratch, log, cancelled>>

----------------------------------------------------------------------------
Client(j) ==
  \/ SubmitAcquire(j) \/ SubmitSend(j) \/ SubmitClosed(j) \/ WaitResult(j)
  \/ PublishOutput(j)

Choice(j) ==
  SubmitCall(j) \/ AbandonWait(j) \/ CancelCall(j) \/ DropHandle(j) \/ DiscardOutput(j)

Owner == ShutdownSend \/ ShutdownReturn

Dispatcher ==
  \/ RecvSubmit \/ RecvLateSubmit \/ RecvCancelQueued \/ RecvCancelOther
  \/ RecvFinished \/ JoinWorker \/ RecvShutdown \/ RecvNone
  \/ FillRefuse \/ FillStart \/ FillDone \/ DispatcherExit

Worker(j) ==
  WorkerBegin(j) \/ WorkerPrepare(j) \/ WorkerRun(j) \/ WorkerNotify(j) \/ WorkerExit(j)

Next ==
  \/ \E j \in Jobs : Client(j) \/ Choice(j) \/ Worker(j)
  \/ Owner \/ ShutdownCall \/ DropExecutor
  \/ Dispatcher
  \/ \E t \in Tokens : CancelToken(t)

\* Threads and tasks that can run are eventually run; a builder returns.
\* Nothing obliges a client to submit, cancel or abandon, or the owner to
\* stop the executor.
Fairness ==
  /\ \A j \in Jobs : WF_vars(Client(j)) /\ WF_vars(Worker(j))
  /\ WF_vars(Owner)
  /\ WF_vars(Dispatcher)

Spec == Init /\ [][Next]_vars
FairSpec == Spec /\ Fairness

----------------------------------------------------------------------------
(* Properties.                                                             *)

\* Every variable holds a value of its type.
TypeOK ==
  /\ pc \in [Jobs -> {"idle", "acquiring", "sending", "waiting", "staged", "done"}]
  /\ outcome \in [Jobs -> Errors \cup {"none", "Published", "abandoned"}]
  /\ holds \subseteq Jobs
  /\ asked \subseteq Jobs
  /\ owner \in {"open", "closing", "acking", "closed", "dropped"}
  /\ acked \in BOOLEAN
  /\ channel \in Seq(Commands)
  /\ permit \subseteq Jobs
  /\ slot \in [Jobs -> SlotStates]
  /\ dpc \in {"recv", "fill", "join", "exited"}
  /\ joining \in Jobs \cup {NoJob}
  /\ queue \in Seq(Jobs)
  /\ active \subseteq Jobs
  /\ shuttingDown \in BOOLEAN
  /\ worker \in [Jobs -> {"none", "created", "prepared", "running", "notify",
                          "dropping", "exited"}]
  /\ cancelled \subseteq Tokens
  /\ scratch \subseteq Jobs
  /\ log \in [Jobs -> Seq({"Start"} \cup TerminalStatuses)]

\* The semaphore accounts for exactly the accepted work: a job owns a permit
\* while its command is being sent, waits in the channel or the dispatcher's
\* queue, or has a live worker, and no permit is leaked on any error path
\* (submit, dispatch, worker closure).  Hence accepted jobs never exceed
\* jobs + queue_capacity, and the dispatcher, whichever way it stops, by a
\* shutdown or because every sender is gone, leaves nobody's permit behind.
PermitsMatchWork ==
  /\ permit = {j \in Jobs : pc[j] = "sending"} \cup InChannel("Submit")
                \cup InQueue \cup LiveWorkers
  /\ Cardinality(permit) <= Capacity
  /\ dpc = "exited" => active = {} /\ permit = {j \in Jobs : pc[j] = "sending"}

\* Worker threads, not only entries of the active map, are bounded by jobs:
\* a finished worker is joined before its place is given away (dispatch).
WorkersBounded == Cardinality(LiveWorkers) <= JobLimit

\* shutdown() returns only when no worker thread is left and every submitted
\* job has been answered or had its command dropped.
ShutdownIsQuiescent ==
  acked => /\ LiveWorkers = {}
           /\ queue = <<>>
           /\ \A j \in Jobs : pc[j] = "waiting" => slot[j] # "open"

\* The guards of a job end together and once, on every path: error,
\* cancellation, panic, publication, an abandoned waiter, a discarded output.
\* Its staged tree lives exactly as long as somebody may still read it (through
\* its execution, then inside an undelivered or unpublished output), and a
\* started builder logs one terminal event at the moment the tree goes.
GuardHolders ==
  {j \in Jobs : \/ worker[j] \in {"prepared", "running"}
                \/ pc[j] = "staged"
                \/ pc[j] = "waiting" /\ slot[j] = "Staged"}
GuardsReleased ==
  /\ scratch = GuardHolders
  /\ \A j \in Jobs :
       \/ log[j] = <<>> /\ j \notin scratch
       \/ log[j] = <<"Start">> /\ j \in scratch
       \/ Len(log[j]) = 2 /\ log[j][1] = "Start" /\ IsTerminal(log[j]) /\ j \notin scratch

\* What is held for a job is held as long as the job needs it, on every path:
\* its permit, its staged tree and the log entry that is to be closed.
JobsAccounted == PermitsMatchWork /\ GuardsReleased

\* The log and the caller tell the same story about a builder that started.
LogMatchesOutcome ==
  \A j \in Jobs :
    pc[j] = "done" /\ log[j] # <<>> =>
      LET last == log[j][Len(log[j])] IN
      /\ (last = "Done") <=> (outcome[j] = "Published")
      /\ outcome[j] = "Cancelled" => last = "Cancelled"
      /\ outcome[j] \in {"Run", "Build", "Publish"} => last = "Failed"

\* The accepted jobs that have neither started nor been refused, and the order
\* in which their commands were sent: the queue is ahead of the channel.
Lined == InQueue \cup InChannel("Submit")
QueueBefore(j, k) ==
  \E m, n \in 1..Len(queue) : m < n /\ queue[m] = j /\ queue[n] = k
ChannelBefore(j, k) ==
  \E m, n \in 1..Len(channel) :
    m < n /\ channel[m] = Command("Submit", j) /\ channel[n] = Command("Submit", k)
Ahead ==
  {p \in Lined \X Lined : \/ p[1] \in InQueue /\ p[2] \in InChannel("Submit")
                         \/ QueueBefore(p[1], p[2])
                         \/ ChannelBefore(p[1], p[2])}

Service == INSTANCE BuildService WITH
  Limit    <- JobLimit,
  waiting  <- Lined,
  ahead    <- Ahead,
  running  <- LiveWorkers,
  answered <- {j \in Jobs : slot[j] # "open"},
  closed   <- shuttingDown \/ dpc = "exited"

\* The executor implements the abstract build service: jobs start in the order
\* in which their commands were sent, bounded parallelism, no start after
\* shutdown, one answer per job.
ImplementsBuildService == Service!ServiceSpec

\* Nobody waits for ever.  Every call of submit ends: the task gets a permit,
\* its command is taken or refused, and a result or an error arrives.  And the
\* executor stops, whichever way it is asked to and although the channel may
\* be full, jobs queued and workers running at the time: shutdown() returns,
\* and a dropped executor's dispatcher ends once the clients have dropped
\* their handles, even if the Shutdown command did not fit.
EverythingEnds ==
  /\ \A j \in Jobs : pc[j] = "acquiring" ~> pc[j] = "done"
  /\ owner = "closing" ~> owner = "closed"
  /\ (owner = "dropped" /\ holds = {}) ~> dpc = "exited"
=============================================================================
