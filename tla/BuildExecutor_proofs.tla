------------------------ MODULE BuildExecutor_proofs ------------------------
(***************************************************************************)
(* Proofs about the build executor, for every number of jobs, workers and  *)
(* queue places.                                                           *)
(*                                                                         *)
(* WorkersBounded and ShutdownIsQuiescent are not inductive: whether a     *)
(* worker thread is alive is known to the dispatcher only through its map  *)
(* of active jobs and the job it joins.  The inductive invariant therefore *)
(* ties the threads to the dispatcher's bookkeeping (LiveTracked), bounds  *)
(* the bookkeeping (ActiveBounded), and ties every open result to a place  *)
(* where somebody is going to answer it (OpenTracked).                     *)
(***************************************************************************)
EXTENDS BuildExecutor, FiniteSetTheorems, SequenceTheorems, TLAPS

\* What the dispatcher believes to be alive.
Tracked == active \cup (IF dpc = "join" THEN {joining} ELSE {})

LiveTracked == LiveWorkers \subseteq Tracked

ActiveBounded ==
  /\ Cardinality(Tracked) <= JobLimit
  /\ dpc = "join" => joining \in Jobs

Stopped ==
  /\ acked => dpc = "exited"
  /\ dpc = "exited" => LiveWorkers = {} /\ queue = <<>> /\ channel = <<>>

Answering == {j \in Jobs : worker[j] \in {"created", "prepared", "running"}}
OpenTracked ==
  \A j \in Jobs : pc[j] = "waiting" /\ slot[j] = "open" =>
    j \in InChannel("Submit") \cup InQueue \cup Answering

IInv == TypeOK /\ LiveTracked /\ ActiveBounded /\ Stopped /\ OpenTracked

----------------------------------------------------------------------------
\* Every variable keeps its type: one step per kind of process.
LEMMA TypeInit == Init => TypeOK
<1> SUFFICES ASSUME Init PROVE TypeOK
  OBVIOUS
<1>1. channel \in Seq(Commands) /\ queue \in Seq(Jobs)
  BY DEF Init
<1>2. log \in [Jobs -> Seq({"Start"} \cup TerminalStatuses)]
  <2>1. <<>> \in Seq({"Start"} \cup TerminalStatuses)
    OBVIOUS
  <2> QED
    BY <2>1, Zenon DEF Init
<1>3. /\ pc \in [Jobs -> {"idle", "acquiring", "sending", "waiting", "staged", "done"}]
      /\ outcome \in [Jobs -> Errors \cup {"none", "Published", "abandoned"}]
      /\ slot \in [Jobs -> SlotStates]
      /\ worker \in [Jobs -> {"none", "created", "prepared", "running", "notify",
                              "dropping", "exited"}]
  BY DEF Init, SlotStates
<1> QED
  BY <1>1, <1>2, <1>3 DEF Init, TypeOK

LEMMA CommandTypes ==
  /\ \A k \in {"Submit", "Cancel", "Finished"}, j \in Jobs : Command(k, j) \in Commands
  /\ Command("Shutdown", NoJob) \in Commands
  /\ \A c \in Commands : c.kind # "Shutdown" => c.job \in Jobs
  BY DEF Command, Commands

\* Sending a command keeps the channel a sequence of commands.
LEMMA AppendTypes ==
  ASSUME channel \in Seq(Commands)
  PROVE  /\ \A k \in {"Submit", "Cancel", "Finished"}, j \in Jobs :
              Append(channel, Command(k, j)) \in Seq(Commands)
         /\ Append(channel, Command("Shutdown", NoJob)) \in Seq(Commands)
<1>1. \A c \in Commands : Append(channel, c) \in Seq(Commands)
  OBVIOUS
<1> QED
  BY <1>1, CommandTypes

\* The command at the head of the channel is a command, and the rest a queue.
LEMMA HeadCommand ==
  ASSUME TypeOK, NEW k, Received(k)
  PROVE  /\ Head(channel) \in Commands
         /\ channel' \in Seq(Commands)
         /\ k # "Shutdown" => Head(channel).job \in Jobs
  BY CommandTypes DEF TypeOK, Received

\* Finishing or dropping a terminal guard keeps a log a sequence of events.
LEMMA LogTypes ==
  ASSUME NEW e \in Seq({"Start"} \cup TerminalStatuses), NEW j
  PROVE  /\ \A st \in TerminalStatuses : Finish(e, st) \in Seq({"Start"} \cup TerminalStatuses)
         /\ DropGuard(j, e) \in Seq({"Start"} \cup TerminalStatuses)
         /\ Append(e, "Start") \in Seq({"Start"} \cup TerminalStatuses)
<1>1. \A st \in TerminalStatuses : Append(e, st) \in Seq({"Start"} \cup TerminalStatuses)
  OBVIOUS
<1> QED
  BY <1>1 DEF Finish, DropGuard, TerminalStatuses

LEMMA TypeStep == TypeOK /\ [Next]_vars => TypeOK'
<1> SUFFICES ASSUME TypeOK, [Next]_vars PROVE TypeOK'
  OBVIOUS
<1> USE DEF TypeOK, clientVars, ownerVars, wireVars, dispVars, workVars
<1>1. ASSUME NEW j \in Jobs, Client(j) \/ Choice(j) PROVE TypeOK'
  <2>1. CASE SubmitCall(j) \/ SubmitAcquire(j) \/ DropHandle(j)
    BY <2>1 DEF SubmitCall, SubmitAcquire, DropHandle
  <2>2. CASE SubmitSend(j) \/ CancelCall(j)
    <3>1. channel' \in Seq(Commands)
      BY <2>2, AppendTypes DEF SubmitSend, CancelCall
    <3> QED
      BY <2>2, <3>1 DEF SubmitSend, CancelCall
  <2>3. CASE SubmitClosed(j)
    BY <2>3 DEF SubmitClosed, Finalize, Errors
  <2>4. CASE WaitResult(j)
    <3>1. slot[j] \notin {"open", "Staged", "lost"} => slot[j] \in Errors
      BY DEF Errors, SlotStates, WorkerResults
    <3>2. outcome' \in [Jobs -> Errors \cup {"none", "Published", "abandoned"}]
      BY <2>4, <3>1 DEF WaitResult, Finalize, Errors
    <3> QED
      BY <2>4, <3>2 DEF WaitResult, Finalize
  <2>5. CASE AbandonWait(j) \/ DiscardOutput(j)
    <3>1. log' \in [Jobs -> Seq({"Start"} \cup TerminalStatuses)]
      <4>1. DropGuard(j, log[j]) \in Seq({"Start"} \cup TerminalStatuses)
        BY LogTypes
      <4>2. log' = log \/ log' = [log EXCEPT ![j] = DropGuard(j, log[j])]
        BY <2>5, Zenon DEF AbandonWait, DiscardOutput, DiscardIf
      <4> QED
        BY <4>1, <4>2
    <3> QED
      BY <2>5, <3>1 DEF AbandonWait, DiscardOutput, DiscardIf, Finalize
  <2>6. CASE PublishOutput(j)
    <3>1. \A st \in TerminalStatuses :
            DropGuard(j, Finish(log[j], st)) \in Seq({"Start"} \cup TerminalStatuses)
      BY LogTypes
    <3>2. PICK st \in TerminalStatuses : log' = [log EXCEPT ![j] = DropGuard(j, Finish(@, st))]
      BY <2>6 DEF PublishOutput, TerminalStatuses
    <3>3. log' \in [Jobs -> Seq({"Start"} \cup TerminalStatuses)]
      BY <3>1, <3>2
    <3> QED
      BY <2>6, <3>3 DEF PublishOutput, Finalize, Errors
  <2> QED
    BY <1>1, <2>1, <2>2, <2>3, <2>4, <2>5, <2>6 DEF Client, Choice
<1>2. ASSUME NEW j \in Jobs, Worker(j) PROVE TypeOK'
  <2>1. ASSUME NEW r \in WorkerResults, NEW e \in Seq({"Start"} \cup TerminalStatuses),
               WorkerResult(j, r, e),
               UNCHANGED <<clientVars, ownerVars, channel, permit, dispVars, cancelled>>
        PROVE  TypeOK'
    <3>1. log' \in [Jobs -> Seq({"Start"} \cup TerminalStatuses)]
      BY <2>1, LogTypes DEF WorkerResult
    <3> QED
      BY <2>1, <3>1 DEF WorkerResult, SlotStates
  <2>2. /\ log[j] \in Seq({"Start"} \cup TerminalStatuses)
        /\ \A st \in TerminalStatuses :
             DropGuard(j, Finish(log[j], st)) \in Seq({"Start"} \cup TerminalStatuses)
        /\ DropGuard(j, log[j]) \in Seq({"Start"} \cup TerminalStatuses)
        /\ Append(log[j], "Start") \in Seq({"Start"} \cup TerminalStatuses)
    BY LogTypes
  <2>3. CASE WorkerBegin(j)
    <3>1. CASE /\ worker' = [worker EXCEPT ![j] = "prepared"]
               /\ scratch' = scratch \cup {j}
               /\ log' = [log EXCEPT ![j] = Append(@, "Start")]
               /\ UNCHANGED slot
               /\ UNCHANGED <<clientVars, ownerVars, channel, permit, dispVars, cancelled>>
      BY <3>1, <2>2
    <3> QED
      BY <2>1, <2>2, <2>3, <3>1 DEF WorkerBegin, WorkerResults
  <2>4. CASE WorkerPrepare(j)
    BY <2>1, <2>2, <2>4 DEF WorkerPrepare, WorkerResults, TerminalStatuses
  <2>5. CASE WorkerRun(j)
    BY <2>1, <2>2, <2>5 DEF WorkerRun, WorkerResults, TerminalStatuses
  <2>6. CASE WorkerNotify(j) \/ WorkerExit(j)
    <3>1. channel' \in Seq(Commands)
      BY <2>6, AppendTypes DEF WorkerNotify, WorkerExit
    <3> QED
      BY <2>6, <3>1 DEF WorkerNotify, WorkerExit
  <2> QED
    BY <1>2, <2>3, <2>4, <2>5, <2>6 DEF Worker
<1>3. CASE Owner \/ ShutdownCall \/ DropExecutor
  <2>1. channel' \in Seq(Commands)
    BY <1>3, AppendTypes DEF Owner, ShutdownCall, DropExecutor, ShutdownSend, ShutdownReturn
  <2> QED
    BY <1>3, <2>1 DEF Owner, ShutdownCall, DropExecutor, ShutdownSend, ShutdownReturn
<1>4. CASE Dispatcher
  <2>1. CASE RecvSubmit
    BY <2>1, HeadCommand DEF RecvSubmit
  <2>2. CASE RecvLateSubmit
    BY <2>2, HeadCommand, TokenAssumption DEF RecvLateSubmit, AnswerPending, SlotStates
  <2>3. CASE RecvCancelQueued
    <3>1. ASSUME NEW i \in 1..Len(queue) PROVE Without(queue, i) \in Seq(Jobs)
      BY DEF Without
    <3> QED
      BY <2>3, <3>1, HeadCommand, TokenAssumption
         DEF RecvCancelQueued, AnswerPending, SlotStates, WorkerResults
  <2>4. CASE RecvCancelOther
    BY <2>4, HeadCommand, TokenAssumption DEF RecvCancelOther
  <2>5. CASE RecvFinished \/ JoinWorker
    BY <2>5, HeadCommand DEF RecvFinished, JoinWorker
  <2>6. CASE RecvShutdown
    <3>1. {TokenOf[j] : j \in InQueue \cup active} \subseteq Tokens
      BY TokenAssumption DEF InQueue
    <3> QED
      BY <2>6, <3>1, HeadCommand DEF RecvShutdown, AnswerPending, SlotStates
  <2>7. CASE RecvNone \/ DispatcherExit
    <3>1. channel' = <<>> /\ queue' = <<>>
      BY <2>7, Zenon DEF RecvNone, DispatcherExit, DropReceiver
    <3>2. channel' \in Seq(Commands) /\ queue' \in Seq(Jobs)
      BY <3>1
    <3>3. slot' \in [Jobs -> SlotStates]
      BY <2>7 DEF RecvNone, DispatcherExit, DropReceiver, SlotStates
    <3> QED
      BY <2>7, <3>2, <3>3 DEF RecvNone, DispatcherExit, DropReceiver
  <2>8. CASE FillRefuse
    BY <2>8 DEF FillRefuse, CanFill, AnswerPending, SlotStates, WorkerResults
  <2>9. CASE FillStart
    <3>1. Head(queue) \in Jobs /\ queue' \in Seq(Jobs)
      BY <2>9 DEF FillStart, CanFill
    <3> QED
      BY <2>9, <3>1 DEF FillStart
  <2>10. CASE FillDone
    BY <2>10 DEF FillDone
  <2> QED
    BY <1>4, <2>1, <2>2, <2>3, <2>4, <2>5, <2>6, <2>7, <2>8, <2>9, <2>10 DEF Dispatcher
<1>5. ASSUME NEW t \in Tokens, CancelToken(t) PROVE TypeOK'
  BY <1>5 DEF CancelToken
<1>6. CASE UNCHANGED vars
  BY <1>6 DEF vars
<1> QED
  BY <1>1, <1>2, <1>3, <1>4, <1>5, <1>6 DEF Next

\* BuildExecutor: the variables of the executor keep their types for every
\* set of jobs and every capacity.
THEOREM TypeCorrect == Spec => []TypeOK
  BY TypeInit, TypeStep, PTL DEF Spec

----------------------------------------------------------------------------
\* Where a job may be found after a command is sent, or the head of the
\* channel or an entry of the queue is taken.
LEMMA ChannelAppend ==
  ASSUME channel \in Seq(Commands), NEW c, channel' = Append(channel, c)
  PROVE  /\ InChannel("Submit") \subseteq InChannel("Submit")'
         /\ c.kind = "Submit" => c.job \in InChannel("Submit")'
  BY DEF InChannel

LEMMA ChannelTail ==
  ASSUME channel \in Seq(Commands), channel # <<>>, channel' = Tail(channel),
         NEW x \in InChannel("Submit")
  PROVE  x \in InChannel("Submit")' \/ (Head(channel).kind = "Submit" /\ x = Head(channel).job)
<1>1. PICK i \in 1..Len(channel) : channel[i].kind = "Submit" /\ x = channel[i].job
  BY DEF InChannel
<1>2. CASE i = 1
  BY <1>1, <1>2
<1>3. CASE i # 1
  <2>1. i - 1 \in 1..Len(channel') /\ channel'[i - 1] = channel[i]
    BY <1>1, <1>3
  <2> QED
    BY <1>1, <2>1 DEF InChannel
<1> QED
  BY <1>2, <1>3

LEMMA QueueAppend ==
  ASSUME queue \in Seq(Jobs), NEW j \in Jobs, queue' = Append(queue, j)
  PROVE  InQueue \subseteq InQueue' /\ j \in InQueue'
  BY DEF InQueue

LEMMA QueueTail ==
  ASSUME queue \in Seq(Jobs), queue # <<>>, queue' = Tail(queue), NEW x \in InQueue
  PROVE  x \in InQueue' \/ x = Head(queue)
<1>1. PICK i \in 1..Len(queue) : x = queue[i]
  BY DEF InQueue
<1>2. CASE i = 1
  BY <1>1, <1>2
<1>3. CASE i # 1
  <2>1. i - 1 \in 1..Len(queue') /\ queue'[i - 1] = queue[i]
    BY <1>1, <1>3
  <2> QED
    BY <1>1, <2>1 DEF InQueue
<1> QED
  BY <1>2, <1>3

LEMMA QueueWithout ==
  ASSUME queue \in Seq(Jobs), NEW i \in 1..Len(queue), queue' = Without(queue, i),
         NEW x \in InQueue
  PROVE  x \in InQueue' \/ x = queue[i]
<1>1. PICK k \in 1..Len(queue) : x = queue[k]
  BY DEF InQueue
<1>2. Len(queue') = Len(queue) - 1
  BY DEF Without
<1>3. CASE k < i
  <2>1. k \in 1..Len(queue') /\ queue'[k] = x
    BY <1>1, <1>2, <1>3 DEF Without
  <2> QED
    BY <2>1 DEF InQueue
<1>4. CASE k > i
  <2>1. k - 1 \in 1..Len(queue') /\ queue'[k - 1] = x
    BY <1>1, <1>2, <1>4 DEF Without
  <2> QED
    BY <2>1 DEF InQueue
<1> QED
  BY <1>1, <1>3, <1>4

\* Tracked jobs are jobs, so they can be counted.
LEMMA TrackedFinite ==
  ASSUME IInv
  PROVE  IsFiniteSet(Tracked) /\ IsFiniteSet(active) /\ Cardinality(active) \in Nat
         /\ Cardinality(Tracked) \in Nat
  BY JobsAssumption, FS_Subset, FS_CardinalityType DEF IInv, TypeOK, ActiveBounded, Tracked

----------------------------------------------------------------------------
LEMMA InvInit == Init => IInv
<1> SUFFICES ASSUME Init PROVE IInv
  OBVIOUS
<1>1. TypeOK
  BY TypeInit
<1>2. Tracked = {} /\ LiveWorkers = {}
  BY DEF Init, Tracked, LiveWorkers
<1>3. Cardinality(Tracked) <= JobLimit
  BY <1>2, FS_EmptySet, LimitAssumption
<1> QED
  BY <1>1, <1>2, <1>3 DEF Init, IInv, LiveTracked, ActiveBounded, Stopped, OpenTracked

\* Steps of the clients and of the owner leave the dispatcher and the workers
\* alone and only add to the channel.
LEMMA ClientStep ==
  ASSUME IInv, TypeOK', UNCHANGED <<dispVars, worker>>,
         UNCHANGED channel \/ (dpc # "exited" /\ \E c : channel' = Append(channel, c)),
         UNCHANGED acked,
         UNCHANGED slot,
         \A j \in Jobs : pc'[j] = "waiting" /\ slot[j] = "open" =>
           pc[j] = "waiting" \/ j \in InChannel("Submit")'
  PROVE  IInv'
<1> USE DEF IInv, dispVars
<1>1. LiveWorkers' = LiveWorkers /\ Tracked' = Tracked /\ Answering' = Answering
      /\ InQueue' = InQueue
  BY DEF LiveWorkers, Tracked, Answering, InQueue
<1>2. InChannel("Submit") \subseteq InChannel("Submit")'
  <2>1. CASE UNCHANGED channel
    BY <2>1 DEF InChannel
  <2>2. ASSUME NEW c, channel' = Append(channel, c)
        PROVE  InChannel("Submit") \subseteq InChannel("Submit")'
    BY <2>2, ChannelAppend DEF TypeOK
  <2> QED
    BY <2>1, <2>2
<1>3. Stopped' /\ LiveTracked' /\ ActiveBounded'
  BY <1>1 DEF Stopped, LiveTracked, ActiveBounded
<1>4. OpenTracked'
  BY <1>1, <1>2 DEF OpenTracked, TypeOK
<1> QED
  BY <1>3, <1>4

\* Steps of a worker: it stays tracked while it is alive, and stops being
\* expected to answer only by answering.
LEMMA WorkerStep ==
  ASSUME IInv, TypeOK', NEW j \in Jobs, Worker(j)
  PROVE  IInv'
<1> USE DEF IInv
<1>1. UNCHANGED <<clientVars, ownerVars, dispVars>>
  BY DEF Worker, WorkerBegin, WorkerPrepare, WorkerRun, WorkerNotify, WorkerExit,
         clientVars, ownerVars, dispVars
<1>2. worker[j] \notin {"none", "exited"} /\ \A k \in Jobs \ {j} : worker'[k] = worker[k]
  BY DEF Worker, WorkerBegin, WorkerPrepare, WorkerRun, WorkerNotify, WorkerExit,
         WorkerResult, TypeOK
<1>3. Tracked' = Tracked /\ InQueue' = InQueue
  BY <1>1 DEF Tracked, dispVars, InQueue
<1>4. j \in LiveWorkers /\ LiveWorkers' \subseteq LiveWorkers
  BY <1>2 DEF LiveWorkers
<1>5. LiveTracked' /\ ActiveBounded' /\ dpc # "exited"
  BY <1>1, <1>3, <1>4 DEF LiveTracked, ActiveBounded, dispVars, Stopped
<1>6. Stopped'
  BY <1>1, <1>5 DEF Stopped, dispVars, ownerVars
<1>7. InChannel("Submit") \subseteq InChannel("Submit")'
  <2>1. UNCHANGED channel \/ \E c : channel' = Append(channel, c)
    BY DEF Worker, WorkerBegin, WorkerPrepare, WorkerRun, WorkerNotify, WorkerExit
  <2>2. CASE UNCHANGED channel
    BY <2>2 DEF InChannel
  <2>3. ASSUME NEW c, channel' = Append(channel, c)
        PROVE  InChannel("Submit") \subseteq InChannel("Submit")'
    BY <2>3, ChannelAppend DEF TypeOK
  <2> QED
    BY <2>1, <2>2, <2>3
<1>8. /\ \A k \in Jobs \ {j} : slot'[k] = slot[k]
      /\ slot'[j] = "open" => slot[j] = "open" /\ (j \in Answering => j \in Answering')
  <2>1. CASE WorkerBegin(j)
    BY <2>1 DEF WorkerBegin, WorkerResult, TypeOK, Answering
  <2>2. CASE WorkerPrepare(j)
    BY <2>2 DEF WorkerPrepare, WorkerResult, TypeOK, Answering
  <2>3. CASE WorkerRun(j)
    BY <2>3 DEF WorkerRun, WorkerResult, TypeOK, Answering
  <2>4. CASE WorkerNotify(j) \/ WorkerExit(j)
    BY <2>4 DEF WorkerNotify, WorkerExit, TypeOK, Answering
  <2> QED
    BY <2>1, <2>2, <2>3, <2>4 DEF Worker
<1>9. OpenTracked'
  <2> SUFFICES ASSUME NEW k \in Jobs, pc'[k] = "waiting", slot'[k] = "open"
               PROVE  k \in (InChannel("Submit") \cup InQueue \cup Answering)'
    BY DEF OpenTracked
  <2>1. k \in InChannel("Submit") \cup InQueue \cup Answering
    BY <1>1, <1>8 DEF clientVars, OpenTracked
  <2>2. k \in Answering => k \in Answering'
    BY <1>2, <1>8 DEF Answering
  <2> QED
    BY <2>1, <2>2, <1>3, <1>7
<1> QED
  BY <1>5, <1>6, <1>9

\* Steps of the dispatcher, one per command, fill decision or exit.
LEMMA DispatcherStep ==
  ASSUME IInv, TypeOK', Dispatcher
  PROVE  IInv'
<1> USE DEF IInv
<1>0. LiveWorkers \subseteq Jobs /\ dpc # "exited"
  BY DEF LiveWorkers, Dispatcher, RecvSubmit, RecvLateSubmit, RecvCancelQueued,
         RecvCancelOther, RecvFinished, JoinWorker, RecvShutdown, RecvNone, FillRefuse,
         FillStart, FillDone, DispatcherExit, Received
<1>1. CASE RecvSubmit
  <2>1. UNCHANGED <<pc, slot, worker, active, joining, acked>> /\ dpc = "recv" /\ dpc' = "fill"
    BY <1>1 DEF RecvSubmit, Received, clientVars, ownerVars, workVars
  <2>2. LiveTracked' /\ ActiveBounded' /\ Stopped'
    BY <2>1 DEF LiveTracked, ActiveBounded, Stopped, Tracked, LiveWorkers
  <2>3. Head(channel).job \in Jobs
    BY <1>1, HeadCommand DEF RecvSubmit
  <2>4. InQueue \subseteq InQueue' /\ Head(channel).job \in InQueue'
    BY <1>1, <2>3, QueueAppend DEF RecvSubmit, TypeOK
  <2>5. \A x \in InChannel("Submit") : x \in InChannel("Submit")' \/ x = Head(channel).job
    BY <1>1, ChannelTail DEF RecvSubmit, Received, TypeOK
  <2>6. OpenTracked'
    BY <2>1, <2>4, <2>5 DEF OpenTracked, Answering
  <2> QED
    BY <2>2, <2>6
<1>2. CASE RecvLateSubmit
  <2>1. /\ UNCHANGED <<pc, worker, queue, active, joining, acked>>
        /\ dpc = "recv" /\ dpc' = "fill"
    BY <1>2 DEF RecvLateSubmit, Received, clientVars, ownerVars, workVars
  <2>2. LiveTracked' /\ ActiveBounded' /\ Stopped'
    BY <2>1 DEF LiveTracked, ActiveBounded, Stopped, Tracked, LiveWorkers
  <2>3. \A x \in InChannel("Submit") : x \in InChannel("Submit")' \/ x = Head(channel).job
    BY <1>2, ChannelTail DEF RecvLateSubmit, Received, TypeOK
  <2>4. \A x \in Jobs : slot'[x] = "open" => slot[x] = "open" /\ x # Head(channel).job
    BY <1>2 DEF RecvLateSubmit, AnswerPending
  <2>5. OpenTracked'
    BY <2>1, <2>3, <2>4 DEF OpenTracked, Answering, InQueue
  <2> QED
    BY <2>2, <2>5
<1>3. CASE RecvCancelQueued
  <2>1. /\ UNCHANGED <<pc, worker, active, joining, acked>>
        /\ dpc = "recv" /\ dpc' = "fill"
    BY <1>3 DEF RecvCancelQueued, Received, clientVars, ownerVars, workVars
  <2>2. LiveTracked' /\ ActiveBounded' /\ Stopped'
    BY <2>1 DEF LiveTracked, ActiveBounded, Stopped, Tracked, LiveWorkers
  <2>3. InChannel("Submit") \subseteq InChannel("Submit")'
    BY <1>3, ChannelTail DEF RecvCancelQueued, Received, TypeOK
  <2>4. PICK i \in 1..Len(queue) : queue[i] = Head(channel).job /\ queue' = Without(queue, i)
    BY <1>3 DEF RecvCancelQueued
  <2>5. \A x \in InQueue : x \in InQueue' \/ x = Head(channel).job
    BY <2>4, QueueWithout DEF TypeOK
  <2>6. \A x \in Jobs : slot'[x] = "open" => slot[x] = "open" /\ x # Head(channel).job
    BY <1>3 DEF RecvCancelQueued, AnswerPending
  <2>7. OpenTracked'
    BY <2>1, <2>3, <2>5, <2>6 DEF OpenTracked, Answering
  <2> QED
    BY <2>2, <2>7
<1>4. CASE RecvCancelOther \/ RecvFinished
  <2>1. UNCHANGED <<pc, slot, worker, queue, acked>> /\ dpc = "recv" /\ dpc' # "exited"
    BY <1>4 DEF RecvCancelOther, RecvFinished, Received, clientVars, ownerVars, workVars
  <2>2. InChannel("Submit") \subseteq InChannel("Submit")'
    BY <1>4, ChannelTail DEF RecvCancelOther, RecvFinished, Received, TypeOK
  <2>3. OpenTracked'
    BY <2>1, <2>2 DEF OpenTracked, Answering, InQueue
  <2>4. Tracked' = Tracked /\ (dpc' = "join" => joining' \in Jobs)
    <3>1. CASE RecvCancelOther
      BY <3>1, <2>1 DEF RecvCancelOther, Tracked
    <3>2. CASE RecvFinished
      BY <3>2, <2>1, HeadCommand DEF RecvFinished, Tracked
    <3> QED
      BY <1>4, <3>1, <3>2
  <2>5. LiveTracked' /\ ActiveBounded' /\ Stopped'
    BY <2>1, <2>4 DEF LiveTracked, ActiveBounded, Stopped, LiveWorkers
  <2> QED
    BY <2>3, <2>5
<1>5. CASE JoinWorker
  <2>1. /\ UNCHANGED <<pc, slot, worker, queue, channel, active, acked>>
        /\ dpc = "join" /\ dpc' = "fill" /\ worker[joining] = "exited"
    BY <1>5 DEF JoinWorker, clientVars, ownerVars, wireVars, workVars
  <2>2. Tracked' = active /\ active \subseteq Tracked
    BY <2>1 DEF Tracked
  <2>3. Cardinality(Tracked') <= JobLimit
    BY <2>2, TrackedFinite, FS_Subset, LimitAssumption DEF ActiveBounded
  <2>4. LiveTracked'
    BY <2>1, <2>2 DEF LiveTracked, Tracked, LiveWorkers
  <2>5. ActiveBounded' /\ Stopped' /\ OpenTracked'
    BY <2>1, <2>3 DEF ActiveBounded, Stopped, OpenTracked, Answering, InQueue, InChannel
  <2> QED
    BY <2>4, <2>5
<1>6. CASE RecvShutdown
  <2>1. /\ UNCHANGED <<pc, worker, active, joining, acked>>
        /\ dpc = "recv" /\ dpc' = "fill"
    BY <1>6 DEF RecvShutdown, Received, clientVars, ownerVars, workVars
  <2>2. LiveTracked' /\ ActiveBounded' /\ Stopped'
    BY <2>1 DEF LiveTracked, ActiveBounded, Stopped, Tracked, LiveWorkers
  <2>3. InChannel("Submit") \subseteq InChannel("Submit")'
    BY <1>6, ChannelTail DEF RecvShutdown, Received, TypeOK
  <2>4. \A x \in Jobs : slot'[x] = "open" => slot[x] = "open" /\ x \notin InQueue
    BY <1>6 DEF RecvShutdown, AnswerPending
  <2>5. OpenTracked'
    BY <2>1, <2>3, <2>4 DEF OpenTracked, Answering
  <2> QED
    BY <2>2, <2>5
<1>7. CASE RecvNone \/ DispatcherExit
  <2>1. /\ UNCHANGED <<pc, worker, active, joining>>
        /\ dpc \in {"recv", "fill"} /\ dpc' = "exited"
        /\ channel' = <<>> /\ queue' = <<>>
    BY <1>7 DEF RecvNone, DispatcherExit, DropReceiver, clientVars, workVars
  <2>2. LiveWorkers = {} /\ LiveWorkers' = {}
    BY <1>7, <2>1 DEF RecvNone, DispatcherExit, SenderAlive, LiveTracked, Tracked, LiveWorkers
  <2>3. LiveTracked' /\ ActiveBounded' /\ Stopped'
    BY <2>1, <2>2 DEF LiveTracked, ActiveBounded, Stopped, Tracked
  <2>4. \A x \in Jobs : slot'[x] = "open" =>
          slot[x] = "open" /\ x \notin InQueue \cup InChannel("Submit")
    <3>1. CASE RecvNone
      <4>1. InChannel("Submit") = {}
        BY <3>1 DEF RecvNone, InChannel
      <4> QED
        BY <3>1, <4>1 DEF RecvNone, DropReceiver
    <3>2. CASE DispatcherExit
      BY <3>2 DEF DispatcherExit, DropReceiver
    <3> QED
      BY <1>7, <3>1, <3>2
  <2>5. Answering = {}
    BY <2>2 DEF Answering, LiveWorkers
  <2>6. OpenTracked'
    BY <2>1, <2>4, <2>5 DEF OpenTracked
  <2> QED
    BY <2>3, <2>6
<1>8. CASE FillRefuse
  <2>1. /\ UNCHANGED <<pc, worker, channel, active, joining, acked>>
        /\ dpc = "fill" /\ dpc' = "fill"
    BY <1>8 DEF FillRefuse, clientVars, ownerVars, workVars
  <2>2. LiveTracked' /\ ActiveBounded' /\ Stopped'
    BY <2>1 DEF LiveTracked, ActiveBounded, Stopped, Tracked, LiveWorkers
  <2>3. \A x \in InQueue : x \in InQueue' \/ x = Head(queue)
    BY <1>8, QueueTail DEF FillRefuse, CanFill, TypeOK
  <2>4. \A x \in Jobs : slot'[x] = "open" => slot[x] = "open" /\ x # Head(queue)
    BY <1>8 DEF FillRefuse, AnswerPending
  <2>5. OpenTracked'
    BY <2>1, <2>3, <2>4 DEF OpenTracked, Answering, InChannel
  <2> QED
    BY <2>2, <2>5
<1>9. CASE FillStart
  <2>1. /\ UNCHANGED <<pc, slot, channel, joining, acked>>
        /\ dpc = "fill" /\ dpc' = "fill"
        /\ Cardinality(active) < JobLimit
    BY <1>9 DEF FillStart, CanFill, clientVars, ownerVars, wireVars
  <2>2. /\ Head(queue) \in Jobs
        /\ active' = active \cup {Head(queue)}
        /\ worker' = [worker EXCEPT ![Head(queue)] = "created"]
    BY <1>9 DEF FillStart, CanFill, TypeOK
  <2>3. Cardinality(Tracked') <= JobLimit
    BY <2>1, <2>2, TrackedFinite, FS_AddElement, LimitAssumption DEF Tracked
  <2>4. LiveTracked' /\ ActiveBounded' /\ Stopped'
    BY <2>1, <2>2, <2>3 DEF LiveTracked, ActiveBounded, Stopped, Tracked, LiveWorkers, TypeOK
  <2>5. \A x \in InQueue : x \in InQueue' \/ x = Head(queue)
    BY <1>9, QueueTail DEF FillStart, CanFill, TypeOK
  <2>6. Answering \subseteq Answering' /\ Head(queue) \in Answering'
    BY <2>2 DEF Answering, TypeOK
  <2>7. OpenTracked'
    BY <2>1, <2>5, <2>6 DEF OpenTracked, InChannel
  <2> QED
    BY <2>4, <2>7
<1>10. CASE FillDone
  <2>1. /\ UNCHANGED <<pc, slot, worker, queue, channel, active, joining, acked>>
        /\ dpc = "fill" /\ dpc' = "recv"
    BY <1>10 DEF FillDone, clientVars, ownerVars, wireVars, workVars
  <2> QED
    BY <2>1 DEF LiveTracked, ActiveBounded, Stopped, Tracked, LiveWorkers, OpenTracked,
                Answering, InQueue, InChannel
<1> QED
  BY <1>1, <1>2, <1>3, <1>4, <1>5, <1>6, <1>7, <1>8, <1>9, <1>10 DEF Dispatcher

LEMMA InvStep == IInv /\ [Next]_vars => IInv'
<1> SUFFICES ASSUME IInv, [Next]_vars PROVE IInv'
  OBVIOUS
<1>0. TypeOK /\ TypeOK'
  BY TypeStep DEF IInv
<1>1. ASSUME NEW j \in Jobs, Client(j) \/ Choice(j) PROVE IInv'
  <2>1. /\ UNCHANGED <<dispVars, worker, acked, slot>>
        /\ UNCHANGED channel \/ (dpc # "exited" /\ \E c : channel' = Append(channel, c))
    BY <1>1, Zenon DEF Client, Choice, SubmitCall, SubmitAcquire, SubmitSend, SubmitClosed, WaitResult,
       AbandonWait, CancelCall, DropHandle, PublishOutput, DiscardOutput, ownerVars, wireVars,
       workVars
  <2>2. pc \in [Jobs -> {"idle", "acquiring", "sending", "waiting", "staged", "done"}]
    BY <1>0 DEF TypeOK
  <2>3. CASE SubmitSend(j)
    <3>1. /\ pc' = [pc EXCEPT ![j] = "waiting"]
          /\ channel' = Append(channel, Command("Submit", j))
      BY <2>3 DEF SubmitSend
    <3>2. Command("Submit", j).kind = "Submit" /\ Command("Submit", j).job = j
      BY DEF Command
    <3>3. j \in InChannel("Submit")'
      BY <1>0, <3>1, <3>2, ChannelAppend DEF TypeOK
    <3>4. \A k \in Jobs : pc'[k] = "waiting" => pc[k] = "waiting" \/ k \in InChannel("Submit")'
      BY <2>2, <3>1, <3>3
    <3> QED
      BY <1>0, <2>1, <3>4, ClientStep
  <2>4. CASE ~SubmitSend(j)
    <3>1. UNCHANGED pc \/ \E v \in {"acquiring", "sending", "staged", "done"} :
                             pc' = [pc EXCEPT ![j] = v]
      BY <1>1, <2>4 DEF Client, Choice, SubmitCall, SubmitAcquire, SubmitClosed, WaitResult,
         AbandonWait, CancelCall, DropHandle, PublishOutput, DiscardOutput, Finalize
    <3>2. \A k \in Jobs : pc'[k] = "waiting" => pc[k] = "waiting"
      BY <2>2, <3>1
    <3> QED
      BY <1>0, <2>1, <3>2, ClientStep
  <2> QED
    BY <2>3, <2>4
<1>2. ASSUME NEW j \in Jobs, Worker(j) PROVE IInv'
  BY <1>0, <1>2, WorkerStep
<1>3. CASE Owner \/ ShutdownCall \/ DropExecutor
  <2>1. /\ UNCHANGED <<dispVars, worker, acked, slot, pc>>
        /\ UNCHANGED channel \/ (dpc # "exited" /\ \E c : channel' = Append(channel, c))
    BY <1>3 DEF Owner, ShutdownCall, DropExecutor, ShutdownSend, ShutdownReturn, wireVars,
       workVars, clientVars
  <2> QED
    BY <1>0, <2>1, ClientStep
<1>4. CASE Dispatcher
  BY <1>0, <1>4, DispatcherStep
<1>5. CASE (\E t \in Tokens : CancelToken(t)) \/ UNCHANGED vars
  <2>1. UNCHANGED <<dispVars, worker, acked, slot, pc, channel>>
    BY <1>5 DEF CancelToken, vars, clientVars, ownerVars, wireVars, workVars
  <2> QED
    BY <1>0, <2>1, ClientStep
<1> QED
  BY <1>1, <1>2, <1>3, <1>4, <1>5 DEF Next

\* dispatch() never has more than jobs worker threads alive, counting the
\* threads that have reported but not yet returned.
THEOREM WorkersAlwaysBounded == Spec => []WorkersBounded
<1>1. IInv => WorkersBounded
  <2> SUFFICES ASSUME IInv PROVE WorkersBounded
    OBVIOUS
  <2>1. Cardinality(LiveWorkers) <= Cardinality(Tracked) /\ Cardinality(LiveWorkers) \in Nat
    BY TrackedFinite, FS_Subset, FS_CardinalityType DEF IInv, LiveTracked
  <2> QED
    BY <2>1, TrackedFinite, LimitAssumption DEF IInv, ActiveBounded, WorkersBounded
<1> QED
  BY InvInit, InvStep, <1>1, PTL DEF Spec

\* When BuildExecutor::shutdown is acknowledged no worker is left, the queue
\* is empty, and every waiting submitter has an answer to read.
THEOREM ShutdownAlwaysQuiescent == Spec => []ShutdownIsQuiescent
<1>1. IInv => ShutdownIsQuiescent
  <2> SUFFICES ASSUME IInv, acked PROVE ShutdownIsQuiescent
    BY DEF ShutdownIsQuiescent
  <2>1. LiveWorkers = {} /\ queue = <<>> /\ channel = <<>>
    BY DEF IInv, Stopped
  <2>2. InChannel("Submit") = {} /\ InQueue = {} /\ Answering = {}
    BY <2>1 DEF InChannel, InQueue, Answering, LiveWorkers
  <2> QED
    BY <2>1, <2>2 DEF ShutdownIsQuiescent, IInv, OpenTracked
<1> QED
  BY InvInit, InvStep, <1>1, PTL DEF Spec
------------------------------------------------------------------------------
(***************************************************************************)
(* What the build executor holds for a job, what it tells about it, and    *)
(* that it is the abstract build service, for every number of jobs,        *)
(* workers and queue places.                                               *)
(*                                                                         *)
(* All three rest on one invariant about a single job (JobInv): where the  *)
(* job is - with its submitter, in the channel, in the queue, with a       *)
(* worker, answered - decides what its result, its permit, its scratch     *)
(* directory and its log are.  A job is in one place at a time because its *)
(* command is sent once (PlacesOnce).                                      *)
(***************************************************************************)

\* Nothing has been done for the job yet.
Fresh(j) == worker[j] = "none" /\ slot[j] = "open" /\ log[j] = <<>>

\* Where a job may be.
PlaceInv(j) ==
  /\ pc[j] \in {"idle", "acquiring", "sending"} => Fresh(j) /\ j \notin Lined
  /\ j \in Lined => Fresh(j)
  /\ j \in InQueue => j \notin InChannel("Submit")
  /\ worker[j] \in {"created", "prepared", "running"} => slot[j] = "open"
  /\ worker[j] \in {"notify", "dropping", "exited"} => slot[j] \in WorkerResults
  /\ pc[j] = "staged" => slot[j] = "Staged"
  /\ j \in active => worker[j] # "none"
  /\ j \in active /\ worker[j] \in {"dropping", "exited"} => j \in InChannel("Finished")

\* What is held for it.
HeldInv(j) ==
  /\ j \in permit <=> pc[j] = "sending" \/ j \in Lined \/ j \in LiveWorkers
  /\ j \in scratch <=> j \in GuardHolders

\* What its log tells.
Logged(j, status) == log[j] = <<"Start", status>>
LogInv(j) ==
  /\ \/ log[j] = <<>> /\ j \notin scratch
     \/ log[j] = <<"Start">> /\ j \in scratch
     \/ j \notin scratch /\ \E s \in TerminalStatuses : Logged(j, s)
  /\ worker[j] \in {"none", "created"} => log[j] = <<>>
  /\ Logged(j, "Done") <=> pc[j] = "done" /\ outcome[j] = "Published"
  /\ log[j] # <<>> =>
       /\ slot[j] = "Cancelled" => Logged(j, "Cancelled")
       /\ slot[j] \in {"Run", "Build"} => Logged(j, "Failed")
       /\ pc[j] = "done" /\ outcome[j] = "Cancelled" => Logged(j, "Cancelled")
       /\ pc[j] = "done" /\ outcome[j] \in {"Run", "Build", "Publish"} => Logged(j, "Failed")
  /\ pc[j] = "done" /\ slot[j] = "open" =>
       \/ outcome[j] = "abandoned"
       \/ outcome[j] = "Closed" /\ Fresh(j) /\ j \notin Lined

JobInv(j) == PlaceInv(j) /\ HeldInv(j) /\ LogInv(j)

\* A job's command is sent once, so it stands in line once.
PlacesOnce ==
  /\ \A m, n \in 1..Len(channel) :
       channel[m].kind = "Submit" /\ channel[n].kind = "Submit" /\ channel[m].job = channel[n].job
         => m = n
  /\ \A m, n \in 1..Len(queue) : queue[m] = queue[n] => m = n

Bounded ==
  /\ Cardinality(permit) <= Capacity
  /\ dpc = "exited" => active = {}

JInv == PlacesOnce /\ Bounded /\ \A j \in Jobs : JobInv(j)

----------------------------------------------------------------------------
(* The lines of waiting jobs: a command sent, a command taken, a job       *)
(* appended, the first or any job removed.                                 *)

\* What stands in the channel after a command is sent.
LEMMA SendPlaces ==
  ASSUME channel \in Seq(Commands), NEW c \in Commands, channel' = Append(channel, c)
  PROVE  /\ \A k : c.kind = k => InChannel(k)' = InChannel(k) \cup {c.job}
         /\ \A k : c.kind # k => InChannel(k)' = InChannel(k)
<1>1. /\ Len(channel') = Len(channel) + 1
      /\ \A i \in 1..Len(channel) : channel'[i] = channel[i]
      /\ channel'[Len(channel) + 1] = c
  OBVIOUS
<1>2. ASSUME NEW k, NEW x \in InChannel(k)'
      PROVE  x \in InChannel(k) \/ (c.kind = k /\ x = c.job)
  <2>1. PICK i \in 1..(Len(channel) + 1) : channel'[i].kind = k /\ x = channel'[i].job
    BY <1>1, <1>2 DEF InChannel
  <2>2. CASE i = Len(channel) + 1
    BY <1>1, <2>1, <2>2
  <2>3. CASE i # Len(channel) + 1
    <3>1. i \in 1..Len(channel)
      BY <2>1, <2>3
    <3> QED
      BY <1>1, <2>1, <3>1 DEF InChannel
  <2> QED
    BY <2>2, <2>3
<1>3. ASSUME NEW k, NEW x \in InChannel(k) PROVE x \in InChannel(k)'
  <2>1. PICK i \in 1..Len(channel) : channel[i].kind = k /\ x = channel[i].job
    BY <1>3 DEF InChannel
  <2> QED
    BY <1>1, <2>1 DEF InChannel
<1>4. ASSUME NEW k, c.kind = k PROVE c.job \in InChannel(k)'
  BY <1>1, <1>4 DEF InChannel
<1>5. ASSUME NEW k, c.kind = k PROVE InChannel(k)' = InChannel(k) \cup {c.job}
  <2>1. InChannel(k)' \subseteq InChannel(k) \cup {c.job}
    BY <1>2
  <2>2. InChannel(k) \cup {c.job} \subseteq InChannel(k)'
    BY <1>3, <1>4, <1>5
  <2> QED
    BY <2>1, <2>2, Zenon
<1>6. ASSUME NEW k, c.kind # k PROVE InChannel(k)' = InChannel(k)
  <2>1. InChannel(k)' \subseteq InChannel(k)
    BY <1>2, <1>6
  <2>2. InChannel(k) \subseteq InChannel(k)'
    BY <1>3
  <2> QED
    BY <2>1, <2>2, Zenon
<1> QED
  BY <1>5, <1>6

\* A command sent keeps the order of the commands before it.
LEMMA SendOrder ==
  ASSUME channel \in Seq(Commands), NEW c \in Commands, channel' = Append(channel, c),
         NEW j \in Jobs, NEW k \in Jobs
  PROVE  ChannelBefore(j, k)' <=>
           \/ ChannelBefore(j, k)
           \/ j \in InChannel("Submit") /\ c = Command("Submit", k)
<1>1. /\ Len(channel') = Len(channel) + 1
      /\ \A i \in 1..Len(channel) : channel'[i] = channel[i]
      /\ channel'[Len(channel) + 1] = c
  OBVIOUS
<1>2. \A i \in 1..Len(channel) : channel[i] = Command("Submit", j) <=>
                                   channel[i].kind = "Submit" /\ channel[i].job = j
  <2>1. \A i \in 1..Len(channel) : channel[i] \in Commands
    OBVIOUS
  <2> QED
    BY <2>1 DEF Command, Commands
<1>3. ASSUME ChannelBefore(j, k)'
      PROVE  ChannelBefore(j, k) \/ (j \in InChannel("Submit") /\ c = Command("Submit", k))
  <2>1. PICK m \in 1..(Len(channel) + 1), n \in 1..(Len(channel) + 1) :
          m < n /\ channel'[m] = Command("Submit", j) /\ channel'[n] = Command("Submit", k)
    BY <1>1, <1>3 DEF ChannelBefore, Command
  <2>2. m \in 1..Len(channel) /\ channel[m] = Command("Submit", j)
    BY <1>1, <2>1
  <2>3. j \in InChannel("Submit")
    BY <1>2, <2>2 DEF InChannel
  <2>4. CASE n = Len(channel) + 1
    BY <1>1, <2>1, <2>3, <2>4
  <2>5. CASE n # Len(channel) + 1
    <3>1. n \in 1..Len(channel) /\ channel[n] = Command("Submit", k)
      BY <1>1, <2>1, <2>5
    <3> QED
      BY <2>1, <2>2, <3>1 DEF ChannelBefore
  <2> QED
    BY <2>4, <2>5
<1>4. ASSUME ChannelBefore(j, k) PROVE ChannelBefore(j, k)'
  <2>1. PICK m \in 1..Len(channel), n \in 1..Len(channel) :
          m < n /\ channel[m] = Command("Submit", j) /\ channel[n] = Command("Submit", k)
    BY <1>4 DEF ChannelBefore
  <2> QED
    BY <1>1, <2>1 DEF ChannelBefore, Command
<1>5. ASSUME j \in InChannel("Submit"), c = Command("Submit", k) PROVE ChannelBefore(j, k)'
  <2>1. PICK m \in 1..Len(channel) : channel[m] = Command("Submit", j)
    BY <1>2, <1>5 DEF InChannel
  <2>2. m \in 1..Len(channel') /\ Len(channel) + 1 \in 1..Len(channel') /\ m < Len(channel) + 1
    BY <1>1
  <2>3. channel'[m] = Command("Submit", j) /\ channel'[Len(channel) + 1] = Command("Submit", k)
    BY <1>1, <1>5, <2>1
  <2> QED
    BY <2>2, <2>3 DEF ChannelBefore, Command
<1> QED
  BY <1>3, <1>4, <1>5
\* What is left in the channel after its first command is taken.
LEMMA ReceivePlaces ==
  ASSUME channel \in Seq(Commands), channel # <<>>, channel' = Tail(channel)
  PROVE  /\ \A k : Head(channel).kind # k => InChannel(k)' = InChannel(k)
         /\ PlacesOnce /\ Head(channel).kind = "Submit" =>
              InChannel("Submit")' = InChannel("Submit") \ {Head(channel).job}
         /\ Head(channel).kind = "Submit" => Head(channel).job \in InChannel("Submit")
         /\ \A k : \A x \in InChannel(k) :
              Head(channel).kind # k \/ x # Head(channel).job => x \in InChannel(k)'
<1>1. /\ Len(channel) \in Nat /\ Len(channel) > 0
      /\ Len(channel') = Len(channel) - 1
      /\ Head(channel) = channel[1]
      /\ \A i \in 1..(Len(channel) - 1) : channel'[i] = channel[i + 1]
  OBVIOUS
<1>2. ASSUME NEW k, NEW x \in InChannel(k)'
      PROVE  /\ x \in InChannel(k)
             /\ PlacesOnce /\ k = "Submit" /\ Head(channel).kind = "Submit" =>
                  x # Head(channel).job
  <2>1. PICK i \in 1..(Len(channel) - 1) : channel[i + 1].kind = k /\ x = channel[i + 1].job
    BY <1>1, <1>2 DEF InChannel
  <2>2. i + 1 \in 1..Len(channel) /\ i + 1 # 1 /\ 1 \in 1..Len(channel)
    BY <1>1, <2>1
  <2> QED
    BY <1>1, <2>1, <2>2 DEF InChannel, PlacesOnce
<1>3. ASSUME NEW k, NEW x \in InChannel(k), Head(channel).kind # k \/ x # Head(channel).job
      PROVE  x \in InChannel(k)'
  <2>1. PICK i \in 1..Len(channel) : channel[i].kind = k /\ x = channel[i].job
    BY <1>3 DEF InChannel
  <2>2. i - 1 \in 1..(Len(channel) - 1) /\ channel'[i - 1] = channel[i]
    BY <1>1, <1>3, <2>1
  <2> QED
    BY <1>1, <2>1, <2>2 DEF InChannel
<1>4. 1 \in 1..Len(channel)
  BY <1>1
<1>5. Head(channel).kind = "Submit" => Head(channel).job \in InChannel("Submit")
  BY <1>1, <1>4 DEF InChannel
<1>6. ASSUME NEW k, Head(channel).kind # k PROVE InChannel(k)' = InChannel(k)
  <2>1. InChannel(k)' \subseteq InChannel(k)
    BY <1>2
  <2>2. InChannel(k) \subseteq InChannel(k)'
    BY <1>3, <1>6
  <2> QED
    BY <2>1, <2>2, Zenon
<1>7. ASSUME PlacesOnce, Head(channel).kind = "Submit"
      PROVE  InChannel("Submit")' = InChannel("Submit") \ {Head(channel).job}
  <2>1. InChannel("Submit")' \subseteq InChannel("Submit") \ {Head(channel).job}
    BY <1>2, <1>7
  <2>2. InChannel("Submit") \ {Head(channel).job} \subseteq InChannel("Submit")'
    BY <1>3
  <2> QED
    BY <2>1, <2>2, Zenon
<1> QED
  BY <1>3, <1>5, <1>6, <1>7

\* The order of the commands that stay.
LEMMA ReceiveOrder ==
  ASSUME channel \in Seq(Commands), channel # <<>>, channel' = Tail(channel), PlacesOnce,
         NEW j \in Jobs, NEW k \in Jobs
  PROVE  /\ ChannelBefore(j, k)' <=> ChannelBefore(j, k) /\ Head(channel) # Command("Submit", j)
         /\ ChannelBefore(j, k) => Head(channel) # Command("Submit", k)
<1>1. /\ Len(channel) \in Nat /\ Len(channel) > 0
      /\ Len(channel') = Len(channel) - 1
      /\ Head(channel) = channel[1]
      /\ \A i \in 1..(Len(channel) - 1) : channel'[i] = channel[i + 1]
  OBVIOUS
<1>2. ASSUME NEW m \in 1..Len(channel), NEW n \in 1..Len(channel), NEW x,
             channel[m] = Command("Submit", x), channel[n] = Command("Submit", x)
      PROVE  m = n
  BY <1>2 DEF PlacesOnce, Command
<1>3. ASSUME ChannelBefore(j, k)'
      PROVE  ChannelBefore(j, k) /\ Head(channel) # Command("Submit", j)
  <2>1. PICK m \in 1..(Len(channel) - 1), n \in 1..(Len(channel) - 1) :
          m < n /\ channel'[m] = Command("Submit", j) /\ channel'[n] = Command("Submit", k)
    BY <1>1, <1>3 DEF ChannelBefore, Command
  <2>2. m + 1 \in 1..Len(channel) /\ n + 1 \in 1..Len(channel) /\ m + 1 < n + 1 /\ m + 1 # 1
    BY <1>1, <2>1
  <2>3. channel[m + 1] = Command("Submit", j) /\ channel[n + 1] = Command("Submit", k)
    BY <1>1, <2>1
  <2>4. ChannelBefore(j, k)
    BY <2>2, <2>3 DEF ChannelBefore
  <2>5. 1 \in 1..Len(channel)
    BY <1>1
  <2> QED
    BY <1>1, <1>2, <2>2, <2>3, <2>4, <2>5
<1>4. ASSUME ChannelBefore(j, k)
      PROVE  /\ Head(channel) # Command("Submit", k)
             /\ Head(channel) # Command("Submit", j) => ChannelBefore(j, k)'
  <2>1. PICK m \in 1..Len(channel), n \in 1..Len(channel) :
          m < n /\ channel[m] = Command("Submit", j) /\ channel[n] = Command("Submit", k)
    BY <1>4 DEF ChannelBefore
  <2>2. n # 1 /\ 1 \in 1..Len(channel)
    BY <1>1, <2>1
  <2>3. Head(channel) # Command("Submit", k)
    BY <1>1, <1>2, <2>1, <2>2
  <2>4. ASSUME Head(channel) # Command("Submit", j) PROVE ChannelBefore(j, k)'
    <3>1. m # 1
      BY <1>1, <2>1, <2>4
    <3>2. /\ m - 1 \in 1..Len(channel') /\ n - 1 \in 1..Len(channel') /\ m - 1 < n - 1
          /\ m - 1 \in 1..(Len(channel) - 1) /\ n - 1 \in 1..(Len(channel) - 1)
          /\ (m - 1) + 1 = m /\ (n - 1) + 1 = n
      BY <1>1, <2>1, <2>2, <3>1
    <3>3. channel'[m - 1] = Command("Submit", j) /\ channel'[n - 1] = Command("Submit", k)
      BY <1>1, <2>1, <3>2
    <3> QED
      BY <3>2, <3>3 DEF ChannelBefore, Command
  <2> QED
    BY <2>3, <2>4
<1> QED
  BY <1>3, <1>4

\* A job that joins the queue comes after all of it.
LEMMA QueueJoin ==
  ASSUME queue \in Seq(Jobs), NEW h \in Jobs, h \notin InQueue, queue' = Append(queue, h)
  PROVE  /\ InQueue' = InQueue \cup {h}
         /\ PlacesOnce => \A m, n \in 1..Len(queue') : queue'[m] = queue'[n] => m = n
         /\ \A j, k \in Jobs : QueueBefore(j, k)' <=> QueueBefore(j, k) \/ (j \in InQueue /\ k = h)
<1>1. /\ Len(queue') = Len(queue) + 1 /\ Len(queue) \in Nat
      /\ \A i \in 1..Len(queue) : queue'[i] = queue[i] /\ queue[i] # h
      /\ queue'[Len(queue) + 1] = h
  BY DEF InQueue
<1>2. InQueue' = InQueue \cup {h}
  BY <1>1 DEF InQueue
<1>3. PlacesOnce => \A m, n \in 1..Len(queue') : queue'[m] = queue'[n] => m = n
  BY <1>1 DEF PlacesOnce
<1>4. ASSUME NEW j \in Jobs, NEW k \in Jobs
      PROVE  QueueBefore(j, k)' <=> QueueBefore(j, k) \/ (j \in InQueue /\ k = h)
  <2>1. ASSUME QueueBefore(j, k)' PROVE QueueBefore(j, k) \/ (j \in InQueue /\ k = h)
    BY <1>1, <2>1 DEF QueueBefore, InQueue
  <2>2. ASSUME QueueBefore(j, k) PROVE QueueBefore(j, k)'
    BY <1>1, <2>2 DEF QueueBefore
  <2>3. ASSUME j \in InQueue, k = h PROVE QueueBefore(j, k)'
    BY <1>1, <2>3 DEF QueueBefore, InQueue
  <2> QED
    BY <2>1, <2>2, <2>3
<1> QED
  BY <1>2, <1>3, <1>4

\* The job in place i leaves the queue.
LeavesFrom(i) ==
  /\ Len(queue') = Len(queue) - 1
  /\ \A m \in 1..(Len(queue) - 1) : queue'[m] = queue[IF m < i THEN m ELSE m + 1]

\* A job that leaves the queue leaves the others in their order.
LEMMA QueueLeave ==
  ASSUME queue \in Seq(Jobs), PlacesOnce, NEW i \in 1..Len(queue), LeavesFrom(i)
  PROVE  /\ InQueue' = InQueue \ {queue[i]}
         /\ \A m, n \in 1..Len(queue') : queue'[m] = queue'[n] => m = n
         /\ \A j, k \in Jobs : QueueBefore(j, k)' <=>
                                 QueueBefore(j, k) /\ j # queue[i] /\ k # queue[i]
<1>1. /\ Len(queue) \in Nat /\ Len(queue') = Len(queue) - 1
      /\ \A m \in 1..(Len(queue) - 1) : queue'[m] = queue[IF m < i THEN m ELSE m + 1]
  BY DEF LeavesFrom
<1>2. \A m, n \in 1..Len(queue) : queue[m] = queue[n] => m = n
  BY DEF PlacesOnce
<1>3. ASSUME NEW m \in 1..(Len(queue) - 1)
      PROVE  \E r \in 1..Len(queue) : r = (IF m < i THEN m ELSE m + 1) /\ r # i /\ queue'[m] = queue[r]
  BY <1>1
<1>4. ASSUME NEW r \in 1..Len(queue), r # i
      PROVE  \E m \in 1..(Len(queue) - 1) : m = (IF r < i THEN r ELSE r - 1) /\ queue'[m] = queue[r]
  <2>1. CASE r < i
    BY <1>1, <2>1
  <2>2. CASE r > i
    <3>1. r - 1 \in 1..(Len(queue) - 1) /\ ~(r - 1 < i) /\ (r - 1) + 1 = r
      BY <1>1, <2>2
    <3>2. queue'[r - 1] = queue[r]
      BY <1>1, <3>1
    <3> QED
      BY <2>2, <3>1, <3>2
  <2> QED
    BY <1>4, <2>1, <2>2
<1>5. InQueue' = InQueue \ {queue[i]}
  <2>1. ASSUME NEW x \in InQueue' PROVE x \in InQueue \ {queue[i]}
    <3>1. PICK m \in 1..(Len(queue) - 1) : x = queue'[m]
      BY <1>1, <2>1 DEF InQueue
    <3> QED
      BY <1>2, <1>3, <3>1 DEF InQueue
  <2>2. ASSUME NEW x \in InQueue, x # queue[i] PROVE x \in InQueue'
    <3>1. PICK r \in 1..Len(queue) : x = queue[r]
      BY <2>2 DEF InQueue
    <3>2. PICK m \in 1..(Len(queue) - 1) : queue'[m] = queue[r]
      BY <1>4, <2>2, <3>1
    <3> QED
      BY <1>1, <3>1, <3>2 DEF InQueue
  <2> QED
    BY <2>1, <2>2
<1>6. ASSUME NEW m \in 1..Len(queue'), NEW n \in 1..Len(queue'), queue'[m] = queue'[n]
      PROVE  m = n
  <2>1. m \in 1..(Len(queue) - 1) /\ n \in 1..(Len(queue) - 1)
    BY <1>1, <1>6
  <2>2. (IF m < i THEN m ELSE m + 1) = (IF n < i THEN n ELSE n + 1)
    BY <1>2, <1>3, <1>6, <2>1
  <2> QED
    BY <2>1, <2>2
<1>7. ASSUME NEW j \in Jobs, NEW k \in Jobs
      PROVE  QueueBefore(j, k)' <=> QueueBefore(j, k) /\ j # queue[i] /\ k # queue[i]
  <2>1. ASSUME QueueBefore(j, k)' PROVE QueueBefore(j, k) /\ j # queue[i] /\ k # queue[i]
    <3>1. PICK m \in 1..(Len(queue) - 1), n \in 1..(Len(queue) - 1) :
            m < n /\ queue'[m] = j /\ queue'[n] = k
      BY <1>1, <2>1 DEF QueueBefore
    <3>2. PICK r \in 1..Len(queue) : r = (IF m < i THEN m ELSE m + 1) /\ r # i /\ queue[r] = j
      BY <1>3, <3>1
    <3>3. PICK t \in 1..Len(queue) : t = (IF n < i THEN n ELSE n + 1) /\ t # i /\ queue[t] = k
      BY <1>3, <3>1
    <3>4. r < t
      BY <3>1, <3>2, <3>3
    <3> QED
      BY <1>2, <3>2, <3>3, <3>4 DEF QueueBefore
  <2>2. ASSUME QueueBefore(j, k), j # queue[i], k # queue[i] PROVE QueueBefore(j, k)'
    <3>1. PICK r \in 1..Len(queue), t \in 1..Len(queue) : r < t /\ queue[r] = j /\ queue[t] = k
      BY <2>2 DEF QueueBefore
    <3>2. PICK m \in 1..(Len(queue) - 1) : m = (IF r < i THEN r ELSE r - 1) /\ queue'[m] = j
      BY <1>4, <2>2, <3>1
    <3>3. PICK n \in 1..(Len(queue) - 1) : n = (IF t < i THEN t ELSE t - 1) /\ queue'[n] = k
      BY <1>4, <2>2, <3>1
    <3>4. r # i /\ t # i
      BY <2>2, <3>1
    <3>5. m < n
      BY <3>1, <3>2, <3>3, <3>4
    <3> QED
      BY <1>1, <3>2, <3>3, <3>5 DEF QueueBefore
  <2> QED
    BY <2>1, <2>2
<1> QED
  BY <1>5, <1>6, <1>7

\* Taking the head, and VecDeque::remove, are such steps.
LEMMA TakeHead ==
  ASSUME queue \in Seq(Jobs), queue # <<>>
  PROVE  /\ 1 \in 1..Len(queue) /\ Head(queue) = queue[1] /\ Head(queue) \in Jobs
         /\ Head(queue) \in InQueue
         /\ queue' = Tail(queue) => LeavesFrom(1)
<1>1. Len(queue) \in Nat /\ Len(queue) > 0 /\ Head(queue) = queue[1] /\ Head(queue) \in Jobs
  OBVIOUS
<1>2. queue' = Tail(queue) => LeavesFrom(1)
  BY DEF LeavesFrom
<1> QED
  BY <1>1, <1>2 DEF InQueue

LEMMA TakeAt ==
  ASSUME queue \in Seq(Jobs), NEW i \in 1..Len(queue), queue' = Without(queue, i)
  PROVE  LeavesFrom(i)
  BY DEF LeavesFrom, Without

----------------------------------------------------------------------------
(* The invariant of a job.                                                 *)

\* The logs a guard writes.
LEMMA LogForms ==
  ASSUME NEW j
  PROVE  /\ \A s \in TerminalStatuses : /\ Finish(<<"Start">>, s) = <<"Start", s>>
                                        /\ DropGuard(j, <<"Start", s>>) = <<"Start", s>>
         /\ DropGuard(j, <<"Start">>) \in {<<"Start", "Cancelled">>, <<"Start", "Failed">>}
         /\ Append(<<>>, "Start") = <<"Start">>
         /\ <<"Start">> # <<>>
         /\ \A s : <<"Start", s>> # <<>> /\ <<"Start", s>> # <<"Start">>
         /\ \A s, t : <<"Start", s>> = <<"Start", t>> => s = t
<1>1. \A s \in TerminalStatuses : Finish(<<"Start">>, s) = <<"Start", s>>
  <2>1. ~IsTerminal(<<"Start">>)
    BY DEF IsTerminal, TerminalStatuses
  <2>2. ASSUME NEW s \in TerminalStatuses PROVE Append(<<"Start">>, s) = <<"Start", s>>
    <3> DEFINE E == {"Start"} \cup TerminalStatuses
    <3>1. <<"Start", s>> \in Seq(E) /\ Append(<<"Start">>, s) \in Seq(E)
      OBVIOUS
    <3>2. Len(Append(<<"Start">>, s)) = 2 /\ Len(<<"Start", s>>) = 2
      OBVIOUS
    <3>3. \A i \in 1..2 : Append(<<"Start">>, s)[i] = <<"Start", s>>[i]
      OBVIOUS
    <3> QED
      BY <3>1, <3>2, <3>3, SeqEqual
  <2> QED
    BY <2>1, <2>2, Zenon DEF Finish
<1>2. \A s \in TerminalStatuses : DropGuard(j, <<"Start", s>>) = <<"Start", s>>
  BY DEF DropGuard, Finish, IsTerminal
<1>3. DropGuard(j, <<"Start">>) \in {<<"Start", "Cancelled">>, <<"Start", "Failed">>}
  BY <1>1 DEF DropGuard, TerminalStatuses
<1>4. Append(<<>>, "Start") = <<"Start">>
  OBVIOUS
<1>5. /\ <<"Start">> # <<>>
      /\ \A s : <<"Start", s>> # <<>> /\ <<"Start", s>> # <<"Start">>
      /\ \A s, t : <<"Start", s>> = <<"Start", t>> => s = t
  OBVIOUS
<1> QED
  BY <1>1, <1>2, <1>3, <1>4, <1>5

\* A step that does not touch a job keeps its invariant.
SameJob(k) ==
  /\ pc'[k] = pc[k] /\ outcome'[k] = outcome[k] /\ slot'[k] = slot[k]
  /\ worker'[k] = worker[k] /\ log'[k] = log[k]
  /\ k \in InQueue' <=> k \in InQueue
  /\ k \in InChannel("Submit")' <=> k \in InChannel("Submit")
  /\ k \in InChannel("Finished") /\ k \in active' => k \in InChannel("Finished")'
  /\ k \in permit' <=> k \in permit
  /\ k \in scratch' <=> k \in scratch
  /\ k \in active' => k \in active

LEMMA JobFrame ==
  ASSUME NEW k \in Jobs, JobInv(k), SameJob(k)
  PROVE  JobInv(k)'
<1>1. PlaceInv(k)'
  BY DEF JobInv, PlaceInv, SameJob, Lined, Fresh
<1>2. HeldInv(k)'
  BY DEF JobInv, HeldInv, SameJob, Lined, LiveWorkers, GuardHolders
<1>3. LogInv(k)'
  BY DEF JobInv, LogInv, SameJob, Logged, Lined, Fresh
<1> QED
  BY <1>1, <1>2, <1>3 DEF JobInv

\* A job keeps one place in the channel.
LEMMA SendOnce ==
  ASSUME channel \in Seq(Commands), PlacesOnce, NEW c \in Commands,
         channel' = Append(channel, c), UNCHANGED queue,
         c.kind = "Submit" => c.job \notin InChannel("Submit")
  PROVE  PlacesOnce'
<1>1. /\ Len(channel) \in Nat /\ Len(channel') = Len(channel) + 1
      /\ \A i \in 1..Len(channel) : channel'[i] = channel[i]
      /\ channel'[Len(channel) + 1] = c
  OBVIOUS
<1>2. ASSUME NEW m \in 1..(Len(channel) + 1), NEW n \in 1..(Len(channel) + 1),
             channel'[m].kind = "Submit", channel'[n].kind = "Submit",
             channel'[m].job = channel'[n].job
      PROVE  m = n
  <2>1. CASE m \in 1..Len(channel) /\ n \in 1..Len(channel)
    BY <1>1, <1>2, <2>1 DEF PlacesOnce
  <2>2. CASE m = Len(channel) + 1 /\ n \in 1..Len(channel)
    BY <1>1, <1>2, <2>2 DEF InChannel
  <2>3. CASE m \in 1..Len(channel) /\ n = Len(channel) + 1
    BY <1>1, <1>2, <2>3 DEF InChannel
  <2> QED
    BY <1>1, <2>1, <2>2, <2>3
<1> QED
  BY <1>1, <1>2 DEF PlacesOnce

LEMMA ReceiveOnce ==
  ASSUME channel \in Seq(Commands), channel # <<>>, PlacesOnce, channel' = Tail(channel)
  PROVE  \A m, n \in 1..Len(channel') :
           channel'[m].kind = "Submit" /\ channel'[n].kind = "Submit"
             /\ channel'[m].job = channel'[n].job => m = n
<1>1. /\ Len(channel) \in Nat /\ Len(channel') = Len(channel) - 1
      /\ \A i \in 1..(Len(channel) - 1) : channel'[i] = channel[i + 1] /\ i + 1 \in 1..Len(channel)
  OBVIOUS
<1> QED
  BY <1>1 DEF PlacesOnce

\* Nobody is sent to, taken from or moved between the lines.
LEMMA QuietLines ==
  ASSUME UNCHANGED <<channel, queue>>
  PROVE  /\ InQueue' = InQueue /\ \A k : InChannel(k)' = InChannel(k)
         /\ PlacesOnce => PlacesOnce'
  BY DEF InQueue, InChannel, PlacesOnce

\* A step that concerns one job.
LEMMA OneJob ==
  ASSUME JInv, NEW j \in Jobs, JobInv(j)', \A k \in Jobs \ {j} : SameJob(k), PlacesOnce', Bounded'
  PROVE  JInv'
  BY JobFrame DEF JInv

\* Permits are jobs, so that giving some back keeps the bound.
LEMMA PermitBound ==
  ASSUME TypeOK, Bounded, permit' \subseteq permit
  PROVE  Cardinality(permit') <= Capacity
<1>1. IsFiniteSet(permit)
  BY JobsAssumption, FS_Subset DEF TypeOK
<1>2. Cardinality(permit') <= Cardinality(permit) /\ Cardinality(permit') \in Nat
      /\ Cardinality(permit) \in Nat
  BY <1>1, FS_Subset, FS_CardinalityType
<1> QED
  BY <1>2, LimitAssumption, CapacityAssumption DEF Bounded, Capacity

LEMMA JobsInit == Init => JInv
<1> SUFFICES ASSUME Init PROVE JInv
  OBVIOUS
<1>1. InQueue = {} /\ \A k : InChannel(k) = {}
  BY DEF Init, InQueue, InChannel
<1>2. LiveWorkers = {} /\ GuardHolders = {} /\ Lined = {}
  BY <1>1 DEF Init, LiveWorkers, GuardHolders, Lined
<1>3. ASSUME NEW j \in Jobs PROVE JobInv(j)
  <2>1. /\ pc[j] = "idle" /\ worker[j] = "none" /\ slot[j] = "open" /\ log[j] = <<>>
        /\ outcome[j] = "none" /\ permit = {} /\ scratch = {} /\ active = {}
    BY DEF Init
  <2>2. \A s : ~Logged(j, s)
    BY <2>1, LogForms DEF Logged
  <2>3. PlaceInv(j)
    BY <1>1, <1>2, <2>1 DEF PlaceInv, Fresh
  <2>4. HeldInv(j)
    BY <1>1, <1>2, <2>1 DEF HeldInv
  <2>5. LogInv(j)
    BY <2>1, <2>2 DEF LogInv
  <2> QED
    BY <2>3, <2>4, <2>5 DEF JobInv
<1>4. PlacesOnce
  BY DEF Init, PlacesOnce
<1>5. Bounded
  BY FS_EmptySet, LimitAssumption, CapacityAssumption DEF Init, Bounded, Capacity
<1> QED
  BY <1>3, <1>4, <1>5 DEF JInv

\* Submission: the permit is taken before the command is sent and comes back
\* with the command; the result of wait() decides what is left to release.
LEMMA SubmitJobs ==
  ASSUME TypeOK, JInv, NEW j \in Jobs,
         SubmitCall(j) \/ SubmitAcquire(j) \/ SubmitSend(j) \/ SubmitClosed(j)
  PROVE  JInv'
<1> USE DEF clientVars, ownerVars, wireVars, dispVars, workVars
<1>0. JobInv(j) /\ PlacesOnce /\ Bounded
  BY DEF JInv
<1>1. CASE SubmitCall(j)
  <2>1. /\ pc[j] = "idle" /\ pc' = [pc EXCEPT ![j] = "acquiring"]
        /\ UNCHANGED <<outcome, channel, permit, slot, dpc, queue, active, worker, scratch, log>>
    BY <1>1 DEF SubmitCall
  <2>2. InQueue' = InQueue /\ (\A k : InChannel(k)' = InChannel(k)) /\ PlacesOnce'
    BY <1>0, <2>1, QuietLines
  <2>3. Bounded'
    BY <1>0, <2>1 DEF Bounded
  <2>4. \A k \in Jobs \ {j} : SameJob(k)
    BY <2>1, <2>2 DEF SameJob, TypeOK
  <2>5. pc'[j] = "acquiring"
    BY <2>1 DEF TypeOK
  <2>6. PlaceInv(j)' /\ HeldInv(j)' /\ LogInv(j)'
    BY <1>0, <2>1, <2>2, <2>5 DEF JobInv, PlaceInv, HeldInv, LogInv, Lined, Fresh, Logged,
       LiveWorkers, GuardHolders
  <2> QED
    BY <2>2, <2>3, <2>4, <2>6, OneJob DEF JobInv
<1>2. CASE SubmitAcquire(j)
  <2>1. /\ pc[j] = "acquiring" /\ pc' = [pc EXCEPT ![j] = "sending"]
        /\ permit' = permit \cup {j} /\ Cardinality(permit) < Capacity
        /\ UNCHANGED <<outcome, channel, slot, dpc, queue, active, worker, scratch, log>>
    BY <1>2 DEF SubmitAcquire
  <2>2. InQueue' = InQueue /\ (\A k : InChannel(k)' = InChannel(k)) /\ PlacesOnce'
    BY <1>0, <2>1, QuietLines
  <2>3. Bounded'
    <3>1. IsFiniteSet(permit) /\ Cardinality(permit) \in Nat
      BY JobsAssumption, FS_Subset, FS_CardinalityType DEF TypeOK
    <3>2. Cardinality(permit') <= Capacity
      BY <2>1, <3>1, FS_AddElement, LimitAssumption, CapacityAssumption DEF Capacity
    <3> QED
      BY <1>0, <2>1, <3>2 DEF Bounded
  <2>4. \A k \in Jobs \ {j} : SameJob(k)
    BY <2>1, <2>2 DEF SameJob, TypeOK
  <2>5. pc'[j] = "sending" /\ j \in permit'
    BY <2>1 DEF TypeOK
  <2>6. PlaceInv(j)' /\ HeldInv(j)' /\ LogInv(j)'
    BY <1>0, <2>1, <2>2, <2>5 DEF JobInv, PlaceInv, HeldInv, LogInv, Lined, Fresh, Logged,
       LiveWorkers, GuardHolders
  <2> QED
    BY <2>2, <2>3, <2>4, <2>6, OneJob DEF JobInv
<1>3. CASE SubmitSend(j)
  <2>1. /\ pc[j] = "sending" /\ pc' = [pc EXCEPT ![j] = "waiting"]
        /\ channel' = Append(channel, Command("Submit", j))
        /\ UNCHANGED <<outcome, permit, slot, dpc, queue, active, worker, scratch, log>>
    BY <1>3 DEF SubmitSend
  <2>2. /\ Command("Submit", j) \in Commands
        /\ Command("Submit", j).kind = "Submit" /\ Command("Submit", j).job = j
    BY DEF Command, Commands
  <2>3. InQueue' = InQueue /\ j \notin Lined
    BY <1>0, <2>1 DEF InQueue, JobInv, PlaceInv
  <2>4. /\ InChannel("Submit")' = InChannel("Submit") \cup {j}
        /\ InChannel("Finished")' = InChannel("Finished")
    <3> DEFINE c == Command("Submit", j)
    <3>1. \A k : c.kind = k => InChannel(k)' = InChannel(k) \cup {c.job}
      BY <2>1, <2>2, SendPlaces DEF TypeOK
    <3>2. \A k : c.kind # k => InChannel(k)' = InChannel(k)
      BY <2>1, <2>2, SendPlaces DEF TypeOK
    <3> QED
      BY <2>2, <3>1, <3>2
  <2>5. PlacesOnce'
    BY <1>0, <2>1, <2>2, <2>3, SendOnce DEF TypeOK, Lined
  <2>6. Bounded'
    BY <1>0, <2>1 DEF Bounded
  <2>7. \A k \in Jobs \ {j} : SameJob(k)
    BY <2>1, <2>3, <2>4 DEF SameJob, TypeOK
  <2>8. pc'[j] = "waiting"
    BY <2>1 DEF TypeOK
  <2>9. PlaceInv(j)' /\ HeldInv(j)' /\ LogInv(j)'
    BY <1>0, <2>1, <2>3, <2>4, <2>8 DEF JobInv, PlaceInv, HeldInv, LogInv, Lined, Fresh, Logged,
       LiveWorkers, GuardHolders
  <2> QED
    BY <2>5, <2>6, <2>7, <2>9, OneJob DEF JobInv
<1>4. CASE SubmitClosed(j)
  <2>1. /\ pc[j] = "sending" /\ pc' = [pc EXCEPT ![j] = "done"]
        /\ outcome' = [outcome EXCEPT ![j] = "Closed"]
        /\ permit' = permit \ {j}
        /\ UNCHANGED <<channel, slot, dpc, queue, active, worker, scratch, log>>
    BY <1>4 DEF SubmitClosed, Finalize
  <2>2. InQueue' = InQueue /\ (\A k : InChannel(k)' = InChannel(k)) /\ PlacesOnce'
    BY <1>0, <2>1, QuietLines
  <2>3. Bounded'
    BY <1>0, <2>1, PermitBound DEF Bounded
  <2>4. \A k \in Jobs \ {j} : SameJob(k)
    BY <2>1, <2>2 DEF SameJob, TypeOK
  <2>5. pc'[j] = "done" /\ outcome'[j] = "Closed" /\ j \notin permit'
    BY <2>1 DEF TypeOK
  <2>6. \A s : log[j] = <<>> => ~Logged(j, s)
    BY LogForms DEF Logged
  <2>7. PlaceInv(j)' /\ HeldInv(j)' /\ LogInv(j)'
    BY <1>0, <2>1, <2>2, <2>5, <2>6 DEF JobInv, PlaceInv, HeldInv, LogInv, Lined, Fresh, Logged,
       LiveWorkers, GuardHolders
  <2> QED
    BY <2>2, <2>3, <2>4, <2>7, OneJob DEF JobInv
<1> QED
  BY <1>1, <1>2, <1>3, <1>4

LEMMA WaitJobs ==
  ASSUME TypeOK, JInv, NEW j \in Jobs, WaitResult(j) \/ AbandonWait(j)
  PROVE  JInv'
<1> USE DEF clientVars, ownerVars, wireVars, dispVars, workVars
<1>0. JobInv(j) /\ PlacesOnce /\ Bounded
  BY DEF JInv
<1>1. /\ pc[j] = "waiting"
      /\ UNCHANGED <<channel, permit, slot, dpc, queue, active, worker>>
  BY DEF WaitResult, AbandonWait
<1>2. InQueue' = InQueue /\ (\A k : InChannel(k)' = InChannel(k)) /\ PlacesOnce'
  BY <1>0, <1>1, QuietLines
<1>3. Bounded'
  BY <1>0, <1>1 DEF Bounded
<1>4. \A s : ~(log[j] = <<>> /\ Logged(j, s))
  BY LogForms DEF Logged
<1>5. CASE WaitResult(j) /\ slot[j] = "Staged"
  <2>1. pc' = [pc EXCEPT ![j] = "staged"] /\ UNCHANGED <<outcome, scratch, log>>
    BY <1>5 DEF WaitResult
  <2>2. \A k \in Jobs \ {j} : SameJob(k)
    BY <1>1, <1>2, <2>1 DEF SameJob, TypeOK
  <2>3. pc'[j] = "staged"
    BY <2>1 DEF TypeOK
  <2>4. PlaceInv(j)' /\ HeldInv(j)' /\ LogInv(j)'
    BY <1>0, <1>1, <1>2, <1>5, <2>1, <2>3 DEF JobInv, PlaceInv, HeldInv, LogInv, Lined, Fresh,
       Logged, LiveWorkers, GuardHolders
  <2> QED
    BY <1>2, <1>3, <2>2, <2>4, OneJob DEF JobInv
<1>6. CASE WaitResult(j) /\ slot[j] # "Staged"
  <2>1. /\ pc' = [pc EXCEPT ![j] = "done"]
        /\ outcome' = [outcome EXCEPT ![j] = IF slot[j] = "lost" THEN "Closed" ELSE slot[j]]
        /\ slot[j] # "open"
        /\ UNCHANGED <<scratch, log>>
    BY <1>6 DEF WaitResult, Finalize
  <2>2. \A k \in Jobs \ {j} : SameJob(k)
    BY <1>1, <1>2, <2>1 DEF SameJob, TypeOK
  <2>3. /\ pc'[j] = "done" /\ slot[j] \in SlotStates
        /\ outcome'[j] = (IF slot[j] = "lost" THEN "Closed" ELSE slot[j])
    BY <2>1 DEF TypeOK
  <2>4. outcome'[j] \notin {"Published", "Publish", "abandoned"}
    BY <1>6, <2>1, <2>3 DEF SlotStates, WorkerResults
  <2>5. PlaceInv(j)' /\ HeldInv(j)'
    BY <1>0, <1>1, <1>2, <1>6, <2>1, <2>3 DEF JobInv, PlaceInv, HeldInv, Lined, Fresh,
       LiveWorkers, GuardHolders
  <2>6. LogInv(j)'
    BY <1>0, <1>1, <1>2, <1>6, <2>1, <2>3, <2>4 DEF JobInv, LogInv, Lined, Fresh, Logged
  <2> QED
    BY <1>2, <1>3, <2>2, <2>5, <2>6, OneJob DEF JobInv
<1>7. CASE AbandonWait(j)
  <2>1. /\ pc' = [pc EXCEPT ![j] = "done"]
        /\ outcome' = [outcome EXCEPT ![j] = "abandoned"]
        /\ scratch' = (IF slot[j] = "Staged" THEN scratch \ {j} ELSE scratch)
        /\ log' = (IF slot[j] = "Staged" THEN [log EXCEPT ![j] = DropGuard(j, log[j])] ELSE log)
    BY <1>7, Zenon DEF AbandonWait, Finalize, DiscardIf
  <2>2. \A k \in Jobs \ {j} : SameJob(k)
    BY <1>1, <1>2, <2>1 DEF SameJob, TypeOK
  <2>3. pc'[j] = "done" /\ outcome'[j] = "abandoned"
    BY <2>1 DEF TypeOK
  <2>4. CASE slot[j] = "Staged"
    <3>1. log[j] = <<"Start">> /\ worker[j] \notin {"none", "created", "prepared", "running"}
      BY <1>0, <1>1, <2>4, LogForms DEF JobInv, LogInv, HeldInv, PlaceInv, GuardHolders, Fresh
    <3>2. j \notin scratch' /\ (Logged(j, "Cancelled")' \/ Logged(j, "Failed")')
      BY <2>1, <2>4, <3>1, LogForms DEF Logged, TypeOK
    <3>3. PlaceInv(j)' /\ HeldInv(j)'
      BY <1>0, <1>1, <1>2, <2>3, <2>4, <3>1, <3>2 DEF JobInv, PlaceInv, HeldInv, Lined, Fresh,
         LiveWorkers, GuardHolders
    <3>4. ~Logged(j, "Done")'
      BY <3>2, LogForms DEF Logged
    <3>5. LogInv(j)'
      BY <1>1, <2>3, <2>4, <3>1, <3>2, <3>4 DEF LogInv, TerminalStatuses
    <3> QED
      BY <1>2, <1>3, <2>2, <3>3, <3>5, OneJob DEF JobInv
  <2>5. CASE slot[j] # "Staged"
    <3>1. UNCHANGED <<scratch, log>>
      BY <2>1, <2>5
    <3>2. PlaceInv(j)' /\ HeldInv(j)'
      BY <1>0, <1>1, <1>2, <2>3, <2>5, <3>1 DEF JobInv, PlaceInv, HeldInv, Lined, Fresh,
         LiveWorkers, GuardHolders
    <3>3. LogInv(j)'
      BY <1>0, <1>1, <2>3, <3>1 DEF JobInv, LogInv, Logged, Fresh
    <3> QED
      BY <1>2, <1>3, <2>2, <3>2, <3>3, OneJob DEF JobInv
  <2> QED
    BY <2>4, <2>5
<1> QED
  BY <1>5, <1>6, <1>7

\* Publication, or giving a staged output up: both guards go, the log says how.
LEMMA PublishJobs ==
  ASSUME TypeOK, JInv, NEW j \in Jobs, PublishOutput(j) \/ DiscardOutput(j)
  PROVE  JInv'
<1> USE DEF clientVars, ownerVars, wireVars, dispVars, workVars
<1>0. JobInv(j) /\ PlacesOnce /\ Bounded
  BY DEF JInv
<1>1. /\ pc[j] = "staged" /\ pc' = [pc EXCEPT ![j] = "done"] /\ scratch' = scratch \ {j}
      /\ UNCHANGED <<channel, permit, slot, dpc, queue, active, worker>>
  BY DEF PublishOutput, DiscardOutput, Finalize, DiscardIf
<1>2. InQueue' = InQueue /\ (\A k : InChannel(k)' = InChannel(k)) /\ PlacesOnce'
  BY <1>0, <1>1, QuietLines
<1>3. Bounded'
  BY <1>0, <1>1 DEF Bounded
<1>4. /\ slot[j] = "Staged" /\ log[j] = <<"Start">>
      /\ worker[j] \notin {"none", "created", "prepared", "running"}
  BY <1>0, <1>1, LogForms DEF JobInv, LogInv, HeldInv, PlaceInv, GuardHolders, Fresh
<1>5. PICK o \in {"Cancelled", "Published", "Publish", "abandoned"}, s \in TerminalStatuses :
        /\ outcome' = [outcome EXCEPT ![j] = o]
        /\ log' = [log EXCEPT ![j] = <<"Start", s>>]
        /\ o = "Published" <=> s = "Done"
        /\ o = "Cancelled" => s = "Cancelled"
        /\ o \in {"Run", "Build", "Publish"} => s = "Failed"
  <2>1. ASSUME NEW s \in TerminalStatuses
        PROVE  DropGuard(j, Finish(log[j], s)) = <<"Start", s>>
    BY <1>4, LogForms
  <2>2. {"Done", "Failed", "Cancelled"} = TerminalStatuses
    BY DEF TerminalStatuses
  <2>3. CASE PublishOutput(j)
    <3>1. \/ /\ outcome' = [outcome EXCEPT ![j] = "Cancelled"]
             /\ log' = [log EXCEPT ![j] = DropGuard(j, Finish(log[j], "Cancelled"))]
          \/ /\ outcome' = [outcome EXCEPT ![j] = "Published"]
             /\ log' = [log EXCEPT ![j] = DropGuard(j, Finish(log[j], "Done"))]
          \/ /\ outcome' = [outcome EXCEPT ![j] = "Publish"]
             /\ log' = [log EXCEPT ![j] = DropGuard(j, Finish(log[j], "Failed"))]
      BY <2>3, Zenon DEF PublishOutput, Finalize
    <3> QED
      BY <2>1, <2>2, <3>1
  <2>4. CASE DiscardOutput(j)
    <3>1. /\ outcome' = [outcome EXCEPT ![j] = "abandoned"]
          /\ log' = [log EXCEPT ![j] = DropGuard(j, log[j])]
      BY <2>4, Zenon DEF DiscardOutput, Finalize, DiscardIf
    <3>2. DropGuard(j, log[j]) \in {<<"Start", "Cancelled">>, <<"Start", "Failed">>}
      BY <1>4, LogForms
    <3> QED
      BY <2>2, <3>1, <3>2
  <2> QED
    BY <2>3, <2>4
<1>6. pc'[j] = "done" /\ outcome'[j] = o /\ Logged(j, s)' /\ j \notin scratch'
  BY <1>1, <1>5 DEF TypeOK, Logged
<1>7. Logged(j, "Done")' <=> s = "Done"
  BY <1>6, LogForms DEF Logged
<1>8. \A k \in Jobs \ {j} : SameJob(k)
  BY <1>1, <1>2, <1>5 DEF SameJob, TypeOK
<1>9. PlaceInv(j)' /\ HeldInv(j)'
  BY <1>0, <1>1, <1>2, <1>4, <1>6 DEF JobInv, PlaceInv, HeldInv, Lined, Fresh,
     LiveWorkers, GuardHolders
<1>10. LogInv(j)'
  BY <1>1, <1>4, <1>5, <1>6, <1>7 DEF LogInv
<1> QED
  BY <1>2, <1>3, <1>8, <1>9, <1>10, OneJob DEF JobInv

\* Steps that concern no job: they may add a command to the channel that is
\* not a submission.
LEMMA BystanderJobs ==
  ASSUME TypeOK, JInv,
         UNCHANGED <<pc, outcome, slot, worker, log, permit, scratch, active, queue>>,
         dpc' = "exited" => dpc = "exited",
         UNCHANGED channel \/ \E c \in Commands : c.kind # "Submit" /\ channel' = Append(channel, c)
  PROVE  JInv'
<1>1. PlacesOnce /\ Bounded
  BY DEF JInv
<1>2. Bounded' /\ InQueue' = InQueue
  BY <1>1 DEF Bounded, InQueue
<1>3. /\ InChannel("Submit")' = InChannel("Submit") /\ PlacesOnce'
      /\ InChannel("Finished") \subseteq InChannel("Finished")'
  <2>1. CASE UNCHANGED channel
    BY <1>1, <2>1, QuietLines
  <2>2. ASSUME NEW c \in Commands, c.kind # "Submit", channel' = Append(channel, c)
        PROVE  /\ InChannel("Submit")' = InChannel("Submit") /\ PlacesOnce'
               /\ InChannel("Finished") \subseteq InChannel("Finished")'
    <3>1. \A k : c.kind = k => InChannel(k)' = InChannel(k) \cup {c.job}
      BY <2>2, SendPlaces DEF TypeOK
    <3>2. \A k : c.kind # k => InChannel(k)' = InChannel(k)
      BY <2>2, SendPlaces DEF TypeOK
    <3>3. PlacesOnce'
      BY <1>1, <2>2, SendOnce DEF TypeOK
    <3> QED
      BY <2>2, <3>1, <3>2, <3>3
  <2> QED
    BY <2>1, <2>2
<1>4. \A k \in Jobs : SameJob(k)
  BY <1>2, <1>3 DEF SameJob
<1> QED
  BY <1>2, <1>3, <1>4, JobFrame DEF JInv

LEMMA ClientJobs ==
  ASSUME TypeOK, JInv, NEW j \in Jobs, Client(j) \/ Choice(j)
  PROVE  JInv'
<1>1. CASE SubmitCall(j) \/ SubmitAcquire(j) \/ SubmitSend(j) \/ SubmitClosed(j)
  BY <1>1, SubmitJobs
<1>2. CASE WaitResult(j) \/ AbandonWait(j)
  BY <1>2, WaitJobs
<1>3. CASE PublishOutput(j) \/ DiscardOutput(j)
  BY <1>3, PublishJobs
<1>4. CASE CancelCall(j) \/ DropHandle(j)
  <2>1. Command("Cancel", j) \in Commands /\ Command("Cancel", j).kind # "Submit"
    BY DEF Command, Commands
  <2>2. /\ UNCHANGED <<pc, outcome, slot, worker, log, permit, scratch, active, queue, dpc>>
        /\ UNCHANGED channel \/ channel' = Append(channel, Command("Cancel", j))
    BY <1>4 DEF CancelCall, DropHandle, wireVars, dispVars, workVars
  <2> QED
    BY <2>1, <2>2, BystanderJobs
<1> QED
  BY <1>1, <1>2, <1>3, <1>4 DEF Client, Choice

LEMMA OwnerJobs ==
  ASSUME TypeOK, JInv, Owner \/ ShutdownCall \/ DropExecutor
  PROVE  JInv'
<1>1. Command("Shutdown", NoJob) \in Commands /\ Command("Shutdown", NoJob).kind # "Submit"
  BY DEF Command, Commands
<1>2. /\ UNCHANGED <<pc, outcome, slot, worker, log, permit, scratch, active, queue, dpc>>
      /\ UNCHANGED channel \/ channel' = Append(channel, Command("Shutdown", NoJob))
  BY DEF Owner, ShutdownSend, ShutdownReturn, ShutdownCall, DropExecutor, clientVars, wireVars,
     dispVars, workVars
<1> QED
  BY <1>1, <1>2, BystanderJobs

\* A worker sends its result.  The log it leaves fits the result: empty before
\* the workspace existed, open for a staged output, closed otherwise.
FitsResult(e, r) ==
  \/ e = <<>> /\ r \in {"Cancelled", "Run"}
  \/ e = <<"Start">> /\ r = "Staged"
  \/ e = <<"Start", "Cancelled">> /\ r \in {"Cancelled", "Panic"}
  \/ e = <<"Start", "Failed">> /\ r \in {"Run", "Build", "Panic"}

LEMMA ResultJobs ==
  ASSUME TypeOK, JInv, NEW j \in Jobs, NEW r, NEW e,
         j \in Answering, WorkerResult(j, r, e), FitsResult(e, r),
         UNCHANGED <<pc, outcome, channel, permit, dpc, queue, active>>
  PROVE  JInv'
<1>0. JobInv(j) /\ PlacesOnce /\ Bounded
  BY DEF JInv
<1>1. worker[j] \in {"created", "prepared", "running"}
  BY DEF Answering
<1>2. InQueue' = InQueue /\ (\A k : InChannel(k)' = InChannel(k)) /\ PlacesOnce'
  BY <1>0, QuietLines
<1>3. Bounded'
  BY <1>0 DEF Bounded
<1>4. r \in WorkerResults
  BY DEF FitsResult, WorkerResults
<1>5. /\ slot[j] = "open" /\ j \notin Lined
      /\ pc[j] \in {"waiting", "done"}
      /\ pc[j] = "done" => outcome[j] = "abandoned"
  BY <1>0, <1>1 DEF JobInv, PlaceInv, LogInv, Fresh, TypeOK
<1>6. \A k \in Jobs \ {j} : SameJob(k)
  BY <1>2 DEF WorkerResult, SameJob, TypeOK
<1>7. worker'[j] = "notify" /\ slot'[j] = r
  BY DEF WorkerResult, TypeOK
<1>8. PlaceInv(j)'
  BY <1>0, <1>1, <1>2, <1>4, <1>5, <1>7 DEF JobInv, PlaceInv, Lined, Fresh
<1>9. j \in scratch' <=> r = "Staged" /\ pc[j] = "waiting"
  BY DEF WorkerResult
<1>10. HeldInv(j)'
  BY <1>0, <1>1, <1>2, <1>5, <1>7, <1>9 DEF JobInv, HeldInv, Lined, LiveWorkers, GuardHolders
<1>11. /\ r = "Staged" /\ pc[j] = "waiting" => log'[j] = <<"Start">>
       /\ r = "Staged" /\ pc[j] # "waiting" => Logged(j, "Cancelled")' \/ Logged(j, "Failed")'
       /\ r # "Staged" => \/ log'[j] = <<>> /\ r \in {"Cancelled", "Run"}
                          \/ Logged(j, "Cancelled")' /\ r \in {"Cancelled", "Panic"}
                          \/ Logged(j, "Failed")' /\ r \in {"Run", "Build", "Panic"}
  <2>1. log'[j] = IF r = "Staged" /\ pc[j] # "waiting" THEN DropGuard(j, e) ELSE e
    BY DEF WorkerResult, TypeOK
  <2>2. r = "Staged" => e = <<"Start">>
    BY DEF FitsResult
  <2>3. DropGuard(j, <<"Start">>) \in {<<"Start", "Cancelled">>, <<"Start", "Failed">>}
    BY LogForms
  <2> QED
    BY <2>1, <2>2, <2>3 DEF Logged, FitsResult
<1>12. ~Logged(j, "Done")'
  BY <1>11, LogForms DEF Logged
<1>13. LogInv(j)'
  <2>1. CASE r = "Staged"
    BY <1>5, <1>7, <1>9, <1>11, <1>12, <2>1 DEF LogInv, TerminalStatuses
  <2>2. CASE r # "Staged"
    BY <1>4, <1>5, <1>7, <1>9, <1>11, <1>12, <2>2 DEF LogInv, TerminalStatuses, WorkerResults
  <2> QED
    BY <2>1, <2>2
<1> QED
  BY <1>2, <1>3, <1>6, <1>8, <1>10, <1>13, OneJob DEF JobInv

LEMMA WorkerJobs ==
  ASSUME TypeOK, JInv, NEW j \in Jobs, Worker(j)
  PROVE  JInv'
<1> USE DEF clientVars, ownerVars, dispVars
<1>0. JobInv(j) /\ PlacesOnce /\ Bounded
  BY DEF JInv
<1>1. CASE WorkerBegin(j)
  <2>1. /\ worker[j] = "created" /\ log[j] = <<>> /\ slot[j] = "open"
        /\ UNCHANGED <<pc, outcome, channel, permit, dpc, queue, active>>
    BY <1>0, <1>1 DEF WorkerBegin, JobInv, LogInv, PlaceInv
  <2>2. CASE \E r \in {"Cancelled", "Run"} : WorkerResult(j, r, log[j])
    BY <2>1, <2>2, ResultJobs DEF Answering, FitsResult
  <2>3. CASE /\ worker' = [worker EXCEPT ![j] = "prepared"]
             /\ scratch' = scratch \cup {j}
             /\ log' = [log EXCEPT ![j] = Append(@, "Start")]
             /\ UNCHANGED slot
    <3>1. worker'[j] = "prepared" /\ j \in scratch' /\ log'[j] = <<"Start">>
      BY <2>1, <2>3, LogForms DEF TypeOK
    <3>2. InQueue' = InQueue /\ (\A k : InChannel(k)' = InChannel(k)) /\ PlacesOnce'
      BY <1>0, <2>1, QuietLines
    <3>3. Bounded' /\ \A k \in Jobs \ {j} : SameJob(k)
      BY <1>0, <2>1, <2>3, <3>2 DEF Bounded, SameJob, TypeOK
    <3>4. PlaceInv(j)' /\ HeldInv(j)'
      BY <1>0, <2>1, <2>3, <3>1, <3>2 DEF JobInv, PlaceInv, HeldInv, Lined, Fresh,
         LiveWorkers, GuardHolders
    <3>5. ~Logged(j, "Done")' /\ ~Logged(j, "Done")
      BY <2>1, <3>1, LogForms DEF Logged
    <3>6. pc[j] = "done" => outcome[j] = "abandoned"
      BY <1>0, <2>1 DEF JobInv, LogInv, Fresh
    <3>7. LogInv(j)'
      BY <1>0, <2>1, <2>3, <3>1, <3>5, <3>6 DEF JobInv, LogInv
    <3> QED
      BY <3>2, <3>3, <3>4, <3>7, OneJob DEF JobInv
  <2> QED
    BY <1>1, <2>2, <2>3 DEF WorkerBegin
<1>2. CASE WorkerPrepare(j) \/ WorkerRun(j)
  <2>1. /\ worker[j] \in {"prepared", "running"}
        /\ UNCHANGED <<pc, outcome, channel, permit, dpc, queue, active>>
    BY <1>2 DEF WorkerPrepare, WorkerRun
  <2>2. log[j] = <<"Start">>
    BY <1>0, <2>1, LogForms DEF JobInv, LogInv, HeldInv, GuardHolders
  <2>3. /\ \A s \in TerminalStatuses : DropGuard(j, Finish(log[j], s)) = <<"Start", s>>
        /\ "Failed" \in TerminalStatuses /\ "Cancelled" \in TerminalStatuses
        /\ DropGuard(j, log[j]) \in {<<"Start", "Cancelled">>, <<"Start", "Failed">>}
    BY <2>2, LogForms DEF TerminalStatuses
  <2>4. CASE \E r, e : WorkerResult(j, r, e) /\ FitsResult(e, r)
    BY <2>1, <2>4, ResultJobs DEF Answering
  <2>5. CASE worker' = [worker EXCEPT ![j] = "running"] /\ UNCHANGED <<slot, scratch, log>>
    <3>1. worker'[j] = "running"
      BY <2>5 DEF TypeOK
    <3>2. InQueue' = InQueue /\ (\A k : InChannel(k)' = InChannel(k)) /\ PlacesOnce'
      BY <1>0, <2>1, QuietLines
    <3>3. Bounded' /\ \A k \in Jobs \ {j} : SameJob(k)
      BY <1>0, <2>1, <2>5, <3>2 DEF Bounded, SameJob, TypeOK
    <3>4. PlaceInv(j)' /\ HeldInv(j)'
      BY <1>0, <2>1, <2>5, <3>1, <3>2 DEF JobInv, PlaceInv, HeldInv, Lined, Fresh,
         LiveWorkers, GuardHolders
    <3>5. LogInv(j)'
      BY <1>0, <2>1, <2>5, <3>1 DEF JobInv, LogInv, Logged, Fresh
    <3> QED
      BY <3>2, <3>3, <3>4, <3>5, OneJob DEF JobInv
  <2>6. CASE WorkerPrepare(j)
    <3>1. \/ WorkerResult(j, "Run", DropGuard(j, Finish(log[j], "Failed")))
          \/ WorkerResult(j, "Cancelled", DropGuard(j, Finish(log[j], "Cancelled")))
          \/ worker' = [worker EXCEPT ![j] = "running"] /\ UNCHANGED <<slot, scratch, log>>
      BY <2>6, Zenon DEF WorkerPrepare
    <3>2. /\ FitsResult(DropGuard(j, Finish(log[j], "Failed")), "Run")
          /\ FitsResult(DropGuard(j, Finish(log[j], "Cancelled")), "Cancelled")
      BY <2>3 DEF FitsResult
    <3> QED
      BY <2>4, <2>5, <3>1, <3>2, Zenon
  <2>7. CASE WorkerRun(j)
    <3>1. \/ WorkerResult(j, "Staged", log[j])
          \/ WorkerResult(j, "Cancelled", DropGuard(j, Finish(log[j], "Cancelled")))
          \/ WorkerResult(j, "Build", DropGuard(j, Finish(log[j], "Failed")))
          \/ WorkerResult(j, "Panic", DropGuard(j, log[j]))
      BY <2>7, Zenon DEF WorkerRun
    <3>2. /\ FitsResult(log[j], "Staged")
          /\ FitsResult(DropGuard(j, Finish(log[j], "Cancelled")), "Cancelled")
          /\ FitsResult(DropGuard(j, Finish(log[j], "Failed")), "Build")
          /\ FitsResult(DropGuard(j, log[j]), "Panic")
      BY <2>2, <2>3 DEF FitsResult
    <3> QED
      BY <2>4, <3>1, <3>2, Zenon
  <2> QED
    BY <1>2, <2>6, <2>7
<1>3. CASE WorkerNotify(j) \/ WorkerExit(j)
  <2>1. /\ UNCHANGED <<pc, outcome, slot, scratch, log, dpc, queue, active>>
        /\ worker[j] \in {"notify", "dropping"}
    BY <1>3 DEF WorkerNotify, WorkerExit
  <2>2. Command("Finished", j) \in Commands /\ Command("Finished", j).kind = "Finished"
        /\ Command("Finished", j).job = j
    BY DEF Command, Commands
  <2>3. InQueue' = InQueue
    BY <2>1 DEF InQueue
  <2>4. CASE WorkerNotify(j)
    <3>1. /\ worker' = [worker EXCEPT ![j] = "dropping"] /\ UNCHANGED permit
          /\ \/ channel' = Append(channel, Command("Finished", j))
             \/ dpc = "exited" /\ UNCHANGED channel
      BY <2>4 DEF WorkerNotify
    <3>2. /\ InChannel("Submit")' = InChannel("Submit") /\ PlacesOnce'
          /\ InChannel("Finished") \subseteq InChannel("Finished")'
          /\ dpc = "exited" \/ j \in InChannel("Finished")'
      <4>1. CASE UNCHANGED channel /\ dpc = "exited"
        BY <1>0, <2>1, <4>1, QuietLines
      <4>2. CASE channel' = Append(channel, Command("Finished", j))
        <5> DEFINE c == Command("Finished", j)
        <5>1. \A k : c.kind = k => InChannel(k)' = InChannel(k) \cup {c.job}
          BY <4>2, <2>2, SendPlaces DEF TypeOK
        <5>2. \A k : c.kind # k => InChannel(k)' = InChannel(k)
          BY <4>2, <2>2, SendPlaces DEF TypeOK
        <5>3. PlacesOnce'
          BY <1>0, <2>1, <2>2, <4>2, SendOnce DEF TypeOK
        <5> QED
          BY <2>2, <5>1, <5>2, <5>3
      <4> QED
        BY <3>1, <4>1, <4>2
    <3>3. Bounded' /\ \A k \in Jobs \ {j} : SameJob(k)
      BY <1>0, <2>1, <2>3, <3>1, <3>2 DEF Bounded, SameJob, TypeOK
    <3>4. worker[j] = "notify" /\ worker'[j] = "dropping"
      BY <2>4, <3>1 DEF WorkerNotify, TypeOK
    <3>5. PlaceInv(j)' /\ HeldInv(j)'
      BY <1>0, <2>1, <2>3, <3>1, <3>2, <3>4 DEF JobInv, PlaceInv, HeldInv, Lined, Fresh,
         LiveWorkers, GuardHolders, Bounded
    <3>6. LogInv(j)'
      BY <1>0, <2>1, <3>4 DEF JobInv, LogInv, Logged, Fresh
    <3> QED
      BY <3>2, <3>3, <3>5, <3>6, OneJob DEF JobInv
  <2>5. CASE WorkerExit(j)
    <3>1. /\ worker' = [worker EXCEPT ![j] = "exited"] /\ permit' = permit \ {j}
          /\ UNCHANGED channel
      BY <2>5 DEF WorkerExit
    <3>2. (\A k : InChannel(k)' = InChannel(k)) /\ PlacesOnce'
      BY <1>0, <2>1, <3>1, QuietLines
    <3>3. Bounded'
      BY <1>0, <2>1, <3>1, PermitBound DEF Bounded
    <3>4. \A k \in Jobs \ {j} : SameJob(k)
      BY <2>1, <2>3, <3>1, <3>2 DEF SameJob, TypeOK
    <3>5. worker[j] = "dropping" /\ worker'[j] = "exited" /\ j \notin permit'
      BY <2>5, <3>1 DEF WorkerExit, TypeOK
    <3>6. PlaceInv(j)' /\ HeldInv(j)'
      BY <1>0, <2>1, <2>3, <3>2, <3>5 DEF JobInv, PlaceInv, HeldInv, Lined, Fresh,
         LiveWorkers, GuardHolders
    <3>7. LogInv(j)'
      BY <1>0, <2>1, <3>5 DEF JobInv, LogInv, Logged, Fresh
    <3> QED
      BY <3>2, <3>3, <3>4, <3>6, <3>7, OneJob DEF JobInv
  <2> QED
    BY <1>3, <2>4, <2>5
<1> QED
  BY <1>1, <1>2, <1>3 DEF Worker

\* Jobs that stand in line are answered without a worker, whichever way.
LEMMA RefuseJobs ==
  ASSUME TypeOK, JInv, NEW S, S \subseteq Lined, S \subseteq Jobs,
         NEW result, result \in {"Closed", "Cancelled", "Setup", "lost"},
         slot' = [j \in Jobs |-> IF j \in S THEN result ELSE slot[j]],
         permit' = permit \ S,
         UNCHANGED <<pc, outcome, worker, log, scratch, active>>,
         \A j \in Jobs : /\ j \in InQueue' <=> j \in InQueue \ S
                         /\ j \in InChannel("Submit")' <=> j \in InChannel("Submit") \ S
                         /\ j \in InChannel("Finished") /\ j \in active => j \in InChannel("Finished")',
         PlacesOnce', dpc' = "exited" => active = {}
  PROVE  JInv'
<1>1. PlacesOnce /\ Bounded /\ \A j \in Jobs : JobInv(j)
  BY DEF JInv
<1>2. Bounded'
  BY <1>1, PermitBound DEF Bounded
<1>3. ASSUME NEW j \in Jobs PROVE JobInv(j)'
  <2>1. CASE j \in S
    <3>1. /\ Fresh(j) /\ j \in Lined /\ pc[j] \in {"waiting", "done"}
          /\ pc[j] = "done" => outcome[j] = "abandoned"
      BY <1>1, <2>1 DEF JobInv, PlaceInv, LogInv, Fresh, TypeOK
    <3>2. slot'[j] = result /\ j \notin permit' /\ j \notin Lined'
      BY <2>1 DEF Lined
    <3>3. PlaceInv(j)' /\ HeldInv(j)'
      BY <1>1, <2>1, <3>1, <3>2 DEF JobInv, PlaceInv, HeldInv, Lined, Fresh, LiveWorkers,
         GuardHolders
    <3>4. ~Logged(j, "Done")
      BY <3>1, LogForms DEF Fresh, Logged
    <3>5. LogInv(j)'
      BY <1>1, <3>1, <3>2, <3>4 DEF JobInv, LogInv, Logged, Fresh
    <3> QED
      BY <3>3, <3>5 DEF JobInv
  <2>2. CASE j \notin S
    <3>1. SameJob(j)
      BY <2>2 DEF SameJob
    <3> QED
      BY <1>1, <3>1, JobFrame
  <2> QED
    BY <2>1, <2>2
<1> QED
  BY <1>2, <1>3 DEF JInv

LEMMA DispatcherJobs ==
  ASSUME TypeOK, JInv, Dispatcher
  PROVE  JInv'
<1> USE DEF clientVars, ownerVars, wireVars, workVars
<1> DEFINE h == Head(channel).job
<1>0. PlacesOnce /\ Bounded /\ \A j \in Jobs : JobInv(j)
  BY DEF JInv
<1>a. ASSUME NEW k, Received(k)
      PROVE  /\ dpc = "recv" /\ channel \in Seq(Commands) /\ channel # <<>> /\ channel' = Tail(channel)
             /\ Head(channel).kind = k
             /\ k # "Submit" => InChannel("Submit")' = InChannel("Submit")
             /\ k # "Finished" => InChannel("Finished")' = InChannel("Finished")
             /\ k = "Submit" => InChannel("Submit")' = InChannel("Submit") \ {h}
                                /\ h \in InChannel("Submit") /\ h \in Jobs
             /\ UNCHANGED queue => PlacesOnce'
  <2>1. /\ dpc = "recv" /\ channel \in Seq(Commands) /\ channel # <<>> /\ channel' = Tail(channel)
        /\ Head(channel).kind = k
    BY <1>a DEF Received, TypeOK
  <2>2. k # "Shutdown" => h \in Jobs
    BY <1>a, HeadCommand
  <2>3. UNCHANGED queue => PlacesOnce'
    BY <1>0, <2>1, ReceiveOnce DEF PlacesOnce
  <2> QED
    BY <1>0, <2>1, <2>2, <2>3, ReceivePlaces
<1>1. CASE RecvSubmit
  <2>1. PICK g \in Jobs : g = h
    BY <1>1, <1>a DEF RecvSubmit
  <2>2. /\ Received("Submit") /\ queue' = Append(queue, g) /\ dpc' = "fill"
        /\ UNCHANGED <<pc, outcome, permit, slot, active, worker, scratch, log>>
    BY <1>1, <2>1 DEF RecvSubmit
  <2>3. /\ channel \in Seq(Commands) /\ channel # <<>> /\ channel' = Tail(channel)
        /\ InChannel("Submit")' = InChannel("Submit") \ {g} /\ g \in InChannel("Submit")
        /\ InChannel("Finished")' = InChannel("Finished")
    BY <1>a, <2>1, <2>2
  <2>4. g \in Lined /\ g \notin InQueue /\ queue \in Seq(Jobs) /\ JobInv(g)
    BY <1>0, <2>3 DEF JobInv, PlaceInv, Lined, TypeOK
  <2>5. InQueue' = InQueue \cup {g} /\ \A m, n \in 1..Len(queue') : queue'[m] = queue'[n] => m = n
    BY <1>0, <2>2, <2>4, QueueJoin
  <2>6. PlacesOnce'
    BY <1>0, <2>3, <2>5, ReceiveOnce DEF PlacesOnce
  <2>7. Bounded' /\ \A k \in Jobs \ {g} : SameJob(k)
    BY <1>0, <2>2, <2>3, <2>5 DEF Bounded, SameJob
  <2>8. g \in Lined' /\ g \in InQueue' /\ g \notin InChannel("Submit")'
    BY <2>3, <2>5 DEF Lined
  <2>9. PlaceInv(g)' /\ HeldInv(g)' /\ LogInv(g)'
    BY <2>2, <2>3, <2>4, <2>8 DEF JobInv, PlaceInv, HeldInv, LogInv, Fresh, Logged,
       LiveWorkers, GuardHolders
  <2> QED
    BY <2>6, <2>7, <2>9, OneJob DEF JobInv
<1>2. CASE RecvLateSubmit
  <2>1. /\ Received("Submit") /\ UNCHANGED queue /\ dpc' = "fill"
        /\ slot' = [j \in Jobs |-> IF j \in {h} THEN "Closed" ELSE slot[j]]
        /\ permit' = permit \ {h}
        /\ UNCHANGED <<pc, outcome, worker, log, scratch, active>>
    BY <1>2 DEF RecvLateSubmit, AnswerPending
  <2>2. /\ InChannel("Submit")' = InChannel("Submit") \ {h} /\ h \in InChannel("Submit")
        /\ InChannel("Finished")' = InChannel("Finished") /\ h \in Jobs /\ PlacesOnce'
    BY <1>a, <2>1
  <2>3. h \in Lined /\ h \notin InQueue /\ InQueue' = InQueue
    BY <1>0, <2>1, <2>2 DEF JobInv, PlaceInv, Lined, InQueue
  <2>4. \A j \in Jobs : /\ j \in InQueue' <=> j \in InQueue \ {h}
                        /\ j \in InChannel("Submit")' <=> j \in InChannel("Submit") \ {h}
                        /\ j \in InChannel("Finished") /\ j \in active => j \in InChannel("Finished")'
    BY <2>2, <2>3
  <2> QED
    BY <2>1, <2>2, <2>3, <2>4, RefuseJobs
<1>3. CASE RecvCancelQueued
  <2>1. /\ Received("Cancel") /\ dpc' = "fill"
        /\ slot' = [j \in Jobs |-> IF j \in {h} THEN "Cancelled" ELSE slot[j]]
        /\ permit' = permit \ {h}
        /\ UNCHANGED <<pc, outcome, worker, log, scratch, active>>
    BY <1>3 DEF RecvCancelQueued, AnswerPending
  <2>2. /\ InChannel("Submit")' = InChannel("Submit") /\ InChannel("Finished")' = InChannel("Finished")
        /\ channel \in Seq(Commands) /\ channel # <<>> /\ channel' = Tail(channel)
    BY <1>a, <2>1
  <2>3. PICK i \in 1..Len(queue) : queue[i] = h /\ queue' = Without(queue, i)
    BY <1>3 DEF RecvCancelQueued
  <2>4. queue \in Seq(Jobs) /\ LeavesFrom(i)
    BY <2>3, TakeAt DEF TypeOK
  <2>5. InQueue' = InQueue \ {h} /\ \A m, n \in 1..Len(queue') : queue'[m] = queue'[n] => m = n
    BY <1>0, <2>3, <2>4, QueueLeave
  <2>6. PlacesOnce'
    BY <1>0, <2>2, <2>5, ReceiveOnce DEF PlacesOnce
  <2>7. h \in InQueue /\ h \in Jobs
    BY <2>3, <2>4 DEF InQueue
  <2>8. h \in Lined /\ h \notin InChannel("Submit")
    BY <1>0, <2>7 DEF JobInv, PlaceInv, Lined
  <2>9. \A j \in Jobs : /\ j \in InQueue' <=> j \in InQueue \ {h}
                        /\ j \in InChannel("Submit")' <=> j \in InChannel("Submit") \ {h}
                        /\ j \in InChannel("Finished") /\ j \in active => j \in InChannel("Finished")'
    BY <2>2, <2>5, <2>8
  <2> QED
    BY <2>1, <2>6, <2>7, <2>8, <2>9, RefuseJobs
<1>4. CASE RecvCancelOther \/ RecvFinished
  <2>1. PICK k \in {"Cancel", "Finished"} : Received(k) /\ (k = "Finished" => active' = active \ {h})
                                            /\ (k = "Cancel" => UNCHANGED active)
    <3>1. CASE RecvCancelOther
      BY <3>1 DEF RecvCancelOther
    <3>2. CASE RecvFinished
      BY <3>2 DEF RecvFinished
    <3> QED
      BY <1>4, <3>1, <3>2
  <2>2. UNCHANGED <<pc, outcome, permit, slot, queue, worker, scratch, log>> /\ dpc' # "exited"
    BY <1>4 DEF RecvCancelOther, RecvFinished
  <2>3. /\ channel \in Seq(Commands) /\ channel # <<>> /\ channel' = Tail(channel)
        /\ InChannel("Submit")' = InChannel("Submit") /\ PlacesOnce' /\ Head(channel).kind = k
    BY <1>a, <2>1, <2>2
  <2>4. \A x \in InChannel("Finished") : k # "Finished" \/ x # h => x \in InChannel("Finished")'
    BY <2>3, ReceivePlaces
  <2>5. InQueue' = InQueue
    BY <2>2 DEF InQueue
  <2>6. \A x \in Jobs : SameJob(x)
    BY <2>1, <2>2, <2>3, <2>4, <2>5 DEF SameJob
  <2>7. Bounded'
    BY <1>0, <2>2 DEF Bounded
  <2> QED
    BY <1>0, <2>3, <2>6, <2>7, JobFrame DEF JInv
<1>5. CASE JoinWorker \/ FillDone
  <2>1. /\ UNCHANGED <<pc, outcome, slot, worker, log, permit, scratch, active, queue, channel>>
        /\ dpc' # "exited"
    BY <1>5 DEF JoinWorker, FillDone
  <2> QED
    BY <2>1, BystanderJobs
<1>6. CASE RecvShutdown
  <2>1. /\ Received("Shutdown") /\ dpc' = "fill" /\ queue' = <<>>
        /\ slot' = [j \in Jobs |-> IF j \in InQueue THEN "Closed" ELSE slot[j]]
        /\ permit' = permit \ InQueue
        /\ UNCHANGED <<pc, outcome, worker, log, scratch, active>>
    BY <1>6 DEF RecvShutdown, AnswerPending
  <2>2. /\ InChannel("Submit")' = InChannel("Submit") /\ InChannel("Finished")' = InChannel("Finished")
        /\ channel \in Seq(Commands) /\ channel # <<>> /\ channel' = Tail(channel)
    BY <1>a, <2>1
  <2>3. InQueue' = {} /\ InQueue \subseteq Jobs /\ InQueue \subseteq Lined
    BY <2>1 DEF InQueue, Lined, TypeOK
  <2>4. PlacesOnce'
    BY <1>0, <2>1, <2>2, ReceiveOnce DEF PlacesOnce
  <2>5. \A j \in Jobs : /\ j \in InQueue' <=> j \in InQueue \ InQueue
                        /\ j \in InChannel("Submit")' <=> j \in InChannel("Submit") \ InQueue
                        /\ j \in InChannel("Finished") /\ j \in active => j \in InChannel("Finished")'
    BY <1>0, <2>2, <2>3 DEF JobInv, PlaceInv
  <2> QED
    BY <2>1, <2>3, <2>4, <2>5, RefuseJobs
<1>7. CASE RecvNone \/ DispatcherExit
  <2>1. /\ dpc' = "exited" /\ queue' = <<>> /\ channel' = <<>>
        /\ UNCHANGED <<pc, outcome, worker, log, scratch, active>>
    BY <1>7 DEF RecvNone, DispatcherExit, DropReceiver
  <2>2. /\ slot' = [j \in Jobs |-> IF j \in Lined THEN "lost" ELSE slot[j]]
        /\ permit' = permit \ Lined
        /\ active = {}
    <3>1. CASE RecvNone
      <4>1. \A k : InChannel(k) = {}
        BY <3>1 DEF RecvNone, InChannel
      <4>2. Lined = InQueue
        BY <4>1 DEF Lined
      <4>3. LiveWorkers = {}
        BY <3>1 DEF RecvNone, SenderAlive
      <4>4. ASSUME NEW j \in active PROVE FALSE
        <5>1. j \in Jobs /\ worker[j] = "exited"
          BY <1>0, <4>3, <4>4 DEF JobInv, PlaceInv, LiveWorkers, TypeOK
        <5> QED
          BY <1>0, <4>1, <4>4, <5>1 DEF JobInv, PlaceInv
      <4> QED
        BY <3>1, <4>2, <4>4 DEF RecvNone, DropReceiver
    <3>2. CASE DispatcherExit
      <4>1. InChannel("Submit") \cup InQueue = Lined
        BY DEF Lined
      <4> QED
        BY <3>2, <4>1 DEF DispatcherExit, DropReceiver
    <3> QED
      BY <1>7, <3>1, <3>2
  <2>3. Lined \subseteq Jobs
    <3>1. InQueue \subseteq Jobs
      BY DEF InQueue, TypeOK
    <3>2. InChannel("Submit") \subseteq Jobs
      <4>1. \A i \in 1..Len(channel) : channel[i] \in Commands
        BY DEF TypeOK
      <4> QED
        BY <4>1, CommandTypes DEF InChannel
    <3> QED
      BY <3>1, <3>2 DEF Lined
  <2>4. InQueue' = {} /\ InChannel("Submit")' = {} /\ PlacesOnce'
    BY <2>1 DEF InQueue, InChannel, PlacesOnce
  <2>5. \A j \in Jobs : /\ j \in InQueue' <=> j \in InQueue \ Lined
                        /\ j \in InChannel("Submit")' <=> j \in InChannel("Submit") \ Lined
                        /\ j \in InChannel("Finished") /\ j \in active => j \in InChannel("Finished")'
    BY <2>2, <2>4 DEF Lined
  <2> QED
    BY <2>1, <2>2, <2>3, <2>4, <2>5, RefuseJobs
<1>8. CASE FillRefuse \/ FillStart
  <2>0. PICK q \in Jobs : q = Head(queue)
    BY <1>8, TakeHead DEF FillRefuse, FillStart, CanFill, TypeOK
  <2>1. queue \in Seq(Jobs) /\ queue # <<>> /\ queue' = Tail(queue) /\ UNCHANGED channel
        /\ UNCHANGED <<pc, outcome, scratch, log>> /\ dpc = "fill" /\ dpc' = "fill"
    BY <1>8 DEF FillRefuse, FillStart, CanFill, TypeOK
  <2>2. 1 \in 1..Len(queue) /\ q = queue[1] /\ q \in InQueue /\ LeavesFrom(1)
    BY <2>0, <2>1, TakeHead
  <2>3. InQueue' = InQueue \ {q} /\ \A m, n \in 1..Len(queue') : queue'[m] = queue'[n] => m = n
    BY <1>0, <2>1, <2>2, QueueLeave
  <2>4. \A k : InChannel(k)' = InChannel(k)
    BY <2>1 DEF InChannel
  <2>5. PlacesOnce'
    BY <1>0, <2>1, <2>3 DEF PlacesOnce
  <2>6. q \in Lined /\ q \notin InChannel("Submit") /\ JobInv(q)
    BY <1>0, <2>2 DEF JobInv, PlaceInv, Lined
  <2>7. CASE FillRefuse
    <3>1. PICK r \in {"Closed", "Cancelled", "Setup"} : AnswerPending({q}, r)
      BY <2>0, <2>7 DEF FillRefuse
    <3>2. UNCHANGED <<worker, active>>
      BY <2>7 DEF FillRefuse
    <3>3. \A j \in Jobs : /\ j \in InQueue' <=> j \in InQueue \ {q}
                          /\ j \in InChannel("Submit")' <=> j \in InChannel("Submit") \ {q}
                          /\ j \in InChannel("Finished") /\ j \in active => j \in InChannel("Finished")'
      BY <2>3, <2>4, <2>6
    <3> QED
      BY <2>1, <2>2, <2>5, <2>6, <3>1, <3>2, <3>3, RefuseJobs DEF AnswerPending
  <2>8. CASE FillStart
    <3>1. /\ worker' = [worker EXCEPT ![q] = "created"] /\ active' = active \cup {q}
          /\ UNCHANGED <<permit, slot>>
      BY <2>0, <2>8 DEF FillStart
    <3>2. Bounded' /\ \A k \in Jobs \ {q} : SameJob(k)
      BY <1>0, <2>1, <2>3, <2>4, <3>1 DEF Bounded, SameJob, TypeOK
    <3>3. worker'[q] = "created" /\ q \notin Lined' /\ q \notin InQueue' /\ q \notin InChannel("Submit")'
      BY <2>2, <2>3, <2>4, <2>6, <3>1 DEF TypeOK, Lined
    <3>4. Fresh(q) /\ pc[q] \notin {"idle", "acquiring", "sending"}
          /\ (pc[q] = "done" => outcome[q] = "abandoned")
      BY <2>6 DEF JobInv, PlaceInv, LogInv, Fresh
    <3>5. PlaceInv(q)' /\ HeldInv(q)'
      BY <2>1, <2>2, <2>6, <3>1, <3>3, <3>4 DEF JobInv, PlaceInv, HeldInv, Fresh, LiveWorkers,
         GuardHolders
    <3>6. LogInv(q)'
      BY <2>1, <2>6, <3>1, <3>3, <3>4 DEF JobInv, LogInv, Logged, Fresh
    <3> QED
      BY <2>2, <2>5, <3>2, <3>5, <3>6, OneJob DEF JobInv
  <2> QED
    BY <1>8, <2>7, <2>8
<1> QED
  BY <1>1, <1>2, <1>3, <1>4, <1>5, <1>6, <1>7, <1>8 DEF Dispatcher

LEMMA JobsStep == TypeOK /\ JInv /\ [Next]_vars => JInv'
<1> SUFFICES ASSUME TypeOK, JInv, [Next]_vars PROVE JInv'
  OBVIOUS
<1>1. ASSUME NEW j \in Jobs, Client(j) \/ Choice(j) PROVE JInv'
  BY <1>1, ClientJobs
<1>2. ASSUME NEW j \in Jobs, Worker(j) PROVE JInv'
  BY <1>2, WorkerJobs
<1>3. CASE Owner \/ ShutdownCall \/ DropExecutor
  BY <1>3, OwnerJobs
<1>4. CASE Dispatcher
  BY <1>4, DispatcherJobs
<1>5. CASE (\E t \in Tokens : CancelToken(t)) \/ UNCHANGED vars
  <2>1. UNCHANGED <<pc, outcome, slot, worker, log, permit, scratch, active, queue, dpc, channel>>
    BY <1>5 DEF CancelToken, vars, clientVars, ownerVars, wireVars, dispVars, workVars
  <2> QED
    BY <2>1, BystanderJobs
<1> QED
  BY <1>1, <1>2, <1>3, <1>4, <1>5 DEF Next

\* Jobs in line are jobs.
LEMMA LinedJobs == TypeOK => InQueue \subseteq Jobs /\ InChannel("Submit") \subseteq Jobs
<1> SUFFICES ASSUME TypeOK PROVE InQueue \subseteq Jobs /\ InChannel("Submit") \subseteq Jobs
  OBVIOUS
<1>1. \A i \in 1..Len(channel) : channel[i] \in Commands
  BY DEF TypeOK
<1>2. InQueue \subseteq Jobs
  BY DEF InQueue, TypeOK
<1> QED
  BY <1>1, <1>2, CommandTypes DEF InChannel

\* For every job: its permit of the semaphore, its scratch directory and its
\* log entry are held exactly as long as the job needs them, on every path
\* through submit, dispatch, the worker closure and publication, and accepted
\* work never exceeds jobs + queue_capacity.
THEOREM JobsAlwaysAccounted == Spec => []JobsAccounted
<1>1. IInv /\ JInv => JobsAccounted
  <2> SUFFICES ASSUME IInv, JInv PROVE JobsAccounted
    OBVIOUS
  <2>1. TypeOK /\ PlacesOnce /\ Bounded /\ Stopped /\ \A j \in Jobs : JobInv(j)
    BY DEF IInv, JInv
  <2>2. permit = {j \in Jobs : pc[j] = "sending"} \cup InChannel("Submit")
                   \cup InQueue \cup LiveWorkers
    <3>1. permit \subseteq Jobs /\ LiveWorkers \subseteq Jobs
      BY <2>1 DEF TypeOK, LiveWorkers
    <3>2. InQueue \subseteq Jobs /\ InChannel("Submit") \subseteq Jobs
      BY <2>1, LinedJobs
    <3>3. \A j \in Jobs : j \in permit <=> \/ pc[j] = "sending" \/ j \in InQueue
                                           \/ j \in InChannel("Submit") \/ j \in LiveWorkers
      BY <2>1 DEF JobInv, HeldInv, Lined
    <3> QED
      BY <3>1, <3>2, <3>3
  <2>3. dpc = "exited" => active = {} /\ permit = {j \in Jobs : pc[j] = "sending"}
    <3> SUFFICES ASSUME dpc = "exited"
                 PROVE  active = {} /\ permit = {j \in Jobs : pc[j] = "sending"}
      OBVIOUS
    <3>1. LiveWorkers = {} /\ queue = <<>> /\ channel = <<>> /\ active = {}
      BY <2>1 DEF Stopped, Bounded
    <3>2. InQueue = {} /\ InChannel("Submit") = {}
      BY <3>1 DEF InQueue, InChannel
    <3> QED
      BY <2>2, <3>1, <3>2
  <2>4. PermitsMatchWork
    BY <2>1, <2>2, <2>3 DEF PermitsMatchWork, Bounded
  <2>5. scratch = GuardHolders
    <3>1. scratch \subseteq Jobs /\ GuardHolders \subseteq Jobs
      BY <2>1 DEF TypeOK, GuardHolders
    <3> QED
      BY <2>1, <3>1 DEF JobInv, HeldInv
  <2>6. ASSUME NEW j \in Jobs
        PROVE  \/ log[j] = <<>> /\ j \notin scratch
               \/ log[j] = <<"Start">> /\ j \in scratch
               \/ /\ Len(log[j]) = 2 /\ log[j][1] = "Start" /\ IsTerminal(log[j])
                  /\ j \notin scratch
    <3>1. ASSUME NEW s \in TerminalStatuses
          PROVE  /\ Len(<<"Start", s>>) = 2 /\ <<"Start", s>>[1] = "Start"
                 /\ IsTerminal(<<"Start", s>>)
      BY DEF IsTerminal
    <3>2. \/ log[j] = <<>> /\ j \notin scratch
          \/ log[j] = <<"Start">> /\ j \in scratch
          \/ j \notin scratch /\ \E s \in TerminalStatuses : log[j] = <<"Start", s>>
      BY <2>1 DEF JobInv, LogInv, Logged
    <3> QED
      BY <3>1, <3>2
  <2> QED
    BY <2>4, <2>5, <2>6, Zenon DEF JobsAccounted, GuardsReleased
<1> QED
  BY InvInit, InvStep, JobsInit, JobsStep, <1>1, PTL DEF Spec, IInv

\* The terminal event of a started builder and the result of its submitter
\* never disagree: Done if and only if the output was published, and a
\* cancellation or a failure is logged as what it was.
THEOREM LogAlwaysMatchesOutcome == Spec => []LogMatchesOutcome
<1>1. JInv => LogMatchesOutcome
  <2> SUFFICES ASSUME JInv, NEW j \in Jobs, pc[j] = "done", log[j] # <<>>
               PROVE  LET last == log[j][Len(log[j])] IN
                      /\ (last = "Done") <=> (outcome[j] = "Published")
                      /\ outcome[j] = "Cancelled" => last = "Cancelled"
                      /\ outcome[j] \in {"Run", "Build", "Publish"} => last = "Failed"
    BY DEF LogMatchesOutcome
  <2>1. LogInv(j)
    BY DEF JInv, JobInv
  <2>2. \A s : Logged(j, s) => log[j][Len(log[j])] = s
    BY DEF Logged
  <2>3. CASE log[j] = <<"Start">>
    <3>1. log[j][Len(log[j])] = "Start"
      BY <2>3
    <3> QED
      BY <2>1, <2>2, <3>1 DEF LogInv
  <2>4. CASE \E s \in TerminalStatuses : Logged(j, s)
    BY <2>1, <2>2, <2>4 DEF LogInv, Logged
  <2> QED
    BY <2>1, <2>3, <2>4 DEF LogInv
<1> QED
  BY TypeInit, TypeStep, JobsInit, JobsStep, <1>1, PTL DEF Spec

----------------------------------------------------------------------------
(* The executor is the abstract build service.                             *)

\* Who is ahead of whom.
Before(j, k) ==
  /\ j \in Lined /\ k \in Lined
  /\ \/ j \in InQueue /\ k \in InChannel("Submit")
     \/ QueueBefore(j, k)
     \/ ChannelBefore(j, k)

PairsOfJobs ==
  /\ Lined \subseteq Jobs /\ Ahead \subseteq Jobs \X Jobs
  /\ \A j, k \in Jobs : <<j, k>> \in Ahead <=> Before(j, k)

LEMMA AheadPairs == TypeOK => PairsOfJobs
<1> SUFFICES ASSUME TypeOK PROVE PairsOfJobs
  OBVIOUS
<1>1. Lined \subseteq Jobs
  BY LinedJobs DEF Lined
<1>2. \A j, k \in Jobs : <<j, k>> \in Ahead <=> Before(j, k)
  BY DEF Ahead, Before
<1> QED
  BY <1>1, <1>2 DEF Ahead, PairsOfJobs

\* Two relations on jobs that agree on every pair are the same.
LEMMA SamePairs ==
  ASSUME NEW A, NEW B, A \subseteq Jobs \X Jobs, B \subseteq Jobs \X Jobs,
         \A j, k \in Jobs : <<j, k>> \in A <=> <<j, k>> \in B
  PROVE  A = B
  OBVIOUS

\* The lines are ordered among themselves only.
LEMMA BeforePlaces ==
  ASSUME TypeOK, NEW j \in Jobs, NEW k \in Jobs
  PROVE  /\ QueueBefore(j, k) => j \in InQueue /\ k \in InQueue
         /\ ChannelBefore(j, k) => j \in InChannel("Submit") /\ k \in InChannel("Submit")
<1>1. QueueBefore(j, k) => j \in InQueue /\ k \in InQueue
  BY DEF QueueBefore, InQueue
<1>2. ASSUME ChannelBefore(j, k) PROVE j \in InChannel("Submit") /\ k \in InChannel("Submit")
  <2>1. PICK m \in 1..Len(channel), n \in 1..Len(channel) :
          channel[m] = Command("Submit", j) /\ channel[n] = Command("Submit", k)
    BY <1>2 DEF ChannelBefore
  <2>2. /\ channel[m].kind = "Submit" /\ channel[m].job = j
        /\ channel[n].kind = "Submit" /\ channel[n].job = k
    BY <2>1 DEF Command
  <2> QED
    BY <2>2 DEF InChannel
<1> QED
  BY <1>1, <1>2

\* The first submission of the channel is ahead of every other one.
LEMMA HeadFirst ==
  ASSUME TypeOK, Received("Submit"), NEW g \in Jobs, g = Head(channel).job,
         NEW k \in InChannel("Submit"), k # g
  PROVE  ChannelBefore(g, k)
<1>1. channel \in Seq(Commands) /\ channel # <<>> /\ Head(channel).kind = "Submit"
  BY DEF Received, TypeOK
<1>2. \A i \in 1..Len(channel) : channel[i].kind = "Submit" =>
                                   channel[i] = Command("Submit", channel[i].job)
  <2>1. \A i \in 1..Len(channel) : channel[i] \in Commands
    BY <1>1
  <2> QED
    BY <2>1 DEF Command, Commands
<1>3. 1 \in 1..Len(channel) /\ channel[1] = Command("Submit", g)
  BY <1>1, <1>2
<1>4. PICK i \in 1..Len(channel) : channel[i] = Command("Submit", k)
  BY <1>2 DEF InChannel
<1>5. i # 1
  BY <1>3, <1>4 DEF Command
<1> QED
  BY <1>3, <1>4, <1>5 DEF ChannelBefore

\* Jobs leave the line; the others keep their order.
LEMMA RemoveRefines ==
  ASSUME TypeOK, TypeOK', NEW S,
         \A j \in Jobs : /\ j \in InQueue' <=> j \in InQueue \ S
                         /\ j \in InChannel("Submit")' <=> j \in InChannel("Submit") \ S,
         \A j, k \in Jobs \ S : /\ QueueBefore(j, k)' <=> QueueBefore(j, k)
                                /\ ChannelBefore(j, k)' <=> ChannelBefore(j, k)
  PROVE  Lined' = Lined \ S /\ Ahead' = Ahead \cap (Lined' \X Lined')
<1>1. /\ Lined \subseteq Jobs /\ Ahead \subseteq Jobs \X Jobs
      /\ Lined' \subseteq Jobs /\ Ahead' \subseteq Jobs \X Jobs
      /\ \A j, k \in Jobs : <<j, k>> \in Ahead <=> Before(j, k)
      /\ \A j, k \in Jobs : <<j, k>> \in Ahead' <=> Before(j, k)'
  <2>1. PairsOfJobs /\ PairsOfJobs'
    BY AheadPairs, PTL
  <2> QED
    BY <2>1 DEF PairsOfJobs
<1>2. Lined' = Lined \ S
  BY <1>1 DEF Lined
<1>3. \A j, k \in Jobs : Before(j, k)' <=> Before(j, k) /\ j \in Lined' /\ k \in Lined'
  <2> TAKE j, k \in Jobs
  <2>1. CASE j \in Lined' /\ k \in Lined'
    <3>1. j \in Jobs \ S /\ k \in Jobs \ S /\ j \in Lined /\ k \in Lined
      BY <1>2, <2>1
    <3> QED
      BY <2>1, <3>1 DEF Before
  <2>2. CASE ~(j \in Lined' /\ k \in Lined')
    BY <2>2 DEF Before
  <2> QED
    BY <2>1, <2>2
<1>4. Ahead \cap (Lined' \X Lined') \subseteq Jobs \X Jobs
  BY <1>1
<1>5. \A j, k \in Jobs : <<j, k>> \in Ahead' <=> <<j, k>> \in Ahead \cap (Lined' \X Lined')
  BY <1>1, <1>3
<1> QED
  BY <1>1, <1>2, <1>4, <1>5, SamePairs

Answered == {j \in Jobs : slot[j] # "open"}
Closed == shuttingDown \/ dpc = "exited"

\* A step that moves nothing the service shows.
LEMMA ServiceStutter ==
  ASSUME UNCHANGED <<Lined, Ahead, LiveWorkers, Answered>>, Closed' <=> Closed
  PROVE  UNCHANGED Service!serviceVars
  BY DEF Service!serviceVars, Answered, Closed

\* A command that is no submission joins or leaves the channel, or none does.
LEMMA QuietOrder ==
  ASSUME TypeOK, TypeOK', PlacesOnce, UNCHANGED queue,
         \/ UNCHANGED channel
         \/ \E c \in Commands : c.kind # "Submit" /\ channel' = Append(channel, c)
         \/ channel # <<>> /\ Head(channel).kind # "Submit" /\ channel' = Tail(channel)
  PROVE  UNCHANGED <<Lined, Ahead>>
<1>1. InQueue' = InQueue /\ \A j, k \in Jobs : QueueBefore(j, k)' <=> QueueBefore(j, k)
  BY DEF InQueue, QueueBefore
<1>2. /\ InChannel("Submit")' = InChannel("Submit")
      /\ \A j, k \in Jobs : ChannelBefore(j, k)' <=> ChannelBefore(j, k)
  <2>1. CASE UNCHANGED channel
    BY <2>1 DEF InChannel, ChannelBefore, Command
  <2>2. ASSUME NEW c \in Commands, c.kind # "Submit", channel' = Append(channel, c)
        PROVE  /\ InChannel("Submit")' = InChannel("Submit")
               /\ \A j, k \in Jobs : ChannelBefore(j, k)' <=> ChannelBefore(j, k)
    <3>1. InChannel("Submit")' = InChannel("Submit")
      BY <2>2, SendPlaces DEF TypeOK
    <3>2. \A k : c # Command("Submit", k)
      BY <2>2 DEF Command
    <3> QED
      BY <2>2, <3>1, <3>2, SendOrder DEF TypeOK
  <2>3. CASE channel # <<>> /\ Head(channel).kind # "Submit" /\ channel' = Tail(channel)
    <3>1. InChannel("Submit")' = InChannel("Submit")
      BY <2>3, ReceivePlaces DEF TypeOK
    <3>2. \A k : Head(channel) # Command("Submit", k)
      BY <2>3 DEF Command
    <3> QED
      BY <2>3, <3>1, <3>2, ReceiveOrder DEF TypeOK
  <2> QED
    BY <2>1, <2>2, <2>3
<1>3. Lined' = Lined /\ Ahead' = Ahead \cap (Lined' \X Lined')
  <2>1. /\ \A j \in Jobs : /\ j \in InQueue' <=> j \in InQueue \ {}
                           /\ j \in InChannel("Submit")' <=> j \in InChannel("Submit") \ {}
        /\ \A j, k \in Jobs \ {} : /\ QueueBefore(j, k)' <=> QueueBefore(j, k)
                                   /\ ChannelBefore(j, k)' <=> ChannelBefore(j, k)
    BY <1>1, <1>2
  <2> QED
    BY <2>1, RemoveRefines
<1>4. Ahead \subseteq Lined \X Lined
  BY DEF Ahead
<1> QED
  BY <1>3, <1>4

\* Sending a submission is accepting the job, behind all that wait.
LEMMA SendAccepts ==
  ASSUME TypeOK, TypeOK', JInv, NEW j \in Jobs, SubmitSend(j)
  PROVE  Service!Accept(j)
<1>1. /\ pc[j] = "sending" /\ channel' = Append(channel, Command("Submit", j))
      /\ UNCHANGED <<slot, dpc, queue, shuttingDown, worker>>
  BY DEF SubmitSend, dispVars, workVars
<1>2. /\ Command("Submit", j) \in Commands
      /\ Command("Submit", j).kind = "Submit" /\ Command("Submit", j).job = j
      /\ \A k : Command("Submit", j) = Command("Submit", k) <=> k = j
  BY DEF Command, Commands
<1>3. j \notin Lined /\ worker[j] = "none" /\ slot[j] = "open"
  BY <1>1 DEF JInv, JobInv, PlaceInv, Fresh
<1>4. InQueue' = InQueue /\ \A x, k \in Jobs : QueueBefore(x, k)' <=> QueueBefore(x, k)
  BY <1>1 DEF InQueue, QueueBefore
<1>5. InChannel("Submit")' = InChannel("Submit") \cup {j}
  <2> DEFINE c == Command("Submit", j)
  <2>1. \A k : c.kind = k => InChannel(k)' = InChannel(k) \cup {c.job}
    BY <1>1, <1>2, SendPlaces DEF TypeOK
  <2> QED
    BY <1>2, <2>1
<1>6. \A x, k \in Jobs : ChannelBefore(x, k)' <=>
                           ChannelBefore(x, k) \/ (x \in InChannel("Submit") /\ k = j)
  BY <1>1, <1>2, SendOrder DEF TypeOK
<1>7. Lined' = Lined \cup {j}
  BY <1>4, <1>5 DEF Lined
<1>8. PairsOfJobs /\ PairsOfJobs'
  BY AheadPairs, PTL
<1>9. Ahead' = Ahead \cup (Lined \X {j})
  <2>1. ASSUME NEW x \in Jobs, NEW k \in Jobs
        PROVE  Before(x, k)' <=> Before(x, k) \/ (x \in Lined /\ k = j)
    <3>1. /\ QueueBefore(x, k) => x \in InQueue /\ k \in InQueue
          /\ ChannelBefore(x, k) => x \in InChannel("Submit") /\ k \in InChannel("Submit")
      BY BeforePlaces
    <3>2. ASSUME Before(x, k)' PROVE Before(x, k) \/ (x \in Lined /\ k = j)
      BY <1>4, <1>5, <1>6, <1>7, <3>1, <3>2 DEF Before, Lined
    <3>3. ASSUME Before(x, k) \/ (x \in Lined /\ k = j) PROVE Before(x, k)'
      BY <1>4, <1>5, <1>6, <1>7, <3>1, <3>3 DEF Before, Lined
    <3> QED
      BY <3>2, <3>3
  <2>2. Ahead \cup (Lined \X {j}) \subseteq Jobs \X Jobs /\ Ahead' \subseteq Jobs \X Jobs
    BY <1>8 DEF PairsOfJobs
  <2>3. \A x, k \in Jobs : <<x, k>> \in Ahead' <=> <<x, k>> \in Ahead \cup (Lined \X {j})
    BY <1>8, <2>1 DEF PairsOfJobs
  <2> QED
    BY <2>2, <2>3, SamePairs
<1>10. UNCHANGED <<LiveWorkers, Answered>> /\ (Closed' <=> Closed)
  BY <1>1 DEF LiveWorkers, Answered, Closed
<1>11. j \notin Lined \cup LiveWorkers \cup Answered
  BY <1>3 DEF LiveWorkers, Answered
<1> QED
  BY <1>7, <1>9, <1>10, <1>11 DEF Service!Accept, Answered, Closed

\* Receiving a submission moves the job to the end of the queue: nobody sees it.
LEMMA ReceiveKeepsOrder ==
  ASSUME TypeOK, TypeOK', JInv, RecvSubmit
  PROVE  UNCHANGED <<Lined, Ahead>>
<1>1. PICK g \in Jobs : g = Head(channel).job
  BY HeadCommand DEF RecvSubmit
<1>2. /\ channel \in Seq(Commands) /\ channel # <<>> /\ channel' = Tail(channel)
      /\ Head(channel).kind = "Submit" /\ queue \in Seq(Jobs) /\ queue' = Append(queue, g)
  BY <1>1 DEF RecvSubmit, Received, TypeOK
<1>3. PlacesOnce
  BY DEF JInv
<1>4. InChannel("Submit")' = InChannel("Submit") \ {g} /\ g \in InChannel("Submit")
  BY <1>1, <1>2, <1>3, ReceivePlaces
<1>5. g \notin InQueue
  BY <1>4 DEF JInv, JobInv, PlaceInv
<1>6. /\ InQueue' = InQueue \cup {g}
      /\ \A j, k \in Jobs : QueueBefore(j, k)' <=> QueueBefore(j, k) \/ (j \in InQueue /\ k = g)
  BY <1>2, <1>5, QueueJoin
<1>7. \A k \in Jobs : Head(channel) = Command("Submit", k) <=> k = g
  <2>1. Head(channel) \in Commands
    BY <1>2
  <2> QED
    BY <1>1, <1>2, <2>1 DEF Command, Commands
<1>8. \A j, k \in Jobs : /\ ChannelBefore(j, k)' <=> ChannelBefore(j, k) /\ j # g
                         /\ ChannelBefore(j, k) => k # g
  BY <1>2, <1>3, <1>7, ReceiveOrder
<1>9. \A k \in InChannel("Submit") : k # g => ChannelBefore(g, k)
  BY <1>1, HeadFirst DEF RecvSubmit
<1>10. Lined' = Lined
  BY <1>4, <1>6 DEF Lined
<1>11. ASSUME NEW j \in Jobs, NEW k \in Jobs PROVE Before(j, k)' <=> Before(j, k)
  <2>1. /\ QueueBefore(j, k) => j \in InQueue /\ k \in InQueue
        /\ ChannelBefore(j, k) => j \in InChannel("Submit") /\ k \in InChannel("Submit")
    BY BeforePlaces
  <2>2. ASSUME Before(j, k)' PROVE Before(j, k)
    BY <1>4, <1>6, <1>8, <1>9, <1>10, <2>1, <2>2 DEF Before
  <2>3. ASSUME Before(j, k) PROVE Before(j, k)'
    BY <1>4, <1>5, <1>6, <1>8, <1>9, <1>10, <2>1, <2>3 DEF Before
  <2> QED
    BY <2>2, <2>3
<1>12. PairsOfJobs /\ PairsOfJobs'
  BY AheadPairs, PTL
<1> QED
  BY <1>10, <1>11, <1>12, SamePairs DEF PairsOfJobs

\* Answering jobs in line without a worker is refusing them.
LEMMA RefuseRefines ==
  ASSUME TypeOK, TypeOK', NEW S \in SUBSET Jobs, S # {}, S \subseteq Lined,
         NEW result, result # "open",
         slot' = [j \in Jobs |-> IF j \in S THEN result ELSE slot[j]],
         UNCHANGED worker, Closed => Closed',
         \A j \in Jobs : /\ j \in InQueue' <=> j \in InQueue \ S
                         /\ j \in InChannel("Submit")' <=> j \in InChannel("Submit") \ S,
         \A j, k \in Jobs \ S : /\ QueueBefore(j, k)' <=> QueueBefore(j, k)
                                /\ ChannelBefore(j, k)' <=> ChannelBefore(j, k)
  PROVE  Service!ServiceNext
<1>1. Lined' = Lined \ S /\ Ahead' = Ahead \cap (Lined' \X Lined')
  BY RemoveRefines
<1>2. UNCHANGED LiveWorkers /\ Answered' = Answered \cup S
  BY DEF LiveWorkers, Answered
<1>3. Closed' \in {Closed, TRUE}
  BY DEF Closed, TypeOK
<1>4. Service!Refuse(S)
  BY <1>1, <1>2, <1>3 DEF Service!Refuse, Service!Remove, Answered, Closed
<1> QED
  BY <1>4 DEF Service!ServiceNext

LEMMA DispatcherRefines ==
  ASSUME IInv, TypeOK', JInv, Dispatcher
  PROVE  Service!ServiceNext \/ UNCHANGED Service!serviceVars
<1> USE DEF clientVars, ownerVars, wireVars, dispVars, workVars
<1>0. TypeOK /\ PlacesOnce /\ \A j \in Jobs : JobInv(j)
  BY DEF IInv, JInv
<1>1. CASE RecvSubmit
  <2>1. UNCHANGED <<Lined, Ahead>>
    BY <1>0, <1>1, ReceiveKeepsOrder
  <2>2. UNCHANGED <<LiveWorkers, Answered>> /\ (Closed' <=> Closed)
    BY <1>1 DEF RecvSubmit, Received, LiveWorkers, Answered, Closed
  <2> QED
    BY <2>1, <2>2, ServiceStutter
<1>2. CASE RecvLateSubmit
  <2>1. PICK g \in Jobs : g = Head(channel).job
    BY <1>0, <1>2, HeadCommand DEF RecvLateSubmit
  <2>2. /\ channel \in Seq(Commands) /\ channel # <<>> /\ channel' = Tail(channel)
        /\ Head(channel).kind = "Submit"
        /\ slot' = [j \in Jobs |-> IF j \in {g} THEN "Closed" ELSE slot[j]]
        /\ UNCHANGED <<worker, queue, shuttingDown>> /\ dpc = "recv"
    BY <1>0, <1>2, <2>1 DEF RecvLateSubmit, Received, AnswerPending, TypeOK
  <2>3. InChannel("Submit")' = InChannel("Submit") \ {g} /\ g \in InChannel("Submit")
    BY <1>0, <2>1, <2>2, ReceivePlaces
  <2>4. /\ InQueue' = InQueue /\ g \notin InQueue
        /\ \A j, k \in Jobs : QueueBefore(j, k)' <=> QueueBefore(j, k)
    BY <1>0, <2>2, <2>3 DEF InQueue, QueueBefore, JobInv, PlaceInv
  <2>5. \A k \in Jobs : Head(channel) = Command("Submit", k) => k = g
    BY <2>1 DEF Command
  <2>6. \A j, k \in Jobs \ {g} : ChannelBefore(j, k)' <=> ChannelBefore(j, k)
    BY <1>0, <2>2, <2>5, ReceiveOrder
  <2>7. Closed => Closed'
    BY <2>2 DEF Closed
  <2>8. {g} \in SUBSET Jobs /\ {g} # {} /\ {g} \subseteq Lined
    BY <2>3 DEF Lined
  <2>9. /\ \A j \in Jobs : /\ j \in InQueue' <=> j \in InQueue \ {g}
                           /\ j \in InChannel("Submit")' <=> j \in InChannel("Submit") \ {g}
        /\ \A j, k \in Jobs \ {g} : /\ QueueBefore(j, k)' <=> QueueBefore(j, k)
                                    /\ ChannelBefore(j, k)' <=> ChannelBefore(j, k)
    BY <2>3, <2>4, <2>6
  <2> QED
    BY <1>0, <2>2, <2>7, <2>8, <2>9, RefuseRefines
<1>3. CASE RecvCancelQueued
  <2>1. PICK i \in 1..Len(queue) : queue[i] = Head(channel).job /\ queue' = Without(queue, i)
    BY <1>3 DEF RecvCancelQueued
  <2>2. queue \in Seq(Jobs) /\ LeavesFrom(i)
    BY <1>0, <2>1, TakeAt DEF TypeOK
  <2>3. PICK g \in Jobs : g = queue[i]
    BY <2>2
  <2>4. /\ channel \in Seq(Commands) /\ channel # <<>> /\ channel' = Tail(channel)
        /\ Head(channel).kind # "Submit"
        /\ slot' = [j \in Jobs |-> IF j \in {g} THEN "Cancelled" ELSE slot[j]]
        /\ UNCHANGED <<worker, shuttingDown>> /\ dpc = "recv"
    BY <1>0, <1>3, <2>1, <2>3 DEF RecvCancelQueued, Received, AnswerPending, TypeOK
  <2>5. InChannel("Submit")' = InChannel("Submit")
    BY <2>4, ReceivePlaces
  <2>6. \A k \in Jobs : Head(channel) # Command("Submit", k)
    BY <2>4 DEF Command
  <2>7. \A j, k \in Jobs : ChannelBefore(j, k)' <=> ChannelBefore(j, k)
    BY <1>0, <2>4, <2>6, ReceiveOrder
  <2>8. /\ InQueue' = InQueue \ {g} /\ g \in InQueue
        /\ \A j, k \in Jobs : QueueBefore(j, k)' <=> QueueBefore(j, k) /\ j # g /\ k # g
    BY <1>0, <2>2, <2>3, QueueLeave DEF InQueue
  <2>9. g \notin InChannel("Submit")
    BY <1>0, <2>8 DEF JobInv, PlaceInv
  <2>10. Closed => Closed'
    BY <2>4 DEF Closed
  <2>11. {g} \in SUBSET Jobs /\ {g} # {} /\ {g} \subseteq Lined
    BY <2>8 DEF Lined
  <2>12. /\ \A j \in Jobs : /\ j \in InQueue' <=> j \in InQueue \ {g}
                            /\ j \in InChannel("Submit")' <=> j \in InChannel("Submit") \ {g}
         /\ \A j, k \in Jobs \ {g} : /\ QueueBefore(j, k)' <=> QueueBefore(j, k)
                                     /\ ChannelBefore(j, k)' <=> ChannelBefore(j, k)
    BY <2>5, <2>7, <2>8, <2>9
  <2> QED
    BY <1>0, <2>4, <2>10, <2>11, <2>12, RefuseRefines
<1>4. CASE RecvCancelOther \/ RecvFinished \/ JoinWorker \/ FillDone
  <2>1. /\ UNCHANGED <<queue, worker, slot, shuttingDown>> /\ dpc # "exited" /\ dpc' # "exited"
        /\ \/ UNCHANGED channel
           \/ channel # <<>> /\ Head(channel).kind # "Submit" /\ channel' = Tail(channel)
    BY <1>4 DEF RecvCancelOther, RecvFinished, JoinWorker, FillDone, Received
  <2>2. UNCHANGED <<Lined, Ahead>>
    BY <1>0, <2>1, QuietOrder
  <2>3. UNCHANGED <<LiveWorkers, Answered>> /\ (Closed' <=> Closed)
    BY <2>1 DEF LiveWorkers, Answered, Closed
  <2> QED
    BY <2>2, <2>3, ServiceStutter
<1>5. CASE RecvShutdown
  <2>1. /\ channel \in Seq(Commands) /\ channel # <<>> /\ channel' = Tail(channel)
        /\ Head(channel).kind # "Submit" /\ queue' = <<>> /\ shuttingDown'
        /\ slot' = [j \in Jobs |-> IF j \in InQueue THEN "Closed" ELSE slot[j]]
        /\ UNCHANGED worker
    BY <1>0, <1>5 DEF RecvShutdown, Received, AnswerPending, TypeOK
  <2>2. InChannel("Submit")' = InChannel("Submit")
    BY <2>1, ReceivePlaces
  <2>3. \A k \in Jobs : Head(channel) # Command("Submit", k)
    BY <2>1 DEF Command
  <2>4. \A j, k \in Jobs : ChannelBefore(j, k)' <=> ChannelBefore(j, k)
    BY <1>0, <2>1, <2>3, ReceiveOrder
  <2>5. InQueue' = {} /\ \A j, k \in Jobs : ~QueueBefore(j, k)'
    BY <2>1 DEF InQueue, QueueBefore
  <2>6. \A j, k \in Jobs \ InQueue : ~QueueBefore(j, k)
    BY <1>0, BeforePlaces
  <2>7. PICK S \in SUBSET Jobs : S = InQueue
    BY <1>0, LinedJobs
  <2>8. /\ \A j \in Jobs : /\ j \in InQueue' <=> j \in InQueue \ S
                           /\ j \in InChannel("Submit")' <=> j \in InChannel("Submit") \ S
        /\ \A j, k \in Jobs \ S : /\ QueueBefore(j, k)' <=> QueueBefore(j, k)
                                  /\ ChannelBefore(j, k)' <=> ChannelBefore(j, k)
    BY <1>0, <2>2, <2>4, <2>5, <2>6, <2>7 DEF JobInv, PlaceInv
  <2>9. Closed'
    BY <2>1 DEF Closed
  <2>10. S \subseteq Lined
    BY <2>7 DEF Lined
  <2>11. CASE S # {}
    BY <1>0, <2>1, <2>7, <2>8, <2>9, <2>10, <2>11, RefuseRefines
  <2>12. CASE S = {}
    <3>1. Lined' = Lined \ S /\ Ahead' = Ahead \cap (Lined' \X Lined')
      BY <1>0, <2>8, RemoveRefines
    <3>2. Ahead \subseteq Lined \X Lined
      BY DEF Ahead
    <3>3. UNCHANGED <<Lined, Ahead>>
      BY <2>12, <3>1, <3>2
    <3>4. UNCHANGED <<LiveWorkers, Answered>>
      BY <1>0, <2>1, <2>7, <2>12 DEF LiveWorkers, Answered
    <3>5. CASE Closed
      BY <2>9, <3>3, <3>4, <3>5, ServiceStutter
    <3>6. CASE ~Closed
      <4>1. Service!Close
        BY <2>9, <3>3, <3>4, <3>6 DEF Service!Close, Closed, Answered
      <4> QED
        BY <4>1 DEF Service!ServiceNext
    <3> QED
      BY <3>5, <3>6
  <2> QED
    BY <2>11, <2>12
<1>6. CASE RecvNone \/ DispatcherExit
  <2>1. dpc' = "exited" /\ queue' = <<>> /\ channel' = <<>> /\ UNCHANGED worker
    BY <1>6 DEF RecvNone, DispatcherExit, DropReceiver
  <2>2. slot' = [j \in Jobs |-> IF j \in Lined THEN "lost" ELSE slot[j]]
    <3>1. CASE RecvNone
      <4>1. Lined = InQueue
        BY <3>1 DEF RecvNone, InChannel, Lined
      <4> QED
        BY <3>1, <4>1 DEF RecvNone, DropReceiver
    <3>2. CASE DispatcherExit
      <4>1. InChannel("Submit") \cup InQueue = Lined
        BY DEF Lined
      <4> QED
        BY <3>2, <4>1 DEF DispatcherExit, DropReceiver
    <3> QED
      BY <1>6, <3>1, <3>2
  <2>3. PICK S \in SUBSET Jobs : S = Lined
    BY <1>0, LinedJobs DEF Lined
  <2>4. /\ InQueue' = {} /\ InChannel("Submit")' = {}
        /\ \A j, k \in Jobs : ~QueueBefore(j, k)' /\ ~ChannelBefore(j, k)'
    BY <2>1 DEF InQueue, InChannel, QueueBefore, ChannelBefore
  <2>5. \A j, k \in Jobs \ S : ~QueueBefore(j, k) /\ ~ChannelBefore(j, k)
    BY <1>0, <2>3, BeforePlaces DEF Lined
  <2>6. /\ \A j \in Jobs : /\ j \in InQueue' <=> j \in InQueue \ S
                           /\ j \in InChannel("Submit")' <=> j \in InChannel("Submit") \ S
        /\ \A j, k \in Jobs \ S : /\ QueueBefore(j, k)' <=> QueueBefore(j, k)
                                  /\ ChannelBefore(j, k)' <=> ChannelBefore(j, k)
    BY <2>3, <2>4, <2>5 DEF Lined
  <2>7. Closed'
    BY <2>1 DEF Closed
  <2>8. CASE S # {}
    BY <1>0, <2>1, <2>2, <2>3, <2>6, <2>7, <2>8, RefuseRefines
  <2>9. CASE S = {}
    <3>1. Lined' = Lined \ S /\ Ahead' = Ahead \cap (Lined' \X Lined')
      BY <1>0, <2>6, RemoveRefines
    <3>2. Ahead \subseteq Lined \X Lined
      BY DEF Ahead
    <3>3. UNCHANGED <<Lined, Ahead>>
      BY <2>9, <3>1, <3>2
    <3>4. UNCHANGED <<LiveWorkers, Answered>>
      BY <1>0, <2>1, <2>2, <2>3, <2>9 DEF LiveWorkers, Answered
    <3>5. CASE Closed
      BY <2>7, <3>3, <3>4, <3>5, ServiceStutter
    <3>6. CASE ~Closed
      <4>1. Service!Close
        BY <2>7, <3>3, <3>4, <3>6 DEF Service!Close, Closed, Answered
      <4> QED
        BY <4>1 DEF Service!ServiceNext
    <3> QED
      BY <3>5, <3>6
  <2> QED
    BY <2>8, <2>9
<1>7. CASE FillRefuse \/ FillStart
  <2>0. PICK q \in Jobs : q = Head(queue)
    BY <1>0, <1>7, TakeHead DEF FillRefuse, FillStart, CanFill, TypeOK
  <2>1. /\ queue \in Seq(Jobs) /\ queue # <<>> /\ queue' = Tail(queue)
        /\ UNCHANGED <<channel, shuttingDown>>
        /\ dpc = "fill" /\ dpc' = "fill" /\ ~shuttingDown /\ Cardinality(active) < JobLimit
    BY <1>0, <1>7 DEF FillRefuse, FillStart, CanFill, TypeOK
  <2>2. 1 \in 1..Len(queue) /\ q = queue[1] /\ q \in InQueue /\ LeavesFrom(1)
    BY <2>0, <2>1, TakeHead
  <2>3. /\ InQueue' = InQueue \ {q}
        /\ \A j, k \in Jobs : QueueBefore(j, k)' <=> QueueBefore(j, k) /\ j # q /\ k # q
    BY <1>0, <2>1, <2>2, QueueLeave
  <2>4. /\ InChannel("Submit")' = InChannel("Submit") /\ q \notin InChannel("Submit")
        /\ \A j, k \in Jobs : ChannelBefore(j, k)' <=> ChannelBefore(j, k)
    BY <1>0, <2>1, <2>2 DEF InChannel, ChannelBefore, Command, JobInv, PlaceInv
  <2>5. {q} \in SUBSET Jobs /\ {q} # {} /\ {q} \subseteq Lined
    BY <2>2 DEF Lined
  <2>6. /\ \A j \in Jobs : /\ j \in InQueue' <=> j \in InQueue \ {q}
                           /\ j \in InChannel("Submit")' <=> j \in InChannel("Submit") \ {q}
        /\ \A j, k \in Jobs \ {q} : /\ QueueBefore(j, k)' <=> QueueBefore(j, k)
                                    /\ ChannelBefore(j, k)' <=> ChannelBefore(j, k)
    BY <2>3, <2>4
  <2>7. ~Closed /\ ~Closed'
    BY <2>1 DEF Closed
  <2>8. CASE FillRefuse
    <3>1. PICK r \in {"Closed", "Cancelled", "Setup"} : AnswerPending({q}, r)
      BY <2>0, <2>8 DEF FillRefuse
    <3>2. slot' = [j \in Jobs |-> IF j \in {q} THEN r ELSE slot[j]] /\ UNCHANGED worker
      BY <2>8, <3>1 DEF FillRefuse, AnswerPending
    <3> QED
      BY <1>0, <2>5, <2>6, <2>7, <3>2, RefuseRefines
  <2>9. CASE FillStart
    <3>1. worker' = [worker EXCEPT ![q] = "created"] /\ UNCHANGED slot
      BY <2>0, <2>9 DEF FillStart
    <3>2. Lined' = Lined \ {q} /\ Ahead' = Ahead \cap (Lined' \X Lined')
      BY <1>0, <2>6, RemoveRefines
    <3>3. LiveWorkers' = LiveWorkers \cup {q} /\ UNCHANGED Answered
      BY <1>0, <3>1 DEF LiveWorkers, Answered, TypeOK
    <3>4. Cardinality(LiveWorkers) < JobLimit
      <4>1. LiveWorkers \subseteq active
        BY <2>1 DEF IInv, LiveTracked, Tracked
      <4>2. IsFiniteSet(active) /\ Cardinality(active) \in Nat
        BY TrackedFinite
      <4>3. Cardinality(LiveWorkers) <= Cardinality(active) /\ Cardinality(LiveWorkers) \in Nat
        BY <4>1, <4>2, FS_Subset, FS_CardinalityType
      <4> QED
        BY <2>1, <4>2, <4>3, LimitAssumption
    <3>5. ASSUME NEW k \in Lined PROVE <<k, q>> \notin Ahead
      <4>1. k \in Jobs /\ PairsOfJobs
        BY <1>0, <3>5, AheadPairs DEF PairsOfJobs
      <4>2. ~QueueBefore(k, q)
        <5> SUFFICES ASSUME NEW m \in 1..Len(queue), NEW n \in 1..Len(queue),
                            m < n, queue[n] = q
                     PROVE  FALSE
          BY DEF QueueBefore
        <5>1. n = 1
          BY <1>0, <2>2 DEF PlacesOnce
        <5> QED
          BY <5>1
      <4>3. ~ChannelBefore(k, q)
        BY <1>0, <2>4, <4>1, BeforePlaces
      <4> QED
        BY <2>4, <4>1, <4>2, <4>3 DEF PairsOfJobs, Before
    <3>6. Service!Start(q)
      <4>1. q \in Lined /\ (Closed' <=> Closed)
        BY <2>5, <2>7
      <4>2. Service!Remove({q})
        BY <3>2 DEF Service!Remove
      <4>3. /\ ~(shuttingDown \/ dpc = "exited")
            /\ UNCHANGED <<{j \in Jobs : slot[j] # "open"}, shuttingDown \/ dpc = "exited">>
        BY <2>7, <3>3, <4>1 DEF Closed, Answered
      <4>4. Service!Cardinality(LiveWorkers) = Cardinality(LiveWorkers)
        BY DEF Service!Cardinality, Cardinality
      <4>5. Service!Cardinality(LiveWorkers) < JobLimit
        BY <3>4, <4>4
      <4> QED
        BY <3>3, <3>5, <4>1, <4>2, <4>3, <4>5, Zenon DEF Service!Start
    <3> QED
      BY <3>6 DEF Service!ServiceNext
  <2> QED
    BY <1>7, <2>8, <2>9
<1> QED
  BY <1>1, <1>2, <1>3, <1>4, <1>5, <1>6, <1>7 DEF Dispatcher

\* A worker's result is its answer, its return the end of the run.
LEMMA WorkerRefines ==
  ASSUME TypeOK, TypeOK', JInv, NEW j \in Jobs, Worker(j)
  PROVE  Service!ServiceNext \/ UNCHANGED Service!serviceVars
<1> USE DEF clientVars, ownerVars, dispVars
<1>0. PlacesOnce /\ JobInv(j)
  BY DEF JInv
<1>1. /\ UNCHANGED <<queue, dpc, shuttingDown>>
      /\ UNCHANGED channel \/ channel' = Append(channel, Command("Finished", j))
      /\ worker[j] \notin {"none", "exited"}
  BY DEF Worker, WorkerBegin, WorkerPrepare, WorkerRun, WorkerNotify, WorkerExit
<1>2. Command("Finished", j) \in Commands /\ Command("Finished", j).kind # "Submit"
  BY DEF Command, Commands
<1>3. UNCHANGED <<Lined, Ahead>> /\ (Closed' <=> Closed)
  BY <1>0, <1>1, <1>2, QuietOrder DEF Closed
<1>4. ASSUME NEW r, NEW e, j \in Answering, WorkerResult(j, r, e), r \in WorkerResults
      PROVE  Service!ServiceNext
  <2>1. worker' = [worker EXCEPT ![j] = "notify"] /\ slot' = [slot EXCEPT ![j] = r] /\ r # "open"
    BY <1>4 DEF WorkerResult, WorkerResults
  <2>2. j \in LiveWorkers \ Answered /\ LiveWorkers' = LiveWorkers
        /\ Answered' = Answered \cup {j}
    <3>1. /\ worker[j] \in {"created", "prepared", "running"} /\ slot[j] = "open"
          /\ worker'[j] = "notify" /\ slot'[j] = r
          /\ \A k \in Jobs \ {j} : worker'[k] = worker[k] /\ slot'[k] = slot[k]
      BY <1>0, <1>4, <2>1 DEF Answering, JobInv, PlaceInv, TypeOK
    <3> QED
      BY <2>1, <3>1 DEF LiveWorkers, Answered
  <2>3. Service!Answer(j)
    BY <1>3, <2>2 DEF Service!Answer, Answered, Closed
  <2> QED
    BY <2>3 DEF Service!ServiceNext
<1>5. CASE UNCHANGED slot /\ worker'[j] \notin {"none", "exited"}
           /\ \A k \in Jobs \ {j} : worker'[k] = worker[k]
  <2>1. UNCHANGED <<LiveWorkers, Answered>>
    BY <1>1, <1>5 DEF LiveWorkers, Answered
  <2> QED
    BY <1>3, <2>1, ServiceStutter
<1>6. CASE WorkerBegin(j) \/ WorkerPrepare(j) \/ WorkerRun(j)
  <2>1. j \in Answering
    BY <1>6 DEF WorkerBegin, WorkerPrepare, WorkerRun, Answering
  <2>2. \/ \E r \in WorkerResults : \E e : WorkerResult(j, r, e)
        \/ \E w \in {"prepared", "running"} : worker' = [worker EXCEPT ![j] = w] /\ UNCHANGED slot
    <3>1. CASE WorkerBegin(j)
      BY <3>1 DEF WorkerBegin, WorkerResults
    <3>2. CASE WorkerPrepare(j)
      BY <3>2 DEF WorkerPrepare, WorkerResults
    <3>3. CASE WorkerRun(j)
      BY <3>3 DEF WorkerRun, WorkerResults
    <3> QED
      BY <1>6, <3>1, <3>2, <3>3
  <2>3. CASE \E w \in {"prepared", "running"} : worker' = [worker EXCEPT ![j] = w] /\ UNCHANGED slot
    BY <1>5, <2>3 DEF TypeOK
  <2> QED
    BY <1>4, <2>1, <2>2, <2>3
<1>7. CASE WorkerNotify(j)
  BY <1>5, <1>7 DEF WorkerNotify, TypeOK
<1>8. CASE WorkerExit(j)
  <2>1. worker' = [worker EXCEPT ![j] = "exited"] /\ UNCHANGED slot /\ worker[j] = "dropping"
    BY <1>8 DEF WorkerExit
  <2>2. slot[j] # "open"
    BY <1>0, <2>1 DEF JobInv, PlaceInv, WorkerResults
  <2>3. /\ j \in LiveWorkers \cap Answered /\ LiveWorkers' = LiveWorkers \ {j}
        /\ UNCHANGED Answered
    BY <2>1, <2>2 DEF LiveWorkers, Answered, TypeOK
  <2>4. Service!End(j)
    BY <1>3, <2>3 DEF Service!End, Answered, Closed
  <2> QED
    BY <2>4 DEF Service!ServiceNext
<1> QED
  BY <1>6, <1>7, <1>8 DEF Worker

LEMMA ServiceStep ==
  IInv /\ TypeOK' /\ JInv /\ [Next]_vars => [Service!ServiceNext]_(Service!serviceVars)
<1> SUFFICES ASSUME IInv, TypeOK', JInv, [Next]_vars
             PROVE  Service!ServiceNext \/ UNCHANGED Service!serviceVars
  OBVIOUS
<1>0. TypeOK /\ PlacesOnce
  BY DEF IInv, JInv
<1>1. ASSUME NEW j \in Jobs, Client(j) \/ Choice(j)
      PROVE  Service!ServiceNext \/ UNCHANGED Service!serviceVars
  <2>1. CASE SubmitSend(j)
    BY <1>0, <2>1, SendAccepts DEF Service!ServiceNext
  <2>2. CASE ~SubmitSend(j)
    <3>1. /\ UNCHANGED <<queue, dpc, shuttingDown, slot, worker>>
          /\ UNCHANGED channel \/ channel' = Append(channel, Command("Cancel", j))
      BY <1>1, <2>2, Zenon DEF Client, Choice, SubmitCall, SubmitAcquire, SubmitClosed, WaitResult,
         AbandonWait, CancelCall, DropHandle, PublishOutput, DiscardOutput, wireVars, dispVars,
         workVars
    <3>2. Command("Cancel", j) \in Commands /\ Command("Cancel", j).kind # "Submit"
      BY DEF Command, Commands
    <3>3. UNCHANGED <<Lined, Ahead>>
      BY <1>0, <3>1, <3>2, QuietOrder
    <3>4. UNCHANGED <<LiveWorkers, Answered>> /\ (Closed' <=> Closed)
      BY <3>1 DEF LiveWorkers, Answered, Closed
    <3> QED
      BY <3>3, <3>4, ServiceStutter
  <2> QED
    BY <2>1, <2>2
<1>2. ASSUME NEW j \in Jobs, Worker(j)
      PROVE  Service!ServiceNext \/ UNCHANGED Service!serviceVars
  BY <1>0, <1>2, WorkerRefines
<1>3. CASE Dispatcher
  BY <1>3, DispatcherRefines
<1>4. CASE Owner \/ ShutdownCall \/ DropExecutor \/ (\E t \in Tokens : CancelToken(t)) \/ UNCHANGED vars
  <2>1. /\ UNCHANGED <<queue, dpc, shuttingDown, slot, worker>>
        /\ UNCHANGED channel \/ channel' = Append(channel, Command("Shutdown", NoJob))
    BY <1>4 DEF Owner, ShutdownSend, ShutdownReturn, ShutdownCall, DropExecutor, CancelToken, vars,
       clientVars, ownerVars, wireVars, dispVars, workVars
  <2>2. Command("Shutdown", NoJob) \in Commands /\ Command("Shutdown", NoJob).kind # "Submit"
    BY DEF Command, Commands
  <2>3. UNCHANGED <<Lined, Ahead>>
    BY <1>0, <2>1, <2>2, QuietOrder
  <2>4. UNCHANGED <<LiveWorkers, Answered>> /\ (Closed' <=> Closed)
    BY <2>1 DEF LiveWorkers, Answered, Closed
  <2> QED
    BY <2>3, <2>4, ServiceStutter
<1> QED
  BY <1>1, <1>2, <1>3, <1>4 DEF Next

LEMMA ServiceStart == Init => Service!ServiceInit
<1> SUFFICES ASSUME Init PROVE Service!ServiceInit
  OBVIOUS
<1>1. InQueue = {} /\ InChannel("Submit") = {}
  BY DEF Init, InQueue, InChannel
<1>2. Lined = {} /\ LiveWorkers = {} /\ {j \in Jobs : slot[j] # "open"} = {}
  BY <1>1 DEF Init, Lined, LiveWorkers
<1>3. Ahead = {}
  BY <1>2 DEF Ahead
<1>4. (shuttingDown \/ dpc = "exited") = FALSE
  BY DEF Init
<1> QED
  BY <1>2, <1>3, <1>4 DEF Service!ServiceInit

\* The executor - its channel, dispatcher, workers and permits - implements the
\* abstract service: jobs start in the order of their submission, no more than
\* jobs at a time and none after shutdown, and each is answered once.
THEOREM ExecutorImplementsService == Spec => ImplementsBuildService
  BY InvInit, InvStep, TypeInit, TypeStep, JobsInit, JobsStep, ServiceStart, ServiceStep, PTL
     DEF Spec, ImplementsBuildService, Service!ServiceSpec
=============================================================================
