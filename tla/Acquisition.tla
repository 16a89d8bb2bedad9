---------------------------- MODULE Acquisition -----------------------------
(***************************************************************************)
(* Acquisition of content from the network and the local disk (crate       *)
(* bobr-source: network.rs, local_io.rs, acquisition/engine.rs).           *)
(*                                                                         *)
(* A task is one Source that has to be materialized, or one repository     *)
(* request.  All of them share the permits of the run: a semaphore per     *)
(* host, one for all connections and one for local I/O.  An HTTP Source    *)
(* walks its mirror list twice; a request is repeated while its failures   *)
(* are transient; a registry pull keeps its permits from end to end.       *)
(*                                                                         *)
(* Cancellation is a token that is polled and a watch channel that wakes   *)
(* waiters.  Only NetworkScheduler::cancel writes the channel: a signal    *)
(* handler sets the token alone and the run's monitor passes it on.        *)
(***************************************************************************)
EXTENDS Integers, Sequences, FiniteSets

CONSTANTS
  Tasks,
  Batches,          \* the sets of tasks a run may ask for
  Origin,           \* per task: "Http", "OciRegistry", "Path" or "Repository"
  Urls,             \* per task, the URLs it may use, in order
  Hosts, HostOf,    \* per URL, its host
  PerHost,          \* per host, its configured limit
  MaxConnections, MaxLocalJobs,
  Attempts,         \* retry budget of one URL
  Answers,          \* per URL, how an attempt may end
  UnlinkFails,      \* tasks whose temporary files may resist removal
  Signals,          \* whether the run may be cancelled from outside
  Hanging           \* URLs that may never answer

AnswerKinds == {"ok", "transient", "fatal"}
Mirrors(t) == DOMAIN Urls[t]
AtLeastOne(n) == IF n = 0 THEN 1 ELSE n
for_host(h) == AtLeastOne(PerHost[h])
Connections == AtLeastOne(MaxConnections)

ASSUME LimitsAssumption ==
  /\ PerHost \in [Hosts -> Nat] /\ MaxConnections \in Nat
  /\ MaxLocalJobs \in Nat \ {0} /\ Attempts \in Nat \ {0}
ASSUME TasksAssumption ==
  IsFiniteSet(Tasks) /\ Batches \subseteq SUBSET Tasks
ASSUME OriginsAssumption ==
  \A t \in Tasks :
    /\ Origin[t] \in {"Http", "OciRegistry", "Path", "Repository"}
    /\ Urls[t] \in Seq(DOMAIN HostOf)
    /\ (Urls[t] = <<>>) <=> (Origin[t] = "Path")
    /\ Origin[t] # "Http" => Len(Urls[t]) <= 1
    /\ \A i \in Mirrors(t) : HostOf[Urls[t][i]] \in Hosts /\ Answers[Urls[t][i]] \subseteq AnswerKinds

VARIABLES
  token, signalled,    \* the cancellation token and the watch channel
  hostFree, connFree, localFree,  \* free permits of the semaphores
  pc,        \* per task, where it is
  pass, url, \* per task, its place in the mirror walk
  index,     \* per task, attempt within one call of run_attempts
  spent,     \* per task and URL, attempts recorded (UrlAttemptState.attempts)
  worth,     \* per task and URL, UrlAttemptState.worth_retrying
  blob,      \* per task, the temporary file it downloads to
  outcome,   \* per task, how it ends
  event,     \* per task, the last event it emitted
  started    \* per task and URL, Started events so far

permits == <<hostFree, connFree, localFree>>
walk == <<pass, url, index, spent, worth>>
vars == <<token, signalled, permits, pc, walk, blob, outcome, event, started>>

Outcomes == {"none", "ok", "mismatched", "failed", "cancelled"}
Waiting == {"host", "global", "transfer", "backoff", "resume"}
Places == Waiting \cup {"idle", "start", "walk", "finalize", "copyWait", "copy", "importWait", "import", "settle", "remove", "done"}
Kinds == {"none", "Started", "Retry", "Finished", "Failed", "Cancelled"}
None == [kind |-> "none", url |-> 0, attempt |-> 0]

Init ==
  /\ token = FALSE /\ signalled = FALSE
  /\ hostFree = [h \in Hosts |-> for_host(h)]
  /\ connFree = Connections /\ localFree = MaxLocalJobs
  /\ \E B \in Batches : pc = [t \in Tasks |-> IF t \in B THEN "start" ELSE "idle"]
  /\ pass = [t \in Tasks |-> 1] /\ url = [t \in Tasks |-> 1] /\ index = [t \in Tasks |-> 1]
  /\ spent = [t \in Tasks |-> [i \in Mirrors(t) |-> 0]]
  /\ worth = [t \in Tasks |-> [i \in Mirrors(t) |-> FALSE]]
  /\ blob = [t \in Tasks |-> "none"]
  /\ outcome = [t \in Tasks |-> "none"]
  /\ event = [t \in Tasks |-> None]
  /\ started = [t \in Tasks |-> [i \in Mirrors(t) |-> 0]]

Host(t) == HostOf[Urls[t][url[t]]]
Goto(t, p) == pc' = [pc EXCEPT ![t] = p]
Emit(t, k, n) == event' = [event EXCEPT ![t] = [kind |-> k, url |-> url[t], attempt |-> n]]

\* What an attempt to remove t's temporary file may leave.
Removed(t) == {"none"} \cup IF t \in UnlinkFails THEN {blob[t]} ELSE {}

\* Attempts one call of run_attempts is allowed, and those made before it.
AttemptsHere(t) ==
  IF Origin[t] = "Repository" THEN Attempts ELSE IF pass[t] = 1 THEN 1 ELSE Attempts - 1
SpentBefore(t) == IF pass[t] = 2 THEN spent[t][url[t]] ELSE 0
AttemptNumber(t) == SpentBefore(t) + index[t]

-----------------------------------------------------------------------------
(* run_attempts returns an error after n attempts.  A mirror walk records  *)
(* it and goes on to the next URL, a repository request is over, a pull    *)
(* hands it to its Source.                                                 *)
\* The bug of forgetting the attempts of a pass.
RecordKeeping(t, error, n) ==
  worth' = [worth EXCEPT ![t][url[t]] = (error = "transient")] /\ UNCHANGED spent

Record(t, error, n) ==
  /\ spent' = [spent EXCEPT ![t][url[t]] = @ + n]
  /\ worth' = [worth EXCEPT ![t][url[t]] = (error = "transient")]

WalkOn(t, error, n) ==
  /\ Origin[t] = "Http"
  /\ Record(t, error, n)
  /\ \E b \in Removed(t) : blob' = [blob EXCEPT ![t] = b]
  /\ url' = [url EXCEPT ![t] = @ + 1]
  /\ index' = [index EXCEPT ![t] = 1]
  /\ Goto(t, "walk")
  /\ UNCHANGED <<pass, outcome>>

\* The error is settled, then the partial file is removed (RemovePartial).
FetchFailed(t, error) ==
  /\ Origin[t] = "Repository"
  /\ outcome' = [outcome EXCEPT ![t] = IF error = "cancelled" THEN "cancelled" ELSE "failed"]
  /\ Goto(t, "remove")
  /\ UNCHANGED <<walk, blob>>

PullFailed(t) ==
  /\ Origin[t] = "OciRegistry"
  /\ \E b \in Removed(t) : blob' = [blob EXCEPT ![t] = b]
  /\ Goto(t, "settle")
  /\ UNCHANGED <<walk, outcome>>

ReturnError(t, error, n) == WalkOn(t, error, n) \/ FetchFailed(t, error) \/ PullFailed(t)

\* An attempt, or the wait for one, that ends because the run is cancelled.
EmitCancelled(t) ==
  IF Origin[t] = "OciRegistry" THEN UNCHANGED event ELSE Emit(t, "Cancelled", 0)
ReturnCancelled(t, n) == ReturnError(t, "cancelled", n) /\ EmitCancelled(t)

-----------------------------------------------------------------------------
(* NetworkScheduler: the host's permit first, then a connection.           *)
Acquire(t) ==
  \/ token /\ ReturnCancelled(t, index[t] - 1)
  \/ ~token /\ Goto(t, "host") /\ UNCHANGED <<walk, blob, outcome, event>>

\* The bug of a limit that is only counted, not waited for.
TakeHostUnlimited(t) ==
  /\ pc[t] = "host" /\ ~token
  /\ hostFree' = [hostFree EXCEPT ![Host(t)] = @ - 1]
  /\ Goto(t, "global")
  /\ UNCHANGED <<token, signalled, connFree, localFree, walk, blob, outcome, event, started>>

TakeHost(t) ==
  /\ pc[t] = "host" /\ hostFree[Host(t)] > 0
  /\ \/ /\ token
        /\ ReturnCancelled(t, index[t] - 1)
        /\ UNCHANGED hostFree
     \/ /\ ~token
        /\ hostFree' = [hostFree EXCEPT ![Host(t)] = @ - 1]
        /\ Goto(t, "global")
        /\ UNCHANGED <<walk, blob, outcome, event>>
  /\ UNCHANGED <<token, signalled, connFree, localFree, started>>

ReleaseHost(t) == hostFree' = [hostFree EXCEPT ![Host(t)] = @ + 1]
ReleaseConnection == connFree' = connFree + 1

StartAttempt(t) ==
  /\ Goto(t, "transfer")
  /\ IF Origin[t] = "OciRegistry" THEN UNCHANGED event ELSE Emit(t, "Started", AttemptNumber(t))
  /\ started' = [started EXCEPT ![t][url[t]] = @ + 1]

\* The bug of not looking at the token again once the permits are there.
TakeConnectionUnchecked(t) ==
  /\ pc[t] = "global" /\ connFree > 0
  /\ connFree' = connFree - 1
  /\ StartAttempt(t)
  /\ UNCHANGED <<token, signalled, localFree, hostFree, walk, blob, outcome>>

TakeConnection(t) ==
  /\ pc[t] = "global" /\ connFree > 0
  /\ \/ /\ token
        /\ ReturnCancelled(t, index[t] - 1)
        /\ ReleaseHost(t)
        /\ UNCHANGED <<connFree, started>>
     \/ /\ ~token
        /\ connFree' = connFree - 1
        /\ StartAttempt(t)
        /\ UNCHANGED <<hostFree, walk, blob, outcome>>
  /\ UNCHANGED <<token, signalled, localFree>>

\* The watch channel wakes whoever waits.
WakeHostWaiter(t) ==
  /\ pc[t] = "host" /\ signalled
  /\ ReturnCancelled(t, index[t] - 1)
  /\ UNCHANGED <<token, signalled, permits, started>>

\* The bug of a host permit that outlives a cancelled wait for a connection.
WakeConnectionWaiterLeaking(t) ==
  /\ pc[t] = "global" /\ signalled
  /\ ReturnCancelled(t, index[t] - 1)
  /\ UNCHANGED <<token, signalled, permits, started>>

WakeConnectionWaiter(t) ==
  /\ pc[t] = "global" /\ signalled
  /\ ReturnCancelled(t, index[t] - 1)
  /\ ReleaseHost(t)
  /\ UNCHANGED <<token, signalled, connFree, localFree, started>>

AbortTransfer(t) ==
  /\ pc[t] = "transfer" /\ signalled
  /\ ReleaseHost(t) /\ ReleaseConnection
  /\ ReturnCancelled(t, index[t])
  /\ UNCHANGED <<token, signalled, localFree, started>>

WakeBackoff(t) ==
  /\ pc[t] = "backoff" /\ signalled
  /\ ReturnCancelled(t, index[t])
  /\ UNCHANGED <<token, signalled, permits, started>>

-----------------------------------------------------------------------------
(* One attempt.  The response's status may end it before the file is       *)
(* created; a success has written all of it.  The permits go before        *)
(* anything else is decided.                                               *)
CreateFile(t) ==
  /\ pc[t] = "transfer" /\ blob[t] # "partial"
  /\ blob' = [blob EXCEPT ![t] = "partial"]
  /\ UNCHANGED <<token, signalled, permits, pc, walk, outcome, event, started>>

AttemptDone(t) ==
  /\ blob[t] = "partial"
  /\ blob' = [blob EXCEPT ![t] = "whole"]
  /\ IF Origin[t] = "OciRegistry" THEN UNCHANGED event ELSE Emit(t, "Finished", AttemptNumber(t))
  /\ outcome' = [outcome EXCEPT ![t] = IF Origin[t] = "Repository" THEN "ok" ELSE "none"]
  /\ Goto(t, CASE Origin[t] = "Http" -> "finalize"
               [] Origin[t] = "OciRegistry" -> "importWait"
               [] Origin[t] = "Repository" -> "done")
  /\ UNCHANGED walk

RetryLater(t) ==
  /\ Goto(t, "backoff")
  /\ Emit(t, "Retry", AttemptNumber(t) + 1)
  /\ UNCHANGED <<walk, blob, outcome>>

GiveUp(t, error) ==
  /\ ReturnError(t, error, index[t])
  /\ IF Origin[t] = "OciRegistry" THEN UNCHANGED event ELSE Emit(t, "Failed", AttemptNumber(t))

CanRetry(t, error) ==
  error = "transient" /\ Origin[t] # "OciRegistry" /\ index[t] < AttemptsHere(t)

AttemptFailed(t, error) ==
  \/ token /\ ReturnCancelled(t, index[t])
  \/ ~token /\ CanRetry(t, error) /\ RetryLater(t)
  \/ ~token /\ ~CanRetry(t, error) /\ GiveUp(t, error)

EndAttempt(t) ==
  /\ pc[t] = "transfer"
  /\ ReleaseHost(t) /\ ReleaseConnection
  /\ \E a \in Answers[Urls[t][url[t]]] :
       IF a = "ok" THEN AttemptDone(t) ELSE AttemptFailed(t, a)
  /\ UNCHANGED <<token, signalled, localFree, started>>

BackoffElapses(t) ==
  /\ pc[t] = "backoff"
  /\ \/ /\ token
        /\ ReturnCancelled(t, index[t])
     \/ /\ ~token
        /\ index' = [index EXCEPT ![t] = @ + 1]
        /\ Goto(t, "host")
        /\ UNCHANGED <<pass, url, spent, worth, blob, outcome, event>>
  /\ UNCHANGED <<token, signalled, permits, started>>

-----------------------------------------------------------------------------
(* A Source or a request begins; a Path needs no connection.               *)
Begin(t) ==
  /\ pc[t] = "start"
  /\ \/ /\ Origin[t] = "Repository"
        /\ Acquire(t)
     \/ /\ Origin[t] # "Repository" /\ token
        /\ Goto(t, "settle")
        /\ UNCHANGED <<walk, blob, outcome, event>>
     \/ /\ Origin[t] # "Repository" /\ ~token
        /\ Goto(t, CASE Origin[t] = "Http" -> "walk"
                     [] Origin[t] = "OciRegistry" -> "host"
                     [] Origin[t] = "Path" -> "copyWait")
        /\ UNCHANGED <<walk, blob, outcome, event>>
  /\ UNCHANGED <<token, signalled, permits, started>>

(* download_first_success: every mirror once, then the rest of the budget  *)
(* on those whose failure was transient, after the usual pause.            *)
PassOver(t) == pass[t] = 1 /\ url[t] > Len(Urls[t])
WorthRetrying(t) ==
  {i \in Mirrors(t) : i >= url[t] /\ worth[t][i] /\ Attempts > 1}

FirstPass(t) ==
  /\ pc[t] = "walk" /\ pass[t] = 1 /\ ~PassOver(t)
  /\ Goto(t, IF token THEN "settle" ELSE "host")
  /\ UNCHANGED <<token, signalled, permits, walk, blob, outcome, event, started>>

TurnAround(t) ==
  /\ pc[t] = "walk" /\ PassOver(t)
  /\ pass' = [pass EXCEPT ![t] = 2]
  /\ url' = [url EXCEPT ![t] = 1]
  /\ UNCHANGED <<token, signalled, permits, pc, index, spent, worth, blob, outcome, event, started>>

SecondPass(t) ==
  /\ pc[t] = "walk" /\ pass[t] = 2
  /\ \/ /\ WorthRetrying(t) = {} \/ token
        /\ Goto(t, "settle")
        /\ UNCHANGED <<url, event>>
     \/ /\ ~token
        /\ \E i \in WorthRetrying(t) :
             /\ \A j \in WorthRetrying(t) : i <= j
             /\ url' = [url EXCEPT ![t] = i]
             /\ event' = [event EXCEPT ![t] = [kind |-> "Retry", url |-> i, attempt |-> spent[t][i] + 1]]
        /\ Goto(t, "resume")
  /\ UNCHANGED <<token, signalled, permits, pass, index, spent, worth, blob, outcome, started>>

ResumeElapses(t) ==
  /\ pc[t] = "resume"
  /\ Acquire(t)
  /\ UNCHANGED <<token, signalled, permits, started>>

WakeResume(t) ==
  /\ pc[t] = "resume" /\ signalled
  /\ Goto(t, "settle")
  /\ Emit(t, "Cancelled", 0)
  /\ UNCHANGED <<token, signalled, permits, walk, blob, outcome, started>>

-----------------------------------------------------------------------------
(* Local work: unpacking an archive needs no permit, copying a Path and    *)
(* importing into the store do.  Waiters for a local permit poll the token.*)
Finalize(t) ==
  /\ pc[t] = "finalize"
  /\ Goto(t, "importWait") \/ Goto(t, "settle")
  /\ UNCHANGED <<token, signalled, permits, walk, blob, outcome, event, started>>

TakeLocal(t) ==
  /\ pc[t] \in {"copyWait", "importWait"} /\ localFree > 0 /\ ~token
  /\ localFree' = localFree - 1
  /\ Goto(t, IF pc[t] = "copyWait" THEN "copy" ELSE "import")
  /\ UNCHANGED <<token, signalled, hostFree, connFree, walk, blob, outcome, event, started>>

PollLocal(t) ==
  /\ pc[t] \in {"copyWait", "importWait"} /\ token
  /\ Goto(t, "settle")
  /\ UNCHANGED <<token, signalled, permits, walk, blob, outcome, event, started>>

Copy(t) ==
  /\ pc[t] = "copy"
  /\ localFree' = localFree + 1
  /\ \/ Goto(t, "importWait") /\ blob' = [blob EXCEPT ![t] = "whole"]
     \/ Goto(t, "settle") /\ \E b \in {"none", "partial"} : blob' = [blob EXCEPT ![t] = b]
  /\ UNCHANGED <<token, signalled, hostFree, connFree, walk, outcome, event, started>>

Import(t) ==
  /\ pc[t] = "import"
  /\ localFree' = localFree + 1
  /\ \/ /\ Goto(t, "settle")       \* it failed, or the run was cancelled
        /\ UNCHANGED <<blob, outcome>>
     \/ /\ ~token
        /\ outcome' = [outcome EXCEPT ![t] = "ok"]
        /\ \E b \in Removed(t) : blob' = [blob EXCEPT ![t] = b]
        /\ Goto(t, "done")
     \/ /\ ~token
        /\ outcome' = [outcome EXCEPT ![t] = "mismatched"]
        /\ Goto(t, "done")
        /\ UNCHANGED blob
  /\ UNCHANGED <<token, signalled, hostFree, connFree, walk, event, started>>

\* A Source ends with an error: a cancelled one removes its workspace.
Settle(t) ==
  /\ pc[t] = "settle"
  /\ \/ /\ token
        /\ \E b \in Removed(t) :
             /\ blob' = [blob EXCEPT ![t] = b]
             /\ outcome' = [outcome EXCEPT ![t] = IF b = "none" THEN "cancelled" ELSE "failed"]
     \/ /\ ~token
        /\ outcome' = [outcome EXCEPT ![t] = "failed"]
        /\ UNCHANGED blob
  /\ Goto(t, "done")
  /\ UNCHANGED <<token, signalled, permits, walk, event, started>>

\* The error of a request goes to its caller once its file is gone; a file
\* that cannot be removed is an error of its own.
RemovePartial(t) ==
  /\ pc[t] = "remove"
  /\ \E b \in Removed(t) :
       /\ blob' = [blob EXCEPT ![t] = b]
       /\ outcome' = [outcome EXCEPT ![t] = IF b = "none" THEN @ ELSE "failed"]
  /\ Goto(t, "done")
  /\ UNCHANGED <<token, signalled, permits, walk, event, started>>

-----------------------------------------------------------------------------
(* Cancellation: a signal sets the token, the monitor passes it on.        *)
Signal ==
  /\ Signals /\ ~token
  /\ token' = TRUE
  /\ UNCHANGED <<signalled, permits, pc, walk, blob, outcome, event, started>>

Monitor ==
  /\ token /\ ~signalled
  /\ signalled' = TRUE
  /\ UNCHANGED <<token, permits, pc, walk, blob, outcome, event, started>>

Woken(t) ==
  \/ WakeHostWaiter(t) \/ WakeConnectionWaiter(t) \/ AbortTransfer(t)
  \/ WakeBackoff(t) \/ WakeResume(t)
Transfer(t) == CreateFile(t) \/ EndAttempt(t)
Progress(t) ==
  \/ TakeHost(t) \/ TakeConnection(t) \/ BackoffElapses(t)
  \/ Begin(t) \/ FirstPass(t) \/ TurnAround(t) \/ SecondPass(t) \/ ResumeElapses(t)
  \/ Finalize(t) \/ TakeLocal(t) \/ PollLocal(t) \/ Copy(t) \/ Import(t) \/ Settle(t)
  \/ RemovePartial(t)
  \/ Woken(t)

Next == Signal \/ Monitor \/ \E t \in Tasks : Progress(t) \/ Transfer(t)
Spec == Init /\ [][Next]_vars

\* Attempts end (connect and read timeouts), except on a hanging URL.
FairSpec ==
  /\ Spec
  /\ WF_vars(Monitor)
  /\ \A t \in Tasks :
       /\ WF_vars(Progress(t))
       /\ (\A i \in Mirrors(t) : Urls[t][i] \notin Hanging) => WF_vars(CreateFile(t)) /\ WF_vars(EndAttempt(t))

-----------------------------------------------------------------------------
(* Every variable stays in its range; no semaphore is overdrawn or gains   *)
(* a permit nobody returned.                                               *)
TypeOK ==
  /\ token \in BOOLEAN /\ signalled \in BOOLEAN
  /\ \A h \in Hosts : hostFree[h] \in 0..for_host(h)
  /\ connFree \in 0..Connections /\ localFree \in 0..MaxLocalJobs
  /\ \A t \in Tasks :
       /\ pc[t] \in Places /\ pass[t] \in 1..2 /\ index[t] \in 1..Attempts
       /\ url[t] \in 1..(Len(Urls[t]) + 1)
       /\ spent[t] \in [Mirrors(t) -> 0..Attempts] /\ worth[t] \in [Mirrors(t) -> BOOLEAN]
       /\ blob[t] \in {"none", "partial", "whole"} /\ outcome[t] \in Outcomes
       /\ event[t].kind \in Kinds /\ started[t] \in [Mirrors(t) -> Nat]

(* A permit is held by a task that uses it and by nobody else: a pause     *)
(* between attempts, a wait that was cancelled and a task that has ended   *)
(* hold none (the guards dropped by acquire and run_attempts, and moved    *)
(* into the blocking closures of local I/O).                               *)
PermitsConserved ==
  /\ \A h \in Hosts :
       hostFree[h] = for_host(h) - Cardinality({t \in Tasks : pc[t] \in {"global", "transfer"} /\ Host(t) = h})
  /\ connFree = Connections - Cardinality({t \in Tasks : pc[t] = "transfer"})
  /\ localFree = MaxLocalJobs - Cardinality({t \in Tasks : pc[t] \in {"copy", "import"}})

(* The attempt number an event carries is the number of attempts made at   *)
(* that URL, over both passes of the walk, the budget is never passed      *)
(* (spent_before, attempts_here and UrlAttemptState agree), and no mirror  *)
(* is asked a second time before every mirror has been asked once (the two *)
(* passes of download_first_success).  An HTTP Source whose download fails *)
(* has tried every mirror, and spent the whole budget on each whose last   *)
(* failure was transient; and whatever ends a transfer, no half-written    *)
(* file is left behind (the removals after a failed URL, request or pull). *)
MirrorsExhausted ==
  \A t \in Tasks :
    /\ event[t].kind = "Started" => event[t].attempt = started[t][event[t].url]
    /\ \A i \in Mirrors(t) : started[t][i] <= Attempts
    /\ (Origin[t] = "Http" /\ \E i \in Mirrors(t) : started[t][i] > 1)
         => \A j \in Mirrors(t) : started[t][j] > 0
    /\ (Origin[t] = "Http" /\ outcome[t] = "failed" /\ blob[t] # "whole" /\ ~token)
         => \A i \in Mirrors(t) : started[t][i] > 0 /\ (worth[t][i] => started[t][i] = Attempts)
    /\ (pc[t] = "done" /\ Origin[t] # "Path" /\ t \notin UnlinkFails) => blob[t] # "partial"

(* Once the run is cancelled nothing fails for it: what stops is reported  *)
(* as cancelled, unless its files could not be removed (run_attempts,      *)
(* process_source_inner); and no attempt and no local work starts, whoever *)
(* held or was waiting for a permit (the checks around both acquires).     *)
CancellationClean ==
  [][token =>
       /\ \A t \in Tasks : outcome[t] # "failed" /\ outcome'[t] = "failed" => t \in UnlinkFails
       /\ started' = started /\ localFree' >= localFree]_vars

(* A cancelled run's tasks all end, even those in the middle of a transfer *)
(* that never answers: the monitor's signal reaches every wait.  And tasks *)
(* end although a host hangs, if they use other hosts or the disk: whoever *)
(* queues for the slow host holds no connection meanwhile (the order of    *)
(* the two acquires).                                                      *)
Over(t) == pc[t] \in {"idle", "done"}
AcquisitionEnds ==
  /\ token ~> (\A t \in Tasks : Over(t))
  /\ \A t \in Tasks :
       (\A i \in Mirrors(t) : HostOf[Urls[t][i]] \notin {HostOf[u] : u \in Hanging}) => <>Over(t)
=============================================================================
