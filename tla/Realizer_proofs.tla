--------------------------- MODULE Realizer_proofs --------------------------
(***************************************************************************)
(* Proofs about the realizer, for every acyclic graph, any goals, anything *)
(* the providers and earlier runs know, and any failures.                  *)
(*                                                                         *)
(* A run that has returned is quiet because a task is started only by one  *)
(* that waits for it (AllAsked): if tasks were left, the one whose node    *)
(* the others do not need would be a goal.                                 *)
(*                                                                         *)
(* A hit is used because a node's local task begins when its candidates    *)
(* are there (Begins) and gives one up only for a cell that was absent     *)
(* (Left), and then the providers do not have it (CellsTrue).              *)
(*                                                                         *)
(* A builder runs once although both of its tasks can come to run it: what *)
(* the first has built is under its reuse key (Built), where the second    *)
(* finds it.  It does find it: a cell that says the object is absent can   *)
(* be left from before the build, but the second task meets it once        *)
(* (Fresh), in the candidates, and removes it.                             *)
(***************************************************************************)
EXTENDS Realizer, TLAPS

Cand(k) == <<"cand", k>>
Local(k) == <<"local", k>>

----------------------------------------------------------------------------
(* The invariant: of the whole run, of a task, of a node.                  *)

PCs == {"idle", "start", "slots", "build", "inputs", "working", "provided", "running",
        "await", "ensure", "publish", "known", "source", "fetching", "done"}
Early == {"idle", "start", "await"}
Fallback == {"source", "fetching", "build", "inputs", "working", "provided", "running"}

Typed ==
  /\ pc \in [Tasks -> PCs]
  /\ DOMAIN res = Tasks /\ DOMAIN joined = Tasks /\ DOMAIN queue = Tasks
  /\ first \in [Tasks -> Errors \cup {None}]
  /\ hold \in [Tasks -> Nat]
  /\ started \in [Keys -> Nat]
  /\ DOMAIN builds = Keys

CellsTyped ==
  /\ cells \in Seq(ToSet(cells))
  /\ \A c \in DOMAIN cells : cells[c] = [hash |-> cells[c].hash, state |-> cells[c].state]
  /\ table \subseteq DOMAIN cells
\* A cell tells the truth about its hash, and the current ones are one per hash.
CellsTrue ==
  \A c \in DOMAIN cells :
    /\ cells[c].state = "present" => cells[c].hash \in content
    /\ cells[c].state = "absent" => cells[c].hash \notin SecondaryContent
OneCell ==
  /\ \A c \in DOMAIN cells : cells[c].state = "running" => c \in table
  /\ \A c, d \in table : cells[c].hash = cells[d].hash => c = d

\* A task that is under way is waited for.
Asking(kind) == IF kind = "cand" THEN {"slots", "known"} ELSE {"inputs"}
Asked(t) ==
  \/ t[1] = "local" /\ t[2] \in Goals
  \/ t[1] = "cand" /\ pc[Local(t[2])] = "await"
  \/ \E u \in Tasks : pc[u] \in Asking(t[1]) /\ Contains(Inputs[u[2]], t[2])
AllAsked == \A t \in Tasks : Active(t) => Asked(t)

RootTrue ==
  /\ root = [joined |-> root.joined, first |-> root.first, returned |-> root.returned]
  /\ \A g \in root.joined : g \in Goals /\ res[Local(g)] # None
  /\ root.returned => root.joined = Goals

\* A task that has a result is done; the tasks of the two kinds go their ways.
Way(t) ==
  /\ res[t] # None => pc[t] = "done"
  /\ t[1] = "cand" => pc[t] \notin {"await", "ensure", "source", "fetching"}
  /\ t[1] = "local" => pc[t] # "slots"
  /\ pc[t] \in {"source", "fetching"} => t[2] \in Sources
\* What a task has joined are results of its inputs.
Joins(t) ==
  /\ pc[t] \in {"slots", "known"} =>
       /\ DOMAIN joined[t] = 1..Len(Inputs[t[2]])
       /\ \A i \in DOMAIN joined[t] : joined[t][i] # None => res[Cand(Inputs[t[2]][i])] # None
  /\ pc[t] \in {"inputs", "working", "provided", "running"} =>
       /\ DOMAIN joined[t] = 1..Len(Inputs[t[2]])
       /\ \A i \in DOMAIN joined[t] : joined[t][i] # None => joined[t][i] = res[Local(Inputs[t[2]][i])]
  /\ pc[t] = "inputs" /\ first[t] = None =>
       \A i \in DOMAIN joined[t] : joined[t][i] # None => Ok(joined[t][i])
  /\ pc[t] \in {"working", "provided", "running"} =>
       \A i \in DOMAIN joined[t] : joined[t][i] # None
\* A task waits on a cell of the hash it tries, and publishes what is there.
Waits(t) ==
  hold[t] # 0 => Ensuring(t) /\ hold[t] \in DOMAIN cells /\ cells[hold[t]].hash = Upcoming(t)
There(t) == pc[t] \in {"publish", "known"} => Upcoming(t) \in content
TaskInv(t) == Way(t) /\ Joins(t) /\ Waits(t) /\ There(t)

\* The candidates of a node are there before its local task tries them.
Begins(k) ==
  /\ pc[Local(k)] \notin Early \cup {"done"} => pc[Cand(k)] = "done"
  /\ Ok(res[Local(k)]) => pc[Cand(k)] = "done"
\* What it has given up, nobody has.
Left(k) ==
  /\ pc[Local(k)] = "ensure" =>
       /\ Ok(res[Cand(k)])
       /\ \A i \in DOMAIN queue[Local(k)] :
            i \in DOMAIN res[Cand(k)] /\ queue[Local(k)][i] = res[Cand(k)][i]
       /\ \A i \in DOMAIN res[Cand(k)] :
            i \in DOMAIN queue[Local(k)] \/ res[Cand(k)][i] \notin SecondaryContent
  /\ pc[Local(k)] \in Fallback =>
       \A i \in DOMAIN res[Cand(k)] : res[Cand(k)][i] \notin SecondaryContent
Mapped(k) ==
  k \notin Sources /\ Ok(res[Local(k)]) =>
    res[Local(k)][1] \in content /\ builds[k] = res[Local(k)][1]

\* Candidates that are not exact came by the candidates of the inputs.
InputsKnown(k) == \A i \in 1..Len(Inputs[k]) : pc[Cand(Inputs[k][i])] # "idle"
Exact(k, h) == k \in Sources \/ builds[k] = h \/ Contains(SecondaryBuilds[k], h)
Slots(k) ==
  /\ pc[Cand(k)] \in {"slots", "build", "inputs", "working", "provided", "running", "publish"} => InputsKnown(k)
  /\ pc[Local(k)] \in {"working", "provided"} => InputsKnown(k)
  /\ pc[Local(k)] = "publish" => InputsKnown(k) \/ Exact(k, Upcoming(Local(k)))
  /\ Ok(res[Cand(k)]) /\ pc[Local(k)] # "done" =>
       InputsKnown(k) \/ \A i \in DOMAIN res[Cand(k)] : Exact(k, res[Cand(k)][i])

\* What the candidate task of a builder has built and published.
Built(k, h) ==
  /\ pc[Cand(k)] = "done" /\ res[Cand(k)] = <<h>>
  /\ h \in content
  /\ DOMAIN joined[Cand(k)] = 1..Len(Inputs[k])
  /\ \A i \in 1..Len(Inputs[k]) :
       joined[Cand(k)][i] # None /\ joined[Cand(k)][i] = res[Local(Inputs[k][i])]
  /\ ActualKey(Cand(k)) \in DOMAIN reuses /\ reuses[ActualKey(Cand(k))] = h
\* No current cell but, perhaps, this one says that it is not there.
Fresh(h, e) == \A d \in table : cells[d].hash = h /\ cells[d].state = "absent" => d = e
\* How the local task then finds it.
Finds(k, h) ==
  \/ pc[Local(k)] \in Early
  \/ /\ pc[Local(k)] = "ensure" /\ queue[Local(k)] = <<h>>
     /\ hold[Local(k)] # 0 => Fresh(h, hold[Local(k)])
  \/ pc[Local(k)] = "ensure" /\ Tried(Local(k)) /\ Fresh(h, 0)
  \/ pc[Local(k)] \in {"build", "inputs"} /\ Fresh(h, 0)
  \/ /\ pc[Local(k)] = "working" /\ queue[Local(k)] = <<h>> /\ Fresh(h, 0)
     /\ hold[Local(k)] # 0 => cells[hold[Local(k)]].state # "absent"
ToRun == Early \cup {"ensure", "build", "inputs", "working", "provided"}
Once(k) ==
  /\ started[k] <= 1
  /\ pc[Cand(k)] \notin {"running", "done"} => started[k] = 0
  /\ started[k] = 1 /\ pc[Local(k)] \in ToRun =>
       \/ pc[Cand(k)] = "running" /\ pc[Local(k)] \in Early
       \/ res[Cand(k)] \in Errors /\ pc[Local(k)] \in Early
       \/ \E h \in content : Built(k, h) /\ Finds(k, h)
NodeInv(k) == Begins(k) /\ Left(k) /\ Mapped(k) /\ Slots(k) /\ Once(k)

RealizerInv ==
  /\ Typed /\ CellsTyped /\ CellsTrue /\ OneCell /\ AllAsked /\ RootTrue
  /\ \A t \in Tasks : TaskInv(t)
  /\ \A k \in Keys : NodeInv(k)

----------------------------------------------------------------------------
(* What a step of others leaves of a task and of a node.                   *)

LEMMA TaskNames ==
  /\ \A k \in Keys : Cand(k) \in Tasks /\ Local(k) \in Tasks
  /\ \A k \in Keys : /\ Cand(k)[1] = "cand" /\ Cand(k)[2] = k
                     /\ Local(k)[1] = "local" /\ Local(k)[2] = k
  /\ \A t \in Tasks : t[2] \in Keys /\ t[1] \in {"cand", "local"}
  /\ \A t \in Tasks : (t[1] = "cand" => t = Cand(t[2])) /\ (t[1] = "local" => t = Local(t[2]))
  /\ \A t \in Tasks, k \in Keys : t # Cand(k) /\ t # Local(k) => t[2] # k
BY DEF Tasks, Cand, Local

LEMMA InputNames ==
  ASSUME NEW k \in Keys
  PROVE  /\ Inputs[k] \in Seq(Keys) /\ Len(Inputs[k]) \in Nat
         /\ \A i \in 1..Len(Inputs[k]) : Inputs[k][i] \in Keys
BY InputsAssumption

\* A step of the tasks in A leaves the other tasks alone, but may start them;
\* what is stored stays, and the cells only come to their ends.
Frame(A) ==
  /\ \A u \in Tasks \ A :
       /\ res'[u] = res[u] /\ joined'[u] = joined[u] /\ first'[u] = first[u]
       /\ queue'[u] = queue[u] /\ hold'[u] = hold[u]
       /\ pc'[u] = pc[u] \/ (pc[u] = "idle" /\ pc'[u] = "start")
  /\ \A t \in A : res[t] = None /\ pc[t] \notin {"idle", "done"} /\ pc'[t] # "idle"
  /\ \A k \in Keys : (Cand(k) \notin A /\ Local(k) \notin A) => builds'[k] = builds[k] /\ started'[k] = started[k]
  /\ \A r \in DOMAIN reuses : (Cand(r[1]) \notin A /\ Local(r[1]) \notin A) => r \in DOMAIN reuses' /\ reuses'[r] = reuses[r]
CellsGrow ==
  /\ content \subseteq content'
  /\ \A c \in DOMAIN cells :
       /\ c \in DOMAIN cells' /\ cells'[c].hash = cells[c].hash
       /\ cells[c].state # "running" => cells'[c].state = cells[c].state
       /\ cells'[c].state = "absent" => cells[c].state = "absent" \/ cells[c].hash \notin content
  /\ \A c \in table' : c \in table \/ cells'[c].state = "running"

LEMMA ResultsStay ==
  ASSUME RealizerInv, NEW A \in SUBSET Tasks, Frame(A)
  PROVE  /\ \A t \in Tasks : res[t] # None => res'[t] = res[t]
         /\ \A t \in Tasks : pc[t] = "done" => pc'[t] = "done"
         /\ \A t \in Tasks : pc[t] # "idle" => pc'[t] # "idle"
         /\ \A k \in Keys : InputsKnown(k) => InputsKnown(k)'
<1>1. /\ \A t \in Tasks : res[t] # None => res'[t] = res[t]
      /\ \A t \in Tasks : pc[t] = "done" => pc'[t] = "done"
      /\ \A t \in Tasks : pc[t] # "idle" => pc'[t] # "idle"
  BY DEF Frame
<1>2. \A k \in Keys : InputsKnown(k) => InputsKnown(k)'
  BY <1>1, InputNames, TaskNames DEF InputsKnown
<1> QED BY <1>1, <1>2

LEMMA OtherTasks ==
  ASSUME RealizerInv, NEW A \in SUBSET Tasks, Frame(A), CellsGrow, NEW u \in Tasks \ A
  PROVE  TaskInv(u)'
<1>1. TaskInv(u)
  BY DEF RealizerInv
<1>2. /\ res'[u] = res[u] /\ joined'[u] = joined[u] /\ first'[u] = first[u]
      /\ queue'[u] = queue[u] /\ hold'[u] = hold[u]
      /\ pc'[u] = pc[u] \/ (pc[u] = "idle" /\ pc'[u] = "start")
  BY DEF Frame
<1>3. Way(u)'
  BY <1>1, <1>2 DEF TaskInv, Way
<1>4. Joins(u)'
  BY <1>1, <1>2, ResultsStay, InputNames, TaskNames DEF TaskInv, Joins, Ok
<1>5. Waits(u)'
  BY <1>1, <1>2 DEF TaskInv, Waits, Ensuring, Upcoming, CellsGrow
<1>6. There(u)'
  BY <1>1, <1>2 DEF TaskInv, There, Upcoming, CellsGrow
<1> QED BY <1>3, <1>4, <1>5, <1>6 DEF TaskInv

LEMMA FreshStays ==
  ASSUME RealizerInv, CellsGrow, NEW h \in content, NEW e, Fresh(h, e)
  PROVE  Fresh(h, e)'
BY DEF Fresh, CellsGrow, RealizerInv, CellsTyped

\* What was built stays, unless the node itself publishes anew.
LEMMA BuiltStays ==
  ASSUME RealizerInv, NEW A \in SUBSET Tasks, Frame(A), CellsGrow,
         NEW k \in Keys, NEW h, Built(k, h),
         \A r \in DOMAIN reuses : r[1] = k => r \in DOMAIN reuses' /\ reuses'[r] = reuses[r]
  PROVE  Built(k, h)'
<1>1. /\ res'[Cand(k)] = res[Cand(k)] /\ joined'[Cand(k)] = joined[Cand(k)] /\ pc'[Cand(k)] = "done"
  BY ResultsStay, TaskNames DEF Frame, Built
<1>2. ActualKey(Cand(k))' = ActualKey(Cand(k)) /\ ActualKey(Cand(k))[1] = k
  BY <1>1, TaskNames DEF ActualKey
<1>3. ActualKey(Cand(k))' \in DOMAIN reuses' /\ reuses'[ActualKey(Cand(k))'] = h
  BY <1>2 DEF Built
<1>4. \A i \in 1..Len(Inputs[k]) :
        joined'[Cand(k)][i] # None /\ joined'[Cand(k)][i] = res'[Local(Inputs[k][i])]
  BY <1>1, ResultsStay, InputNames, TaskNames DEF Built
<1> QED BY <1>1, <1>3, <1>4 DEF Built, CellsGrow

\* The tasks of the node are where they were.
Same(k) ==
  /\ \A u \in {Cand(k), Local(k)} :
       /\ res'[u] = res[u] /\ queue'[u] = queue[u] /\ hold'[u] = hold[u]
       /\ pc'[u] = pc[u] \/ (pc[u] = "idle" /\ pc'[u] = "start")
  /\ builds'[k] = builds[k] /\ started'[k] = started[k]
  /\ \A r \in DOMAIN reuses : r[1] = k => r \in DOMAIN reuses' /\ reuses'[r] = reuses[r]

LEMMA SameNode ==
  ASSUME RealizerInv, NEW A \in SUBSET Tasks, Frame(A), CellsGrow, NEW k \in Keys, Same(k)
  PROVE  NodeInv(k)'
<1>1. NodeInv(k) /\ Typed
  BY DEF RealizerInv
<1>2. /\ \A u \in {Cand(k), Local(k)} :
           /\ res'[u] = res[u] /\ queue'[u] = queue[u] /\ hold'[u] = hold[u]
           /\ pc'[u] = pc[u] \/ (pc[u] = "idle" /\ pc'[u] = "start")
      /\ builds'[k] = builds[k] /\ started'[k] = started[k]
  BY DEF Same
<1>3. Begins(k)'
  BY <1>1, <1>2 DEF NodeInv, Begins, Early, Ok
<1>4. Left(k)'
  BY <1>1, <1>2 DEF NodeInv, Left, Fallback, Ok
<1>5. Mapped(k)'
  BY <1>1, <1>2 DEF NodeInv, Mapped, Ok, CellsGrow
<1>6. Slots(k)'
  BY <1>1, <1>2, ResultsStay DEF NodeInv, Slots, Exact, Upcoming, Ok
<1>7. Once(k)'
  <2>1. CASE \E h \in content : Built(k, h) /\ Finds(k, h)
    <3>1. PICK h \in content : Built(k, h) /\ Finds(k, h)
      BY <2>1
    <3>2. Built(k, h)' /\ h \in content'
      BY <3>1, BuiltStays DEF CellsGrow, Same
    <3>3. Finds(k, h)'
      <4>1. \A e : Fresh(h, e) => Fresh(h, e)'
        BY FreshStays
      <4>2. hold[Local(k)] # 0 => hold[Local(k)] \in DOMAIN cells /\ cells[hold[Local(k)]].hash = Upcoming(Local(k))
        BY TaskNames DEF RealizerInv, TaskInv, Waits
      <4>3. Fresh(h, 0) => Fresh(h, 0)'
        BY <4>1
      <4>4. Fresh(h, hold[Local(k)]) => Fresh(h, hold[Local(k)])'
        BY FreshStays, <1>2 DEF Fresh, CellsGrow
      <4>5. queue[Local(k)] = <<h>> => Upcoming(Local(k)) = h
        BY DEF Upcoming, Min
      <4> QED BY <1>2, <3>1, <4>2, <4>3, <4>4, <4>5 DEF Finds, Early, Tried, CellsGrow
    <3> QED BY <1>1, <1>2, <3>2, <3>3 DEF NodeInv, Once, Built, ToRun, Early
  <2>2. CASE ~\E h \in content : Built(k, h) /\ Finds(k, h)
    BY <1>1, <1>2, <2>2 DEF NodeInv, Once, ToRun, Early
  <2> QED BY <2>1, <2>2
<1> QED BY <1>3, <1>4, <1>5, <1>6, <1>7 DEF NodeInv

LEMMA OtherNodes ==
  ASSUME RealizerInv, NEW A \in SUBSET Tasks, Frame(A), CellsGrow,
         NEW k \in Keys, Cand(k) \notin A, Local(k) \notin A
  PROVE  NodeInv(k)'
<1>1. Same(k)
  BY TaskNames DEF Frame, Same
<1> QED BY <1>1, SameNode

\* Whom a step of t starts is asked for, and t stops waiting for who is done.
Handed(t) ==
  /\ \A u \in Tasks : pc[u] = "idle" /\ pc'[u] = "start" => Asked(u)'
  /\ pc[t] \in {"slots", "known"} /\ pc'[t] \notin {"slots", "known"} =>
       \A i \in 1..Len(Inputs[t[2]]) : pc[Cand(Inputs[t[2]][i])] = "done"
  /\ pc[t] = "inputs" /\ pc'[t] # "inputs" =>
       \A i \in 1..Len(Inputs[t[2]]) : pc[Local(Inputs[t[2]][i])] = "done"
  /\ pc[t] = "await" /\ pc'[t] # "await" => pc[Cand(t[2])] = "done"

LEMMA AskedStay ==
  ASSUME RealizerInv, NEW t \in Tasks, Frame({t}), Handed(t)
  PROVE  AllAsked'
<1> SUFFICES ASSUME NEW u \in Tasks, Active(u)' PROVE Asked(u)'
  BY DEF AllAsked
<1>1. CASE pc[u] = "idle" /\ pc'[u] = "start"
  BY <1>1 DEF Handed
<1>2. CASE ~(pc[u] = "idle" /\ pc'[u] = "start")
  <2>1. Active(u) /\ Asked(u) /\ pc[u] # "done"
    BY <1>2 DEF Active, Frame, RealizerInv, AllAsked
  <2>2. CASE u[1] = "local" /\ u[2] \in Goals
    BY <2>2 DEF Asked
  <2>3. CASE u[1] = "cand" /\ pc[Local(u[2])] = "await"
    <3>1. u = Cand(u[2]) /\ Local(u[2]) \in Tasks
      BY <2>3, TaskNames
    <3>2. pc'[Local(u[2])] = "await"
      <4>1. CASE t = Local(u[2])
        BY <2>1, <2>3, <3>1, <4>1, TaskNames DEF Handed
      <4>2. CASE t # Local(u[2])
        BY <2>3, <3>1, <4>2 DEF Frame
      <4> QED BY <4>1, <4>2
    <3> QED BY <2>3, <3>2 DEF Asked
  <2>4. CASE \E w \in Tasks : pc[w] \in Asking(u[1]) /\ Contains(Inputs[w[2]], u[2])
    <3>1. PICK w \in Tasks : pc[w] \in Asking(u[1]) /\ Contains(Inputs[w[2]], u[2])
      BY <2>4
    <3>2. pc'[w] \in Asking(u[1])
      <4>1. CASE w = t
        <5>1. PICK i \in 1..Len(Inputs[t[2]]) : Inputs[t[2]][i] = u[2]
          BY <3>1, <4>1 DEF Contains
        <5>2. CASE u[1] = "cand"
          BY <2>1, <3>1, <4>1, <5>1, <5>2, TaskNames DEF Handed, Asking
        <5>3. CASE u[1] = "local"
          BY <2>1, <3>1, <4>1, <5>1, <5>3, TaskNames DEF Handed, Asking
        <5> QED BY <5>2, <5>3, TaskNames
      <4>2. CASE w # t
        BY <3>1, <4>2 DEF Frame, Asking
      <4> QED BY <4>1, <4>2
    <3> QED BY <3>1, <3>2 DEF Asked
  <2> QED BY <2>1, <2>2, <2>3, <2>4 DEF Asked
<1> QED BY <1>1, <1>2

\* A step of a task keeps the invariant when it keeps what is about the task,
\* its node and the cells.
LEMMA TaskStepKeeps ==
  ASSUME RealizerInv, NEW t \in Tasks, Frame({t}), CellsGrow, Handed(t), root' = root,
         Typed', CellsTyped', CellsTrue', OneCell', TaskInv(t)', NodeInv(t[2])'
  PROVE  RealizerInv'
<1>1. AllAsked'
  BY AskedStay
<1>2. RootTrue'
  <2>1. \A g \in root.joined : g \in Keys
    BY SourcesAssumption DEF RealizerInv, RootTrue
  <2> QED BY <2>1, ResultsStay, TaskNames DEF RealizerInv, RootTrue
<1>3. \A u \in Tasks : TaskInv(u)'
  BY OtherTasks
<1>4. \A k \in Keys : NodeInv(k)'
  <2> SUFFICES ASSUME NEW k \in Keys PROVE NodeInv(k)'
    OBVIOUS
  <2>1. CASE k = t[2]
    BY <2>1
  <2>2. CASE k # t[2]
    <3>1. Cand(k) \notin {t} /\ Local(k) \notin {t}
      BY <2>2, TaskNames
    <3> QED BY <3>1, OtherNodes
  <2> QED BY <2>1, <2>2
<1> QED BY <1>1, <1>2, <1>3, <1>4 DEF RealizerInv

LEMMA CellsSame ==
  ASSUME RealizerInv, cells' = cells, table' = table, content \subseteq content'
  PROVE  CellsGrow /\ CellsTyped' /\ CellsTrue' /\ OneCell'
BY DEF RealizerInv, CellsGrow, CellsTyped, CellsTrue, OneCell, ToSet

----------------------------------------------------------------------------
(* The steps of a node's candidate task: its local task has not begun.     *)

LEMMA CandFirst ==
  ASSUME RealizerInv, NEW k \in Keys, pc[Cand(k)] # "done"
  PROVE  pc[Local(k)] \in Early \cup {"done"} /\ ~Ok(res[Local(k)])
BY DEF RealizerInv, NodeInv, Begins

LEMMA CandNode ==
  ASSUME RealizerInv, NEW k \in Keys, Frame({Cand(k)}), Slots(k)', Once(k)'
  PROVE  NodeInv(k)'
<1>1. pc[Local(k)] \in Early \cup {"done"} /\ ~Ok(res[Local(k)])
  BY CandFirst DEF Frame
<1>2. pc'[Local(k)] \in Early \cup {"done"} /\ res'[Local(k)] = res[Local(k)]
  BY <1>1, TaskNames DEF Frame, Early
<1>3. Begins(k)'
  BY <1>1, <1>2 DEF Begins, Ok
<1>4. Left(k)'
  BY <1>2 DEF Left, Early, Fallback
<1>5. Mapped(k)'
  BY <1>1, <1>2 DEF Mapped, Ok
<1> QED BY <1>3, <1>4, <1>5 DEF NodeInv

\* Nothing has been built for the node before its candidate task runs it.
LEMMA NotStarted ==
  ASSUME RealizerInv, NEW k \in Keys, pc[Cand(k)] \notin {"running", "done"}, started'[k] = started[k]
  PROVE  Once(k)'
BY DEF RealizerInv, NodeInv, Once

LEMMA Spawned ==
  ASSUME RealizerInv, NEW t \in Tasks, NEW c \in {"cand", "local"}, NEW p \in {"slots", "known", "inputs"},
         Spawn(t, c, p)
  PROVE  /\ pc' \in [Tasks -> PCs] /\ DOMAIN joined' = Tasks /\ first' \in [Tasks -> Errors \cup {None}]
         /\ pc'[t] = p /\ first'[t] = None
         /\ joined'[t] = [i \in 1..Len(Inputs[t[2]]) |-> None]
         /\ \A u \in Tasks \ {t} : joined'[u] = joined[u] /\ first'[u] = first[u]
         /\ \A u \in Tasks \ {t} : pc'[u] = pc[u] \/ (pc[u] = "idle" /\ pc'[u] = "start")
         /\ \A u \in Tasks : pc[u] = "idle" /\ pc'[u] = "start" => u[1] = c /\ Contains(Inputs[t[2]], u[2])
         /\ \A i \in 1..Len(Inputs[t[2]]) : pc'[<<c, Inputs[t[2]][i]>>] # "idle"
<1>1. Typed
  BY DEF RealizerInv
<1>2. /\ pc' \in [Tasks -> PCs] /\ DOMAIN joined' = Tasks /\ first' \in [Tasks -> Errors \cup {None}]
      /\ pc'[t] = p /\ first'[t] = None
      /\ joined'[t] = [i \in 1..Len(Inputs[t[2]]) |-> None]
      /\ \A u \in Tasks \ {t} : joined'[u] = joined[u] /\ first'[u] = first[u]
      /\ \A u \in Tasks \ {t} : pc'[u] = pc[u] \/ (pc[u] = "idle" /\ pc'[u] = "start")
      /\ \A u \in Tasks : pc[u] = "idle" /\ pc'[u] = "start" => u[1] = c /\ Contains(Inputs[t[2]], u[2])
  BY <1>1 DEF Spawn, Typed, PCs
<1>3. ASSUME NEW i \in 1..Len(Inputs[t[2]])
      PROVE  pc'[<<c, Inputs[t[2]][i]>>] # "idle"
  <2> DEFINE u == <<c, Inputs[t[2]][i]>>
  <2>1. u \in Tasks /\ u[1] = c /\ u[2] = Inputs[t[2]][i]
    BY InputNames, TaskNames DEF Tasks
  <2>2. Contains(Inputs[t[2]], u[2])
    BY <2>1 DEF Contains
  <2>3. u # t => pc'[u] = IF pc[u] = "idle" THEN "start" ELSE pc[u]
    BY <2>1, <2>2 DEF Spawn
  <2> HIDE DEF u
  <2> QED BY <1>2, <2>1, <2>3 DEF u
<1> QED BY <1>2, <1>3

LEMMA CandLookupKeeps ==
  ASSUME RealizerInv, NEW k \in Keys, CandLookup(k)
  PROVE  RealizerInv'
<1> DEFINE t == Cand(k)
<1>1. t \in Tasks /\ t[1] = "cand" /\ t[2] = k /\ Typed
  BY TaskNames DEF RealizerInv
<1>2. pc[t] = "start" /\ res[t] = None /\ TaskInv(t) /\ hold[t] = 0
  BY <1>1 DEF CandLookup, Cand, RealizerInv, TaskInv, Way, Waits, Ensuring
<1>3. UNCHANGED <<queue, hold, cells, table, builds, reuses, content, started, run, root>>
  BY DEF CandLookup, store
<1>4. CellsGrow /\ CellsTyped' /\ CellsTrue' /\ OneCell'
  BY <1>3, CellsSame
<1>5. ASSUME NEW r, Finish(t, r), UNCHANGED <<joined, first>>,
             r \in Errors \/ \A i \in DOMAIN r : Exact(k, r[i])
      PROVE  RealizerInv'
  <2>1. Frame({t})
    BY <1>1, <1>2, <1>3, <1>5 DEF Finish, Frame, Typed
  <2>2. Typed'
    BY <1>1, <1>3, <1>5 DEF Finish, Typed, PCs
  <2>3. TaskInv(t)'
    BY <1>1, <1>2, <1>3, <1>5, <2>2 DEF Finish, Typed, TaskInv, Way, Joins, Waits, There
  <2>4. Handed(t)
    BY <1>1, <1>2, <1>5 DEF Finish, Handed, Typed
  <2>5. Slots(k)'
    BY <1>1, <1>2, <1>3, <1>5, <2>1, CandFirst, TaskNames DEF Slots, Exact, Typed, Finish, Frame, Early, Ok
  <2>6. NodeInv(k)'
    BY <1>1, <1>2, <1>3, <2>1, <2>5, NotStarted, CandNode
  <2> QED BY <1>1, <1>3, <1>4, <2>1, <2>2, <2>3, <2>4, <2>6, TaskStepKeeps
<1>6. CASE Spawn(t, "cand", "slots") /\ UNCHANGED res
  <2>1. Frame({t})
    BY <1>1, <1>2, <1>3, <1>6 DEF Spawn, Frame, Typed
  <2>2. Typed'
    BY <1>1, <1>3, <1>6 DEF Spawn, Typed, PCs
  <2>3. joined'[t] = [i \in 1..Len(Inputs[k]) |-> None] /\ pc'[t] = "slots"
    BY <1>1, <1>6 DEF Spawn, Typed
  <2>4. TaskInv(t)'
    BY <1>1, <1>2, <1>3, <1>6, <2>3 DEF TaskInv, Way, Joins, Waits, There
  <2>5. Handed(t)
    BY <1>1, <1>2, <1>6, <2>3 DEF Spawn, Handed, Asked, Asking
  <2>6. InputsKnown(k)'
    BY <1>1, <1>6, Spawned DEF InputsKnown, Cand
  <2>7. Slots(k)'
    BY <1>1, <2>6 DEF Slots
  <2>8. NodeInv(k)'
    BY <1>1, <1>2, <1>3, <2>1, <2>7, NotStarted, CandNode
  <2> QED BY <1>1, <1>3, <1>4, <2>1, <2>2, <2>4, <2>5, <2>8, TaskStepKeeps
<1>7. \/ Finish(t, Cancelled) /\ UNCHANGED <<joined, first>>
      \/ Finish(t, <<builds[k]>>) /\ UNCHANGED <<joined, first>>
      \/ Finish(t, SecondaryBuilds[k]) /\ UNCHANGED <<joined, first>>
      \/ Finish(t, <<Declared[k]>>) /\ UNCHANGED <<joined, first>> /\ k \in Sources
      \/ Spawn(t, "cand", "slots") /\ UNCHANGED res
  BY DEF CandLookup, Cand
<1>8. Cancelled \in Errors /\ (\A i \in DOMAIN <<builds[k]>> : Exact(k, <<builds[k]>>[i]))
  BY DEF Errors, Exact
<1>9. \A i \in DOMAIN SecondaryBuilds[k] : Exact(k, SecondaryBuilds[k][i])
  BY ProvidersAssumption DEF Exact, Contains
<1>10. k \in Sources => \A i \in DOMAIN <<Declared[k]>> : Exact(k, <<Declared[k]>>[i])
  BY DEF Exact
<1> QED BY <1>5, <1>6, <1>7, <1>8, <1>9, <1>10

----------------------------------------------------------------------------
(* collect_ordered_input_tasks, for either kind of task.                   *)

LEMMA CandidatesKnown ==
  ASSUME RealizerInv, NEW k \in Keys, Candidates(k) # None
  PROVE  res[Cand(k)] # None /\ pc[Cand(k)] = "done"
<1>1. res[Cand(k)] # None
  BY DEF Candidates, Ok, Cand
<1> QED BY <1>1, TaskNames DEF RealizerInv, TaskInv, Way

LEMMA JoinInputKeeps ==
  ASSUME RealizerInv, NEW t \in Tasks, NEW i \in DOMAIN joined[t], JoinInput(t, i)
  PROVE  RealizerInv'
<1> DEFINE r == InputResult(t, i)
           k == t[2]
<1>1. Typed /\ TaskInv(t) /\ k \in Keys
  BY TaskNames DEF RealizerInv
<1>2. /\ pc[t] \in {"slots", "inputs", "known"} /\ res[t] = None /\ r # None
      /\ joined' = [joined EXCEPT ![t][i] = r]
      /\ UNCHANGED <<pc, res, queue, hold, cells, table, builds, reuses, content, started, root>>
  BY <1>1 DEF JoinInput, store, TaskInv, Way
<1>3. \/ ~Ok(r) /\ first' = [first EXCEPT ![t] = r]
      \/ (Ok(r) \/ first[t] # None) /\ first' = first
  BY DEF JoinInput
<1>4. r \in Errors \/ Ok(r)
  BY <1>2 DEF Ok
<1>5. CellsGrow /\ CellsTyped' /\ CellsTrue' /\ OneCell'
  BY <1>2, CellsSame
<1>6. Frame({t})
  <2>1. \A u \in Tasks \ {t} : joined'[u] = joined[u] /\ first'[u] = first[u]
    BY <1>1, <1>2, <1>3 DEF Typed
  <2> QED BY <1>1, <1>2, <2>1 DEF Frame
<1>7. Typed'
  BY <1>1, <1>2, <1>3, <1>4 DEF Typed
<1>8. DOMAIN joined[t] = 1..Len(Inputs[k]) /\ Inputs[k][i] \in Keys
  BY <1>1, <1>2, InputNames DEF TaskInv, Joins
<1>9. /\ DOMAIN joined'[t] = DOMAIN joined[t] /\ joined'[t][i] = r
      /\ \A j \in DOMAIN joined[t] \ {i} : joined'[t][j] = joined[t][j]
  BY <1>1, <1>2 DEF Typed
<1>10. /\ pc[t] = "inputs" => r = res[Local(Inputs[k][i])]
       /\ pc[t] # "inputs" => res[Cand(Inputs[k][i])] # None
  BY <1>2, <1>8, CandidatesKnown DEF InputResult, Local
<1>11. first'[t] = None => Ok(r) /\ first[t] = None
  BY <1>1, <1>2, <1>3 DEF Typed
<1>12. TaskInv(t)'
  <2>1. Joins(t)'
    BY <1>1, <1>2, <1>8, <1>9, <1>10, <1>11 DEF TaskInv, Joins
  <2> QED BY <1>1, <1>2, <2>1 DEF TaskInv, Way, Waits, There, Ensuring, Upcoming
<1>13. Handed(t)
  BY <1>1, <1>2 DEF Handed, Typed
<1>14. NodeInv(k)'
  BY <1>1, <1>2, <1>5, <1>6, SameNode DEF Same
<1> HIDE DEF r, k
<1> QED BY <1>2, <1>5, <1>6, <1>7, <1>12, <1>13, <1>14, TaskStepKeeps DEF k

LEMMA AllJoined ==
  ASSUME RealizerInv, NEW t \in Tasks, NEW p \in {"slots", "known", "inputs"}, Joined(t, p)
  PROVE  /\ pc[t] = p /\ res[t] = None
         /\ DOMAIN joined[t] = 1..Len(Inputs[t[2]])
         /\ p # "inputs" => \A i \in 1..Len(Inputs[t[2]]) : pc[Cand(Inputs[t[2]][i])] = "done"
         /\ p = "inputs" => \A i \in 1..Len(Inputs[t[2]]) : pc[Local(Inputs[t[2]][i])] = "done"
<1>1. TaskInv(t) /\ pc[t] = p /\ \A i \in DOMAIN joined[t] : joined[t][i] # None
  BY DEF RealizerInv, Joined
<1>2. t[2] \in Keys
  BY TaskNames
<1>3. \A i \in 1..Len(Inputs[t[2]]) :
        /\ res[Cand(Inputs[t[2]][i])] # None => pc[Cand(Inputs[t[2]][i])] = "done"
        /\ res[Local(Inputs[t[2]][i])] # None => pc[Local(Inputs[t[2]][i])] = "done"
  BY <1>2, InputNames, TaskNames DEF RealizerInv, TaskInv, Way
<1> QED BY <1>1, <1>3 DEF TaskInv, Joins, Way

\* A task that ends in an error.
LEMMA EndsInError ==
  ASSUME RealizerInv, NEW t \in Tasks, NEW e \in Errors, Finish(t, e), Active(t), Handed(t),
         UNCHANGED <<joined, first, queue, builds, reuses, started, root>>,
         hold' = [hold EXCEPT ![t] = 0], CellsGrow, CellsTyped', CellsTrue', OneCell'
  PROVE  RealizerInv'
<1>1. Typed /\ TaskInv(t) /\ t[2] \in Keys /\ res[t] = None
  BY TaskNames DEF RealizerInv, TaskInv, Way, Active
<1>2. Frame({t})
  BY <1>1 DEF Frame, Finish, Typed, Active
<1>3. Typed'
  BY <1>1 DEF Finish, Typed, PCs
<1>4. pc'[t] = "done" /\ res'[t] = e /\ hold'[t] = 0 /\ ~Ok(e)
  BY <1>1 DEF Finish, Typed, Ok
<1>5. TaskInv(t)'
  BY <1>4 DEF TaskInv, Way, Joins, Waits, There
<1>6. NodeInv(t[2])'
  <2>1. CASE t = Cand(t[2])
    <3>1. pc[Local(t[2])] \in Early \cup {"done"} /\ pc'[Local(t[2])] = pc[Local(t[2])]
      BY <1>1, <2>1, CandFirst, TaskNames DEF Active, Finish, Typed
    <3>2. Slots(t[2])'
      BY <1>4, <2>1, <3>1 DEF Slots, Early
    <3>3. Once(t[2])'
      BY <1>1, <1>4, <2>1, <3>1 DEF RealizerInv, NodeInv, Once, ToRun, Active, Early
    <3> QED BY <1>1, <1>2, <2>1, <3>2, <3>3, CandNode
  <2>2. CASE t = Local(t[2])
    <3>1. res'[Cand(t[2])] = res[Cand(t[2])] /\ pc'[Cand(t[2])] = pc[Cand(t[2])]
      BY <1>1, <2>2, TaskNames DEF Finish, Typed
    <3>2. NodeInv(t[2])
      BY <1>1 DEF RealizerInv
    <3>3. Begins(t[2])' /\ Left(t[2])' /\ Mapped(t[2])'
      BY <1>4, <2>2 DEF Begins, Left, Mapped, Early, Fallback
    <3>4. Slots(t[2])'
      BY <1>1, <1>2, <1>4, <2>2, <3>1, <3>2, ResultsStay DEF NodeInv, Slots
    <3>5. Once(t[2])'
      BY <1>4, <2>2, <3>1, <3>2 DEF NodeInv, Once, ToRun, Early
    <3> QED BY <3>3, <3>4, <3>5 DEF NodeInv
  <2> QED BY <2>1, <2>2, TaskNames
<1> QED BY <1>2, <1>3, <1>5, <1>6, TaskStepKeeps

LEMMA NoHold ==
  ASSUME RealizerInv, NEW t \in Tasks, ~Ensuring(t)
  PROVE  hold[t] = 0 /\ hold = [hold EXCEPT ![t] = 0]
BY DEF RealizerInv, TaskInv, Waits, Typed

LEMMA InputErrorKeeps ==
  ASSUME RealizerInv, NEW t \in Tasks, NEW p \in {"slots", "inputs", "known"}, InputError(t, p)
  PROVE  RealizerInv'
<1>1. Joined(t, p) /\ first[t] \in Errors /\ Finish(t, first[t])
  BY DEF InputError, RealizerInv, Typed
<1>2. UNCHANGED <<joined, first, queue, hold, cells, table, builds, reuses, content, started, root>>
  BY DEF InputError, store
<1>3. pc[t] = p /\ Active(t) /\ ~Ensuring(t)
  BY <1>1 DEF Joined, Active, Ensuring
<1>4. Handed(t)
  BY <1>1, <1>3, AllJoined DEF Handed, Finish, RealizerInv, Typed
<1>5. hold' = [hold EXCEPT ![t] = 0] /\ CellsGrow /\ CellsTyped' /\ CellsTrue' /\ OneCell'
  BY <1>2, <1>3, NoHold, CellsSame
<1> QED BY <1>1, <1>2, <1>3, <1>4, <1>5, EndsInError

\* Once a candidate task has asked for the slots, its node has its inputs known.
LEMMA CandMoves ==
  ASSUME RealizerInv, NEW k \in Keys, Frame({Cand(k)}), Once(k)',
         pc[Cand(k)] \in {"slots", "build", "inputs", "working", "provided", "running", "publish"} \/ InputsKnown(k)
  PROVE  NodeInv(k)'
<1>1. InputsKnown(k)
  BY DEF RealizerInv, NodeInv, Slots
<1>2. InputsKnown(k)'
  BY <1>1, ResultsStay, TaskNames
<1>3. Slots(k)'
  BY <1>2 DEF Slots
<1> QED BY <1>3, CandNode

LEMMA CandReuseKeeps ==
  ASSUME RealizerInv, NEW t \in Tasks, CandReuse(t)
  PROVE  RealizerInv'
<1>1. Joined(t, "slots")
  BY DEF CandReuse
<1>2. /\ pc[t] = "slots" /\ res[t] = None /\ Typed /\ TaskInv(t) /\ t[2] \in Keys
      /\ ~Ensuring(t) /\ hold[t] = 0
  BY <1>1, AllJoined, NoHold, TaskNames DEF RealizerInv, Ensuring
<1>3. t = Cand(t[2])
  BY <1>2, TaskNames DEF TaskInv, Way
<1>4. UNCHANGED <<joined, first, queue, hold, cells, table, builds, reuses, content, started, root>>
  BY DEF CandReuse, store
<1>5. CellsGrow /\ CellsTyped' /\ CellsTrue' /\ OneCell'
  BY <1>4, CellsSame
<1>6. /\ pc'[t] \in {"build", "done"} /\ (res'[t] # None => pc'[t] = "done")
      /\ pc' \in [Tasks -> PCs] /\ DOMAIN res' = Tasks
      /\ \A u \in Tasks \ {t} : pc'[u] = pc[u] /\ res'[u] = res[u]
  <2>1. CASE \E r : Finish(t, r)
    BY <1>2, <2>1 DEF Finish, Typed, PCs
  <2>2. CASE Goto(t, "build")
    BY <1>2, <2>2 DEF Goto, Typed, PCs
  <2> QED BY <2>1, <2>2 DEF CandReuse
<1>7. Frame({t})
  BY <1>2, <1>4, <1>6 DEF Frame, Typed
<1>8. Typed'
  BY <1>2, <1>4, <1>6 DEF Typed, PCs
<1>9. TaskInv(t)'
  BY <1>2, <1>4, <1>6 DEF TaskInv, Way, Joins, Waits, There
<1>10. Handed(t)
  BY <1>1, <1>2, <1>6, AllJoined DEF Handed, Typed
<1>11. NodeInv(t[2])'
  BY <1>2, <1>3, <1>4, <1>7, NotStarted, CandMoves
<1> QED BY <1>4, <1>5, <1>7, <1>8, <1>9, <1>10, <1>11, TaskStepKeeps

----------------------------------------------------------------------------
(* compute_local.                                                          *)

\* What a step of the local task leaves alone.
LEMMA CandStays ==
  ASSUME RealizerInv, NEW k \in Keys, Frame({Local(k)})
  PROVE  /\ res'[Cand(k)] = res[Cand(k)]
         /\ pc'[Cand(k)] = pc[Cand(k)] \/ (pc[Cand(k)] = "idle" /\ pc'[Cand(k)] = "start")
BY TaskNames DEF Frame

LEMMA LocalStartKeeps ==
  ASSUME RealizerInv, NEW k \in Keys, LocalStart(k)
  PROVE  RealizerInv'
<1> DEFINE t == Local(k)
<1>1. t \in Tasks /\ t[1] = "local" /\ t[2] = k /\ Typed /\ TaskInv(t) /\ NodeInv(k)
  BY TaskNames DEF RealizerInv
<1>2. pc[t] = "start" /\ res[t] = None /\ Active(t) /\ hold[t] = 0 /\ ~Ensuring(t)
  BY <1>1, NoHold DEF LocalStart, Local, TaskInv, Way, Active, Ensuring
<1>3. UNCHANGED <<joined, first, queue, hold, cells, table, builds, reuses, content, started, root>>
  BY DEF LocalStart, store
<1>4. CellsGrow /\ CellsTyped' /\ CellsTrue' /\ OneCell'
  BY <1>3, CellsSame
<1>5. CASE Finish(t, Cancelled)
  <2>1. Handed(t)
    BY <1>1, <1>2, <1>5 DEF Finish, Handed, Typed
  <2>2. Cancelled \in Errors /\ hold' = [hold EXCEPT ![t] = 0]
    BY <1>1, <1>2, <1>3, NoHold DEF Errors
  <2> QED BY <1>1, <1>2, <1>3, <1>4, <1>5, <2>1, <2>2, EndsInError
<1>6. CASE /\ pc' = [pc EXCEPT ![t] = "await", ![Cand(k)] = IF @ = "idle" THEN "start" ELSE @]
           /\ UNCHANGED res
  <2>1. /\ pc'[t] = "await"
        /\ \A u \in Tasks \ {t} : pc'[u] = pc[u] \/ (u = Cand(k) /\ pc[u] = "idle" /\ pc'[u] = "start")
        /\ pc' \in [Tasks -> PCs]
    <3>1. Cand(k) \in Tasks /\ Cand(k) # t
      BY <1>1, TaskNames
    <3> HIDE DEF t
    <3> QED BY <1>1, <1>6, <3>1 DEF Typed, PCs
  <2>2. Frame({t})
    BY <1>2, <1>3, <1>6, <2>1 DEF Frame
  <2>3. Typed'
    BY <1>1, <1>3, <1>6, <2>1 DEF Typed
  <2>4. TaskInv(t)'
    BY <1>1, <1>2, <1>3, <1>6, <2>1 DEF TaskInv, Way, Joins, Waits, There
  <2>5. Handed(t)
    BY <1>1, <1>2, <2>1, TaskNames DEF Handed, Asked
  <2>6. Begins(k)' /\ Left(k)'
    BY <2>1, <1>1, <1>2, <1>6 DEF Begins, Left, Early, Fallback, Ok
  <2>7. Mapped(k)'
    BY <1>1, <1>3, <1>6 DEF Mapped, Ok, NodeInv
  <2>8. Slots(k)'
    BY <1>1, <1>2, <1>3, <1>6, <2>1, <2>2, CandStays, ResultsStay DEF NodeInv, Slots, Exact
  <2>9. Once(k)'
    <3>1. \A h : Built(k, h) => Built(k, h)'
      BY <1>1, <1>3, <1>4, <2>2, BuiltStays
    <3> QED BY <1>1, <1>2, <1>3, <2>1, <2>2, <3>1, CandStays DEF NodeInv, Once, ToRun, Early, Finds
  <2>10. NodeInv(k)'
    BY <2>6, <2>7, <2>8, <2>9 DEF NodeInv
  <2> QED BY <1>1, <1>3, <1>4, <2>2, <2>3, <2>4, <2>5, <2>10, TaskStepKeeps
<1> QED BY <1>5, <1>6 DEF LocalStart, Local, Cand

LEMMA LocalCandidatesKeeps ==
  ASSUME RealizerInv, NEW k \in Keys, LocalCandidates(k)
  PROVE  RealizerInv'
<1> DEFINE t == Local(k)
           r == Candidates(k)
<1>1. t \in Tasks /\ t[1] = "local" /\ t[2] = k /\ Typed /\ TaskInv(t) /\ NodeInv(k)
  BY TaskNames DEF RealizerInv
<1>2. pc[t] = "await" /\ res[t] = None /\ Active(t) /\ hold[t] = 0 /\ ~Ensuring(t) /\ r # None
  BY <1>1, NoHold DEF LocalCandidates, Local, TaskInv, Way, Active, Ensuring
<1>3. UNCHANGED <<joined, first, hold, cells, table, builds, reuses, content, started, root>>
  BY DEF LocalCandidates, store
<1>4. CellsGrow /\ CellsTyped' /\ CellsTrue' /\ OneCell'
  BY <1>3, CellsSame
<1>5. pc[Cand(k)] = "done" /\ res[Cand(k)] # None
  BY <1>2, CandidatesKnown
<1>6. CASE ~Ok(r) /\ Finish(t, r) /\ UNCHANGED queue
  <2>1. Handed(t)
    BY <1>1, <1>2, <1>5, <1>6 DEF Finish, Handed, Typed
  <2>2. r \in Errors /\ hold' = [hold EXCEPT ![t] = 0]
    BY <1>1, <1>2, <1>3, <1>6, NoHold DEF Ok
  <2> QED BY <1>1, <1>2, <1>3, <1>4, <1>6, <2>1, <2>2, EndsInError
<1>7. CASE Ok(r) /\ Goto(t, "ensure") /\ queue' = [queue EXCEPT ![t] = r]
  <2>1. r = res[Cand(k)]
    BY <1>2 DEF Candidates, Ok, Local, Cand
  <2>2. /\ pc'[t] = "ensure" /\ queue'[t] = res[Cand(k)] /\ UNCHANGED res
        /\ pc' = [pc EXCEPT ![t] = "ensure"]
    BY <1>1, <1>7, <2>1 DEF Goto, Typed
  <2>3. Frame({t})
    BY <1>1, <1>2, <1>3, <1>7, <2>2 DEF Frame, Typed
  <2>4. Typed'
    BY <1>1, <1>3, <1>7, <2>2 DEF Typed, PCs
  <2>5. TaskInv(t)'
    BY <1>1, <1>2, <1>3, <2>2 DEF TaskInv, Way, Joins, Waits, There
  <2>6. Handed(t)
    BY <1>1, <1>2, <1>5, <2>2 DEF Handed, Typed
  <2>7. res'[Cand(k)] = res[Cand(k)] /\ pc'[Cand(k)] = "done"
    BY <1>5, <2>3, CandStays
  <2>8. Begins(k)' /\ Left(k)' /\ Mapped(k)'
    BY <1>1, <1>2, <1>3, <1>7, <2>1, <2>2, <2>7 DEF Begins, Left, Mapped, Fallback, Ok
  <2>9. Slots(k)'
    BY <1>1, <1>2, <1>3, <2>2, <2>3, <2>7, ResultsStay DEF NodeInv, Slots, Exact
  <2>10. Once(k)'
    <3>1. \A h : Built(k, h) => Built(k, h)'
      BY <1>1, <1>3, <1>4, <2>3, BuiltStays
    <3>2. \A h : Built(k, h) => Finds(k, h)'
      BY <1>2, <1>3, <2>2 DEF Built, Finds
    <3> QED BY <1>1, <1>2, <1>3, <1>5, <1>7, <2>1, <2>7, <3>1, <3>2 DEF NodeInv, Once, ToRun, Early, Ok
  <2>11. NodeInv(k)'
    BY <2>8, <2>9, <2>10 DEF NodeInv
  <2> QED BY <1>1, <1>3, <1>4, <2>3, <2>4, <2>5, <2>6, <2>11, TaskStepKeeps
<1> QED BY <1>6, <1>7 DEF LocalCandidates, Local

LEMMA LocalFallbackKeeps ==
  ASSUME RealizerInv, NEW k \in Keys, LocalFallback(k)
  PROVE  RealizerInv'
<1> DEFINE t == Local(k)
<1>1. t \in Tasks /\ t[1] = "local" /\ t[2] = k /\ Typed /\ TaskInv(t) /\ NodeInv(k)
  BY TaskNames DEF RealizerInv
<1>2. pc[t] = "ensure" /\ Tried(t) /\ res[t] = None /\ hold[t] = 0
  BY <1>1, NoHold DEF LocalFallback, Local, TaskInv, Way, Ensuring, Tried
<1>3. UNCHANGED <<res, joined, first, queue, hold, cells, table, builds, reuses, content, started, root>>
  BY DEF LocalFallback, store, Goto
<1>4. CellsGrow /\ CellsTyped' /\ CellsTrue' /\ OneCell'
  BY <1>3, CellsSame
<1>5. /\ pc'[t] \in {"source", "build"} /\ (pc'[t] = "source" => k \in Sources)
      /\ pc' = [pc EXCEPT ![t] = pc'[t]]
  BY <1>1 DEF LocalFallback, Goto, Local, Typed
<1>6. Frame({t})
  BY <1>1, <1>2, <1>3, <1>5 DEF Frame, Typed
<1>7. Typed'
  BY <1>1, <1>3, <1>5 DEF Typed, PCs
<1>8. TaskInv(t)'
  BY <1>1, <1>2, <1>3, <1>5 DEF TaskInv, Way, Joins, Waits, There
<1>9. Handed(t)
  BY <1>1, <1>2, <1>5 DEF Handed, Typed
<1>10. res'[Cand(k)] = res[Cand(k)] /\ pc'[Cand(k)] = "done" /\ pc[Cand(k)] = "done"
  BY <1>1, <1>2, <1>6, CandStays DEF NodeInv, Begins, Early
<1>11. Begins(k)' /\ Mapped(k)'
  BY <1>2, <1>3, <1>5, <1>10 DEF Begins, Mapped, Ok
<1>12. Left(k)'
  BY <1>1, <1>2, <1>3, <1>5, <1>10 DEF NodeInv, Left, Tried
<1>13. Slots(k)'
  BY <1>1, <1>2, <1>3, <1>5, <1>6, <1>10, ResultsStay DEF NodeInv, Slots, Exact
<1>14. Once(k)'
  <2>1. \A h : Built(k, h) => Built(k, h)'
    BY <1>1, <1>3, <1>4, <1>6, BuiltStays
  <2>2. \A h : DOMAIN <<h>> # {}
    OBVIOUS
  <2>3. \A h \in content : Finds(k, h) => Fresh(h, 0)
    BY <1>2, <2>2 DEF Finds, Early, Tried
  <2>4. \A h : Fresh(h, 0) => Fresh(h, 0)'
    BY <1>3 DEF Fresh
  <2>5. pc'[t] = "build" => \A h \in content : Finds(k, h) => Finds(k, h)'
    BY <2>3, <2>4 DEF Finds
  <2> QED BY <1>1, <1>2, <1>3, <1>5, <1>10, <2>1, <2>5 DEF NodeInv, Once, ToRun, Early
<1>15. NodeInv(k)'
  BY <1>11, <1>12, <1>13, <1>14 DEF NodeInv
<1> QED BY <1>1, <1>3, <1>4, <1>6, <1>7, <1>8, <1>9, <1>15, TaskStepKeeps

----------------------------------------------------------------------------
(* ensure_object.                                                          *)

LEMMA NewCell ==
  ASSUME RealizerInv, NEW h, cells' = Append(cells, [hash |-> h, state |-> "running"])
  PROVE  /\ Len(cells) + 1 \in Nat /\ Len(cells) + 1 # 0 /\ Len(cells) + 1 \notin DOMAIN cells
         /\ DOMAIN cells' = DOMAIN cells \cup {Len(cells) + 1}
         /\ \A c \in DOMAIN cells : cells'[c] = cells[c]
         /\ cells'[Len(cells) + 1] = [hash |-> h, state |-> "running"]
         /\ cells' \in Seq(ToSet(cells'))
<1> DEFINE e == [hash |-> h, state |-> "running"]
           S == ToSet(cells) \cup {e}
<1>1. cells \in Seq(S) /\ e \in S
  <2>1. cells \in Seq(ToSet(cells))
    BY DEF RealizerInv, CellsTyped
  <2> HIDE DEF e
  <2> QED BY <2>1
<1> HIDE DEF S, e
<1>2. /\ Len(cells) + 1 \in Nat /\ Len(cells) + 1 # 0 /\ Len(cells) + 1 \notin DOMAIN cells
      /\ DOMAIN cells' = DOMAIN cells \cup {Len(cells) + 1}
      /\ \A c \in DOMAIN cells : cells'[c] = cells[c]
      /\ cells'[Len(cells) + 1] = e
      /\ cells' \in Seq(S)
  BY <1>1 DEF e
<1>3. cells' \in Seq(ToSet(cells'))
  BY <1>2 DEF ToSet
<1> QED BY <1>2, <1>3 DEF e

\* The local task of a node meets one cell of the hash it tries.
LEMMA EnterNode ==
  ASSUME RealizerInv, NEW k \in Keys, Frame({Local(k)}), CellsGrow, OneCell', Ensuring(Local(k)),
         NEW c, c # 0, c \in table', cells'[c].hash = Upcoming(Local(k)),
         c \in table \/ cells'[c].state = "running",
         c \in table => cells'[c] = cells[c],
         hold'[Local(k)] = c,
         UNCHANGED <<pc, res, queue, builds, reuses, started>>
  PROVE  NodeInv(k)'
<1>1. NodeInv(k)
  BY DEF RealizerInv
<1>2. Begins(k)' /\ Left(k)'
  BY <1>1 DEF NodeInv, Begins, Left, Ok
<1>3. Mapped(k)'
  BY <1>1 DEF NodeInv, Mapped, Ok, CellsGrow
<1>4. Slots(k)'
  BY <1>1 DEF NodeInv, Slots, InputsKnown, Exact, Upcoming, Ok
<1>5. ASSUME NEW h \in content, Built(k, h), Finds(k, h)
      PROVE  Built(k, h)' /\ Finds(k, h)'
  <2>1. Built(k, h)'
    BY <1>5, BuiltStays, TaskNames
  <2>2. ~Tried(Local(k)) /\ pc[Local(k)] \in {"ensure", "working"} /\ queue[Local(k)] = <<h>>
    BY <1>5 DEF Ensuring, Tried, Finds, Early
  <2>3. cells'[c].hash = h
    BY <2>2 DEF Upcoming, Min
  <2>4. Fresh(h, c)'
    BY <2>3 DEF Fresh, OneCell
  <2>5. CASE pc[Local(k)] = "ensure"
    BY <2>1, <2>2, <2>4, <2>5 DEF Finds, Fresh
  <2>6. CASE pc[Local(k)] = "working"
    <3>1. Fresh(h, 0) /\ Fresh(h, 0)'
      BY <1>5, <2>6, FreshStays DEF Finds, Early
    <3>2. cells'[c].state # "absent"
      BY <2>3, <3>1 DEF Fresh
    <3> QED BY <2>1, <2>2, <2>6, <3>1, <3>2 DEF Finds, Fresh
  <2> QED BY <2>1, <2>2, <2>5, <2>6
<1>6. Once(k)'
  BY <1>1, <1>5 DEF NodeInv, Once, CellsGrow
<1> QED BY <1>2, <1>3, <1>4, <1>6 DEF NodeInv

LEMMA EnsureEnterKeeps ==
  ASSUME RealizerInv, NEW t \in Tasks, EnsureEnter(t)
  PROVE  RealizerInv'
<1> DEFINE h == Upcoming(t)
           n == Len(cells) + 1
<1>1. Typed /\ CellsTyped /\ OneCell /\ CellsTrue /\ TaskInv(t) /\ t[2] \in Keys
  BY TaskNames DEF RealizerInv
<1>2. /\ Ensuring(t) /\ pc[t] \in {"ensure", "working", "provided"} /\ res[t] = None
      /\ UNCHANGED <<pc, res, joined, first, queue, builds, reuses, content, started, root>>
  BY <1>1 DEF EnsureEnter, Ensuring, store, TaskInv, Way
<1>3. PICK c : /\ hold' = [hold EXCEPT ![t] = c]
               /\ \/ c \in table /\ cells[c].hash = h /\ UNCHANGED <<cells, table>>
                  \/ /\ \A d \in table : cells[d].hash # h
                     /\ c = n /\ table' = table \cup {n}
                     /\ cells' = Append(cells, [hash |-> h, state |-> "running"])
  <2>1. CASE \E c \in {d \in table : cells[d].hash = h} :
               hold' = [hold EXCEPT ![t] = c] /\ UNCHANGED <<cells, table>>
    BY <2>1
  <2>2. CASE /\ {d \in table : cells[d].hash = h} = {}
             /\ hold' = [hold EXCEPT ![t] = n] /\ table' = table \cup {n}
             /\ cells' = Append(cells, [hash |-> h, state |-> "running"])
    BY <2>2
  <2> QED BY <2>1, <2>2 DEF EnsureEnter
<1> HIDE DEF h, n
<1>4. /\ c \in Nat /\ c # 0 /\ c \in table' /\ c \in DOMAIN cells' /\ cells'[c].hash = h
      /\ c \in table \/ cells'[c].state = "running"
      /\ c \in table => cells'[c] = cells[c]
      /\ CellsGrow /\ CellsTyped' /\ CellsTrue' /\ OneCell'
  <2>1. CASE c \in table /\ cells[c].hash = h /\ UNCHANGED <<cells, table>>
    <3>1. c \in Nat /\ c # 0 /\ c \in DOMAIN cells
      BY <1>1, <2>1 DEF CellsTyped
    <3>2. CellsGrow /\ CellsTyped' /\ CellsTrue' /\ OneCell'
      BY <1>2, <2>1, CellsSame
    <3> QED BY <2>1, <3>1, <3>2
  <2>2. CASE /\ \A d \in table : cells[d].hash # h
             /\ c = n /\ table' = table \cup {n}
             /\ cells' = Append(cells, [hash |-> h, state |-> "running"])
    <3>1. /\ n \in Nat /\ n # 0 /\ n \notin DOMAIN cells
          /\ DOMAIN cells' = DOMAIN cells \cup {n}
          /\ \A d \in DOMAIN cells : cells'[d] = cells[d]
          /\ cells'[n] = [hash |-> h, state |-> "running"]
          /\ cells' \in Seq(ToSet(cells'))
      BY <2>2, NewCell DEF n
    <3>2. CellsGrow
      BY <1>1, <1>2, <2>2, <3>1 DEF CellsGrow, CellsTyped
    <3>3. CellsTyped'
      BY <1>1, <2>2, <3>1 DEF CellsTyped
    <3>4. CellsTrue' /\ OneCell'
      BY <1>1, <1>2, <2>2, <3>1 DEF CellsTyped, CellsTrue, OneCell
    <3> QED BY <2>2, <3>1, <3>2, <3>3, <3>4, <1>1 DEF CellsTyped
  <2> QED BY <1>3, <2>1, <2>2
<1>5. Frame({t})
  BY <1>1, <1>2, <1>3 DEF Frame, Typed
<1>6. Typed'
  BY <1>1, <1>2, <1>3, <1>4 DEF Typed
<1>7. hold'[t] = c
  BY <1>1, <1>3 DEF Typed
<1>8. TaskInv(t)'
  BY <1>1, <1>2, <1>4, <1>7 DEF TaskInv, Way, Joins, Waits, There, Ensuring, Upcoming, h
<1>9. Handed(t)
  BY <1>1, <1>2 DEF Handed, Typed
<1>10. NodeInv(t[2])'
  <2>1. CASE t = Cand(t[2])
    <3>1. pc[t] \in {"working", "provided"}
      BY <1>1, <1>2, <2>1, TaskNames DEF TaskInv, Way
    <3>2. Once(t[2])'
      BY <1>1, <1>2, <2>1, <3>1, NotStarted
    <3> QED BY <1>1, <1>5, <2>1, <3>1, <3>2, CandMoves
  <2>2. CASE t = Local(t[2])
    BY <1>1, <1>2, <1>4, <1>5, <1>7, <2>2, EnterNode DEF h
  <2> QED BY <2>1, <2>2, TaskNames
<1> QED BY <1>2, <1>4, <1>5, <1>6, <1>8, <1>9, <1>10, TaskStepKeeps

\* A step that is no task's.
LEMMA QuietStepKeeps ==
  ASSUME RealizerInv, CellsGrow, CellsTyped', CellsTrue', OneCell', RootTrue',
         UNCHANGED <<pc, res, joined, first, queue, hold, builds, reuses, started>>
  PROVE  RealizerInv'
<1>1. Frame({})
  BY DEF Frame
<1>2. (\A t \in Tasks : TaskInv(t)') /\ (\A k \in Keys : NodeInv(k)')
  BY <1>1, OtherTasks, OtherNodes
<1>3. Typed' /\ AllAsked'
  BY DEF RealizerInv, Typed, AllAsked, Active, Asked
<1> QED BY <1>2, <1>3 DEF RealizerInv

LEMMA EnsureContentKeeps ==
  ASSUME RealizerInv, NEW c \in DOMAIN cells, EnsureContent(c)
  PROVE  RealizerInv'
<1> DEFINE h == cells[c].hash
<1>1. CellsTyped /\ CellsTrue /\ OneCell /\ RootTrue
  BY DEF RealizerInv
<1>2. /\ cells[c].state = "running"
      /\ UNCHANGED <<pc, res, joined, first, queue, hold, table, builds, reuses, started, root>>
  BY DEF EnsureContent
<1>3. PICK imported \in SUBSET ({h} \cap SecondaryContent), bad \in BOOLEAN :
        /\ content' = content \cup imported
        /\ ~bad /\ ~cancelled => imported = {h} \cap SecondaryContent
        /\ cells' = [cells EXCEPT ![c].state =
                       IF cancelled THEN Cancelled
                       ELSE IF bad THEN Failed
                       ELSE IF h \in content' THEN "present" ELSE "absent"]
  BY DEF EnsureContent
<1>4. PICK s : /\ cells' = [cells EXCEPT ![c].state = s]
               /\ s # "running"
               /\ s = "present" => h \in content'
               /\ s = "absent" => h \notin content' /\ h \notin SecondaryContent
  <2> DEFINE s == IF cancelled THEN Cancelled
                  ELSE IF bad THEN Failed
                  ELSE IF h \in content' THEN "present" ELSE "absent"
  <2>1. s # "running" /\ (s = "present" => h \in content') /\ (s = "absent" => ~cancelled /\ ~bad /\ h \notin content')
    BY ErrorsAssumption
  <2>2. s = "absent" => h \notin SecondaryContent
    BY <1>3, <2>1
  <2>3. cells' = [cells EXCEPT ![c].state = s]
    BY <1>3
  <2> HIDE DEF s
  <2> QED BY <2>1, <2>2, <2>3
<1>5. content \subseteq content'
  BY <1>3
<1>6. /\ DOMAIN cells' = DOMAIN cells
      /\ \A d \in DOMAIN cells : d # c => cells'[d] = cells[d]
      /\ cells'[c] = [hash |-> h, state |-> s]
  BY <1>1, <1>4 DEF CellsTyped
<1> HIDE DEF h
<1>7. cells' \in Seq(ToSet(cells'))
  <2>1. DOMAIN cells = 1..Len(cells) /\ Len(cells) \in Nat
    BY <1>1 DEF CellsTyped
  <2>2. cells' = [d \in 1..Len(cells) |-> cells'[d]]
    BY <1>4, <2>1
  <2>3. \A d \in 1..Len(cells) : cells'[d] \in ToSet(cells')
    BY <1>6, <2>1 DEF ToSet
  <2> QED BY <2>1, <2>2, <2>3
<1>8. CellsTyped'
  BY <1>1, <1>2, <1>6, <1>7 DEF CellsTyped
<1>9. CellsGrow
  BY <1>1, <1>2, <1>4, <1>5, <1>6 DEF CellsGrow, CellsTyped, h
<1>10. CellsTrue'
  BY <1>1, <1>4, <1>5, <1>6 DEF CellsTrue
<1>11. OneCell'
  BY <1>1, <1>2, <1>4, <1>6 DEF OneCell, CellsTyped, h
<1>12. RootTrue'
  BY <1>1, <1>2 DEF RootTrue
<1> QED BY <1>2, <1>8, <1>9, <1>10, <1>11, <1>12, QuietStepKeeps

\* The hash that a task tries is one of those it has left.
LEMMA Trying ==
  ASSUME NEW t \in Tasks, Ensuring(t)
  PROVE  Min(DOMAIN queue[t]) \in DOMAIN queue[t] /\ ~Tried(t) /\ Upcoming(t) = queue[t][Min(DOMAIN queue[t])]
<1>1. PICK i \in DOMAIN queue[t] : i = Min(DOMAIN queue[t])
  BY DEF Ensuring
<1>2. Min(DOMAIN queue[t]) \in DOMAIN queue[t]
  BY <1>1
<1> QED BY <1>2 DEF Tried, Upcoming

LEMMA EnsurePresentKeeps ==
  ASSUME RealizerInv, NEW t \in Tasks, Ensuring(t), hold[t] # 0, cells[hold[t]].state = "present",
         hold' = [hold EXCEPT ![t] = 0], Goto(t, "publish"),
         UNCHANGED <<joined, first, queue, cells, table, builds, reuses, content, started, root>>
  PROVE  RealizerInv'
<1>1. Typed /\ CellsTrue /\ TaskInv(t) /\ t[2] \in Keys
  BY TaskNames DEF RealizerInv
<1>2. pc[t] \in {"ensure", "working", "provided"} /\ res[t] = None
  BY <1>1 DEF Ensuring, TaskInv, Way
<1>3. pc'[t] = "publish" /\ pc' = [pc EXCEPT ![t] = "publish"] /\ res' = res /\ hold'[t] = 0
  BY <1>1 DEF Goto, Typed
<1>4. CellsGrow /\ CellsTyped' /\ CellsTrue' /\ OneCell'
  BY CellsSame
<1>5. Frame({t})
  BY <1>1, <1>2, <1>3 DEF Frame, Typed
<1>6. Typed'
  BY <1>1, <1>3 DEF Typed, PCs
<1>7. TaskInv(t)'
  <2>1. Upcoming(t) \in content
    BY <1>1 DEF TaskInv, Waits, CellsTrue
  <2> QED BY <1>1, <1>2, <1>3, <2>1 DEF TaskInv, Way, Joins, Waits, There, Upcoming
<1>8. Handed(t)
  BY <1>1, <1>2, <1>3 DEF Handed, Typed
<1>9. NodeInv(t[2])'
  <2>1. CASE t = Cand(t[2])
    <3>1. pc[t] \in {"working", "provided"}
      BY <1>1, <1>2, <2>1, TaskNames DEF TaskInv, Way
    <3> QED BY <1>1, <1>5, <2>1, <3>1, NotStarted, CandMoves
  <2>2. CASE t = Local(t[2])
    <3> DEFINE k == t[2]
    <3>1. NodeInv(k)
      BY <1>1 DEF RealizerInv
    <3>2. pc[Cand(k)] = "done" /\ pc'[Cand(k)] = "done" /\ res'[Cand(k)] = res[Cand(k)]
      BY <1>1, <1>2, <1>5, <2>2, <3>1, CandStays DEF NodeInv, Begins, Early
    <3>3. Begins(k)' /\ Left(k)' /\ Mapped(k)'
      BY <1>2, <1>3, <2>2, <3>2 DEF Begins, Left, Mapped, Fallback, Ok
    <3>4. InputsKnown(k) \/ Exact(k, Upcoming(t))
      <4>1. CASE pc[t] = "ensure"
        BY <2>2, <3>1, <4>1, Trying DEF NodeInv, Slots, Left
      <4>2. CASE pc[t] \in {"working", "provided"}
        BY <2>2, <3>1, <4>2 DEF NodeInv, Slots
      <4> QED BY <1>2, <4>1, <4>2
    <3>5. InputsKnown(k)' \/ Exact(k, Upcoming(t))'
      BY <1>1, <1>5, <3>4, ResultsStay DEF Exact, Upcoming
    <3>6. Ok(res[Cand(k)]) => InputsKnown(k)' \/ \A i \in DOMAIN res[Cand(k)] : Exact(k, res[Cand(k)][i])
      BY <1>1, <1>2, <1>5, <2>2, <3>1, ResultsStay DEF NodeInv, Slots
    <3>7. Slots(k)'
      BY <1>3, <2>2, <3>2, <3>5, <3>6 DEF Slots, Exact
    <3>8. Once(k)'
      BY <1>3, <2>2, <3>1, <3>2 DEF NodeInv, Once, ToRun, Early
    <3> QED BY <3>3, <3>7, <3>8 DEF NodeInv
  <2> QED BY <2>1, <2>2, TaskNames
<1> QED BY <1>4, <1>5, <1>6, <1>7, <1>8, <1>9, TaskStepKeeps

LEMMA EnsureAbsentKeeps ==
  ASSUME RealizerInv, NEW t \in Tasks, Ensuring(t), hold[t] # 0, cells[hold[t]].state = "absent",
         hold' = [hold EXCEPT ![t] = 0],
         queue' = [queue EXCEPT ![t] = Restrict(@, DOMAIN @ \ {Min(DOMAIN @)})],
         DropCell(hold[t]),
         UNCHANGED <<pc, res, joined, first, cells, builds, reuses, content, started, root>>
  PROVE  RealizerInv'
<1> DEFINE m == Min(DOMAIN queue[t])
<1>1. Typed /\ CellsTrue /\ CellsTyped /\ OneCell /\ TaskInv(t) /\ t[2] \in Keys
  BY TaskNames DEF RealizerInv
<1>2. pc[t] \in {"ensure", "working", "provided"} /\ res[t] = None
  BY <1>1 DEF Ensuring, TaskInv, Way
<1>3. /\ hold'[t] = 0 /\ DOMAIN queue'[t] = DOMAIN queue[t] \ {m}
      /\ \A i \in DOMAIN queue'[t] : queue'[t][i] = queue[t][i]
  BY <1>1 DEF Typed, Restrict
<1>4. table' = table \ {hold[t]} /\ hold[t] \in DOMAIN cells /\ cells[hold[t]].hash = queue[t][m]
  BY <1>1, Trying DEF DropCell, TaskInv, Waits
<1>5. CellsGrow /\ CellsTyped' /\ CellsTrue' /\ OneCell'
  <2>1. CellsGrow
    BY <1>4 DEF CellsGrow
  <2>2. CellsTyped'
    BY <1>1, <1>4 DEF CellsTyped, ToSet
  <2> QED BY <1>1, <1>4, <2>1, <2>2 DEF CellsTyped, CellsTrue, OneCell
<1>6. Frame({t})
  BY <1>1, <1>2 DEF Frame, Typed
<1>7. Typed'
  BY <1>1 DEF Typed
<1>8. TaskInv(t)'
  BY <1>1, <1>2, <1>3 DEF TaskInv, Way, Joins, Waits, There
<1>9. Handed(t)
  BY <1>1, <1>2 DEF Handed, Typed
<1>10. NodeInv(t[2])'
  <2>1. CASE t = Cand(t[2])
    <3>1. pc[t] \in {"working", "provided"}
      BY <1>1, <1>2, <2>1, TaskNames DEF TaskInv, Way
    <3> QED BY <1>1, <1>6, <2>1, <3>1, NotStarted, CandMoves
  <2>2. CASE t = Local(t[2])
    <3> DEFINE k == t[2]
    <3>1. NodeInv(k)
      BY <1>1 DEF RealizerInv
    <3>2. Begins(k)' /\ Mapped(k)'
      BY <3>1 DEF NodeInv, Begins, Mapped, Ok
    <3>3. Left(k)'
      <4>1. queue[t][m] \notin SecondaryContent
        BY <1>1, <1>4 DEF CellsTrue
      <4> QED BY <1>3, <2>2, <3>1, <4>1 DEF NodeInv, Left, Ok
    <3>4. Slots(k)'
      BY <1>2, <2>2, <3>1 DEF NodeInv, Slots, InputsKnown, Exact, Ok
    <3>5. ASSUME NEW h \in content, Built(k, h), Finds(k, h)
          PROVE  Built(k, h)' /\ Finds(k, h)'
      <4>1. Built(k, h)'
        BY <1>1, <1>5, <1>6, <3>5, BuiltStays
      <4>2. pc[t] = "ensure" /\ queue[t] = <<h>> /\ Fresh(h, hold[t])
        BY <1>2, <2>2, <3>5, Trying DEF Finds, Early
      <4>3. m = 1 /\ DOMAIN queue[t] = {1}
        BY <4>2, Trying
      <4>4. Tried(t)' /\ Fresh(h, 0)'
        BY <1>3, <1>4, <4>2, <4>3 DEF Tried, Fresh
      <4> QED BY <2>2, <4>1, <4>2, <4>4 DEF Finds
    <3>6. Once(k)'
      BY <1>2, <2>2, <3>1, <3>5 DEF NodeInv, Once
    <3> QED BY <3>2, <3>3, <3>4, <3>6 DEF NodeInv
  <2> QED BY <2>1, <2>2, TaskNames
<1> QED BY <1>5, <1>6, <1>7, <1>8, <1>9, <1>10, TaskStepKeeps

LEMMA EnsureLeaveKeeps ==
  ASSUME RealizerInv, NEW t \in Tasks, EnsureLeave(t)
  PROVE  RealizerInv'
<1> DEFINE s == cells[hold[t]].state
<1>1. /\ Ensuring(t) /\ hold[t] # 0 /\ hold' = [hold EXCEPT ![t] = 0]
      /\ UNCHANGED <<joined, first, cells, builds, reuses, content, started, root>>
      /\ \/ s = "present" /\ Goto(t, "publish") /\ UNCHANGED <<queue, table>>
         \/ /\ s = "absent"
            /\ queue' = [queue EXCEPT ![t] = Restrict(@, DOMAIN @ \ {Min(DOMAIN @)})]
            /\ DropCell(hold[t])
            /\ UNCHANGED <<pc, res>>
         \/ s \in Errors /\ Finish(t, s) /\ UNCHANGED <<queue, table>>
  BY DEF EnsureLeave, store
<1>2. CASE s \in Errors /\ Finish(t, s) /\ UNCHANGED <<queue, table>>
  <2>1. CellsGrow /\ CellsTyped' /\ CellsTrue' /\ OneCell'
    BY <1>1, <1>2, CellsSame
  <2>2. Active(t) /\ Handed(t)
    BY <1>1, <1>2 DEF Active, Ensuring, Handed, Finish, RealizerInv, Typed
  <2> QED BY <1>1, <1>2, <2>1, <2>2, EndsInError
<1> QED BY <1>1, <1>2, EnsurePresentKeeps, EnsureAbsentKeeps

----------------------------------------------------------------------------
(* publish_cached and publish_cached_builder.                              *)

\* A task that ends with a result which it has published.
LEMMA Delivers ==
  ASSUME RealizerInv, NEW t \in Tasks, NEW r, Finish(t, r), Active(t), ~Ensuring(t), Handed(t),
         UNCHANGED <<joined, first, queue, hold, started, root>>,
         CellsGrow, CellsTyped', CellsTrue', OneCell',
         DOMAIN builds' = Keys, \A k \in Keys \ {t[2]} : builds'[k] = builds[k],
         \A q \in DOMAIN reuses : q[1] # t[2] => q \in DOMAIN reuses' /\ reuses'[q] = reuses[q],
         t[2] \in Sources \/ (r[1] \in content' /\ builds'[t[2]] = r[1]),
         t = Cand(t[2]) => InputsKnown(t[2]) /\ Once(t[2])',
         t = Local(t[2]) => pc[Cand(t[2])] = "done"
  PROVE  RealizerInv'
<1>1. Typed /\ TaskInv(t) /\ t[2] \in Keys /\ res[t] = None /\ hold[t] = 0
  BY NoHold, TaskNames DEF RealizerInv, TaskInv, Way, Active
<1>2. Frame({t})
  <2>1. \A k \in Keys : Cand(k) \notin {t} /\ Local(k) \notin {t} => k # t[2]
    BY TaskNames
  <2>2. \A q \in DOMAIN reuses : Cand(q[1]) \notin {t} /\ Local(q[1]) \notin {t} => q[1] # t[2]
    BY TaskNames
  <2> QED BY <1>1, <2>1, <2>2 DEF Frame, Finish, Typed, Active
<1>3. Typed'
  BY <1>1 DEF Finish, Typed, PCs
<1>4. pc'[t] = "done" /\ res'[t] = r
  BY <1>1 DEF Finish, Typed
<1>5. TaskInv(t)'
  BY <1>1, <1>4 DEF TaskInv, Way, Joins, Waits, There
<1>6. NodeInv(t[2])'
  <2>1. CASE t = Cand(t[2])
    BY <1>1, <1>2, <2>1, CandMoves
  <2>2. CASE t = Local(t[2])
    <3>1. pc'[Cand(t[2])] = "done" /\ res'[Cand(t[2])] = res[Cand(t[2])]
      BY <1>1, <1>2, <2>2, CandStays
    <3>2. Begins(t[2])' /\ Left(t[2])' /\ Slots(t[2])'
      BY <1>4, <2>2, <3>1 DEF Begins, Left, Slots, Fallback
    <3>3. Mapped(t[2])'
      BY <1>4, <2>2 DEF Mapped
    <3>4. Once(t[2])'
      BY <1>1, <1>4, <2>2, <3>1 DEF RealizerInv, NodeInv, Once, ToRun, Early
    <3> QED BY <3>2, <3>3, <3>4 DEF NodeInv
  <2> QED BY <2>1, <2>2, TaskNames
<1> QED BY <1>2, <1>3, <1>5, <1>6, TaskStepKeeps

LEMMA PublishSlotsKeeps ==
  ASSUME RealizerInv, NEW t \in Tasks, PublishSlots(t)
  PROVE  RealizerInv'
<1>1. Typed /\ TaskInv(t) /\ t[2] \in Keys
  BY TaskNames DEF RealizerInv
<1>2. /\ pc[t] = "publish" /\ Spawn(t, "cand", "known")
      /\ UNCHANGED <<res, queue, hold, cells, table, builds, reuses, content, started, root>>
  BY DEF PublishSlots, store
<1>3. ~Ensuring(t) /\ res[t] = None
  BY <1>1, <1>2 DEF Ensuring, TaskInv, Way
<1>4. CellsGrow /\ CellsTyped' /\ CellsTrue' /\ OneCell'
  BY <1>2, CellsSame
<1>5. /\ pc' \in [Tasks -> PCs] /\ DOMAIN joined' = Tasks /\ first' \in [Tasks -> Errors \cup {None}]
      /\ pc'[t] = "known" /\ joined'[t] = [i \in 1..Len(Inputs[t[2]]) |-> None]
      /\ \A u \in Tasks \ {t} : joined'[u] = joined[u] /\ first'[u] = first[u]
      /\ \A u \in Tasks \ {t} : pc'[u] = pc[u] \/ (pc[u] = "idle" /\ pc'[u] = "start")
      /\ \A u \in Tasks : pc[u] = "idle" /\ pc'[u] = "start" => u[1] = "cand" /\ Contains(Inputs[t[2]], u[2])
  BY <1>2, Spawned
<1>6. Frame({t})
  BY <1>2, <1>3, <1>5 DEF Frame
<1>7. Typed'
  BY <1>1, <1>2, <1>5 DEF Typed
<1>8. TaskInv(t)'
  BY <1>1, <1>2, <1>3, <1>5, NoHold DEF TaskInv, Way, Joins, Waits, There, Upcoming
<1>9. Handed(t)
  BY <1>2, <1>5 DEF Handed, Asked, Asking
<1>10. NodeInv(t[2])'
  <2>1. CASE t = Cand(t[2])
    BY <1>1, <1>2, <1>6, <2>1, NotStarted, CandMoves
  <2>2. CASE t = Local(t[2])
    <3> DEFINE k == t[2]
    <3>1. NodeInv(k)
      BY <1>1 DEF RealizerInv
    <3>2. pc[Cand(k)] = "done" /\ pc'[Cand(k)] = "done" /\ res'[Cand(k)] = res[Cand(k)]
      BY <1>1, <1>2, <1>6, <2>2, <3>1, CandStays DEF NodeInv, Begins, Early
    <3>3. Begins(k)' /\ Left(k)' /\ Mapped(k)'
      BY <1>2, <1>3, <1>5, <2>2, <3>2 DEF Begins, Left, Mapped, Fallback, Ok
    <3>4. Slots(k)'
      BY <1>1, <1>2, <1>5, <1>6, <2>2, <3>1, <3>2, ResultsStay DEF NodeInv, Slots, Exact
    <3>5. Once(k)'
      BY <1>2, <1>5, <2>2, <3>1, <3>2 DEF NodeInv, Once, ToRun, Early
    <3> QED BY <3>3, <3>4, <3>5 DEF NodeInv
  <2> QED BY <2>1, <2>2, TaskNames
<1> QED BY <1>2, <1>4, <1>6, <1>7, <1>8, <1>9, <1>10, TaskStepKeeps

\* A local task past its beginnings has the candidates of its node.
LEMMA CandDone ==
  ASSUME RealizerInv, NEW k \in Keys, pc[Local(k)] \notin Early \cup {"done"}
  PROVE  pc[Cand(k)] = "done"
BY DEF RealizerInv, NodeInv, Begins

LEMMA PublishReuseKeeps ==
  ASSUME RealizerInv, NEW t \in Tasks, PublishReuse(t)
  PROVE  RealizerInv'
<1> DEFINE k == t[2]
           h == Upcoming(t)
           keys == ToSet(ReuseKeysOf(k, joined[t]))
           same == {r \in keys : (r \in DOMAIN reuses /\ reuses[r] = h) \/ Contains(SecondaryReuses[r], h)}
<1>1. Typed /\ TaskInv(t) /\ k \in Keys
  BY TaskNames DEF RealizerInv
<1>2. /\ Joined(t, "known") /\ Finish(t, <<h>>) /\ builds' = [builds EXCEPT ![k] = h]
      /\ reuses' = [r \in same \cup DOMAIN reuses |-> IF r \in same THEN h ELSE reuses[r]]
      /\ UNCHANGED <<joined, first, queue, hold, cells, table, content, started, root>>
  BY DEF PublishReuse
<1>3. \A r \in same : r[1] = k
  BY DEF ReuseKeysOf, ToSet
<1> HIDE DEF same
<1>4. \A q \in DOMAIN reuses : q[1] # k => q \in DOMAIN reuses' /\ reuses'[q] = reuses[q]
  BY <1>2, <1>3
<1>5. /\ pc[t] = "known" /\ Active(t) /\ ~Ensuring(t)
      /\ \A i \in 1..Len(Inputs[k]) : pc[Cand(Inputs[k][i])] = "done"
  BY <1>2, AllJoined DEF Active, Ensuring
<1>6. Handed(t)
  BY <1>1, <1>2, <1>5 DEF Handed, Finish, Typed
<1>7. CellsGrow /\ CellsTyped' /\ CellsTrue' /\ OneCell'
  BY <1>2, CellsSame
<1>8. h \in content' /\ builds'[k] = h /\ DOMAIN builds' = Keys /\ \A j \in Keys \ {k} : builds'[j] = builds[j]
  BY <1>1, <1>2, <1>5 DEF TaskInv, There, Typed
<1>9. t = Cand(k) => InputsKnown(k) /\ Once(k)'
  BY <1>1, <1>2, <1>5, NotStarted DEF InputsKnown
<1>10. t = Local(k) => pc[Cand(k)] = "done"
  BY <1>1, <1>5, CandDone DEF Early
<1>11. <<h>>[1] \in content' /\ builds'[k] = <<h>>[1]
  BY <1>8
<1> HIDE DEF h, k
<1> QED BY <1>2, <1>4, <1>5, <1>6, <1>7, <1>8, <1>9, <1>10, <1>11, Delivers DEF k

LEMMA PublishExactKeeps ==
  ASSUME RealizerInv, NEW t \in Tasks, PublishExact(t)
  PROVE  RealizerInv'
<1> DEFINE k == t[2]
           h == Upcoming(t)
<1>1. Typed /\ TaskInv(t) /\ k \in Keys /\ NodeInv(k)
  BY TaskNames DEF RealizerInv
<1>2. /\ pc[t] = "publish" /\ Finish(t, <<h>>)
      /\ builds' = IF k \in Sources /\ h # Declared[k] THEN builds ELSE [builds EXCEPT ![k] = h]
      /\ UNCHANGED <<joined, first, queue, hold, cells, table, reuses, content, started, root>>
  BY DEF PublishExact
<1>3. Active(t) /\ ~Ensuring(t) /\ Handed(t)
  BY <1>1, <1>2 DEF Active, Ensuring, Handed, Finish, Typed
<1>4. CellsGrow /\ CellsTyped' /\ CellsTrue' /\ OneCell'
  BY <1>2, CellsSame
<1>5. h \in content' /\ DOMAIN builds' = Keys /\ (k \in Sources \/ builds'[k] = h)
      /\ \A j \in Keys \ {k} : builds'[j] = builds[j]
  BY <1>1, <1>2 DEF TaskInv, There, Typed
<1>6. t = Cand(k) => InputsKnown(k) /\ Once(k)'
  BY <1>1, <1>2, NotStarted DEF NodeInv, Slots
<1>7. t = Local(k) => pc[Cand(k)] = "done"
  BY <1>1, <1>2, CandDone DEF Early
<1>8. k \in Sources \/ (<<h>>[1] \in content' /\ builds'[k] = <<h>>[1])
  BY <1>5
<1> HIDE DEF h, k
<1> QED BY <1>2, <1>3, <1>4, <1>5, <1>6, <1>7, <1>8, Delivers DEF k

----------------------------------------------------------------------------
(* build_builder, for either kind of task.                                 *)

LEMMA BuildStartKeeps ==
  ASSUME RealizerInv, NEW t \in Tasks, BuildStart(t)
  PROVE  RealizerInv'
<1>1. Typed /\ TaskInv(t) /\ t[2] \in Keys
  BY TaskNames DEF RealizerInv
<1>2. /\ pc[t] = "build"
      /\ UNCHANGED <<queue, hold, cells, table, builds, reuses, content, started, root>>
  BY DEF BuildStart, store
<1>3. ~Ensuring(t) /\ res[t] = None /\ Active(t) /\ hold[t] = 0 /\ hold' = [hold EXCEPT ![t] = 0]
  BY <1>1, <1>2, NoHold DEF Ensuring, TaskInv, Way, Active
<1>4. CellsGrow /\ CellsTyped' /\ CellsTrue' /\ OneCell'
  BY <1>2, CellsSame
<1>5. CASE Finish(t, Cancelled) /\ UNCHANGED <<joined, first>>
  <2>1. Handed(t) /\ Cancelled \in Errors
    BY <1>1, <1>2, <1>5 DEF Handed, Finish, Typed, Errors
  <2> QED BY <1>2, <1>3, <1>4, <1>5, <2>1, EndsInError
<1>6. CASE Spawn(t, "local", "inputs") /\ UNCHANGED res
  <2>1. /\ pc' \in [Tasks -> PCs] /\ DOMAIN joined' = Tasks /\ first' \in [Tasks -> Errors \cup {None}]
        /\ pc'[t] = "inputs" /\ joined'[t] = [i \in 1..Len(Inputs[t[2]]) |-> None]
        /\ \A u \in Tasks \ {t} : joined'[u] = joined[u] /\ first'[u] = first[u]
        /\ \A u \in Tasks \ {t} : pc'[u] = pc[u] \/ (pc[u] = "idle" /\ pc'[u] = "start")
        /\ \A u \in Tasks : pc[u] = "idle" /\ pc'[u] = "start" => u[1] = "local" /\ Contains(Inputs[t[2]], u[2])
    BY <1>6, Spawned
  <2>2. Frame({t})
    BY <1>2, <1>3, <1>6, <2>1 DEF Frame
  <2>3. Typed'
    BY <1>1, <1>2, <1>6, <2>1 DEF Typed
  <2>4. TaskInv(t)'
    BY <1>1, <1>2, <1>3, <1>6, <2>1 DEF TaskInv, Way, Joins, Waits, There
  <2>5. Handed(t)
    BY <1>2, <2>1 DEF Handed, Asked, Asking
  <2>6. NodeInv(t[2])'
    <3>1. CASE t = Cand(t[2])
      BY <1>1, <1>2, <2>2, <3>1, NotStarted, CandMoves
    <3>2. CASE t = Local(t[2])
      <4> DEFINE k == t[2]
      <4>1. NodeInv(k)
        BY <1>1 DEF RealizerInv
      <4>2. pc[Cand(k)] = "done" /\ pc'[Cand(k)] = "done" /\ res'[Cand(k)] = res[Cand(k)]
        BY <1>1, <1>2, <2>2, <3>2, CandStays, CandDone DEF Early
      <4>3. Begins(k)' /\ Left(k)' /\ Mapped(k)'
        BY <1>2, <1>3, <1>6, <2>1, <3>2, <4>1, <4>2 DEF NodeInv, Begins, Left, Mapped, Fallback, Ok
      <4>4. Slots(k)'
        BY <1>1, <1>2, <2>1, <2>2, <3>2, <4>1, <4>2, ResultsStay DEF NodeInv, Slots, Exact
      <4>5. \A h : Built(k, h) => Built(k, h)'
        BY <1>1, <1>2, <1>4, <2>2, BuiltStays
      <4>6. \A h \in content : Finds(k, h) => Finds(k, h)'
        <5>1. \A h : Fresh(h, 0) => Fresh(h, 0)'
          BY <1>2 DEF Fresh
        <5> QED BY <1>2, <2>1, <3>2, <5>1 DEF Finds, Early
      <4>7. Once(k)'
        BY <1>2, <2>1, <3>2, <4>1, <4>2, <4>5, <4>6 DEF NodeInv, Once, ToRun, Early
      <4> QED BY <4>3, <4>4, <4>7 DEF NodeInv
    <3> QED BY <3>1, <3>2, TaskNames
  <2> QED BY <1>2, <1>4, <2>2, <2>3, <2>4, <2>5, <2>6, TaskStepKeeps
<1> QED BY <1>5, <1>6 DEF BuildStart

\* A task that goes on with other hashes to try, or without: what such a step
\* leaves to show is what it does to the builds of the node.
LEMMA GoesOn ==
  ASSUME RealizerInv, NEW t \in Tasks, NEW p \in {"working", "provided", "running"},
         pc[t] \in {"inputs", "working", "provided"}, ~Ensuring(t), Goto(t, p), Handed(t),
         \A i \in DOMAIN joined[t] : joined[t][i] # None,
         DOMAIN queue' = Tasks, \A u \in Tasks \ {t} : queue'[u] = queue[u],
         started' \in [Keys -> Nat], \A k \in Keys \ {t[2]} : started'[k] = started[k],
         UNCHANGED <<joined, first, hold, cells, table, builds, reuses, content, root>>,
         InputsKnown(t[2]),
         (Frame({t}) /\ CellsGrow) => Once(t[2])'
  PROVE  RealizerInv'
<1>1. Typed /\ TaskInv(t) /\ t[2] \in Keys /\ res[t] = None /\ hold[t] = 0
  BY NoHold, TaskNames DEF RealizerInv, TaskInv, Way
<1>2. pc' = [pc EXCEPT ![t] = p] /\ pc'[t] = p /\ UNCHANGED res
  BY <1>1 DEF Goto, Typed
<1>3. CellsGrow /\ CellsTyped' /\ CellsTrue' /\ OneCell'
  BY CellsSame
<1>4. Frame({t})
  <2>1. \A k \in Keys : Cand(k) \notin {t} /\ Local(k) \notin {t} => k # t[2]
    BY TaskNames
  <2> QED BY <1>1, <1>2, <2>1 DEF Frame, Typed
<1>5. Typed'
  BY <1>1, <1>2 DEF Typed, PCs
<1>6. TaskInv(t)'
  BY <1>1, <1>2 DEF TaskInv, Way, Joins, Waits, There
<1>7. NodeInv(t[2])'
  <2>1. CASE t = Cand(t[2])
    BY <1>1, <1>3, <1>4, <2>1, CandMoves
  <2>2. CASE t = Local(t[2])
    <3> DEFINE k == t[2]
    <3>1. NodeInv(k)
      BY <1>1 DEF RealizerInv
    <3>2. pc[Cand(k)] = "done" /\ pc'[Cand(k)] = "done" /\ res'[Cand(k)] = res[Cand(k)]
      BY <1>1, <1>4, <2>2, CandStays, CandDone DEF Early
    <3>3. Begins(k)' /\ Left(k)' /\ Mapped(k)'
      BY <1>1, <1>2, <2>2, <3>1, <3>2 DEF NodeInv, Begins, Left, Mapped, Fallback, Ok
    <3>4. Slots(k)'
      BY <1>1, <1>4, ResultsStay, <1>2, <2>2 DEF Slots
    <3> QED BY <1>3, <1>4, <3>3, <3>4 DEF NodeInv
  <2> QED BY <2>1, <2>2, TaskNames
<1> QED BY <1>3, <1>4, <1>5, <1>6, <1>7, TaskStepKeeps

LEMMA BuildWorkingReuseKeeps ==
  ASSUME RealizerInv, NEW t \in Tasks, BuildWorkingReuse(t)
  PROVE  RealizerInv'
<1> DEFINE k == t[2]
<1>1. Typed /\ TaskInv(t) /\ k \in Keys /\ NodeInv(k)
  BY TaskNames DEF RealizerInv
<1>2. /\ Joined(t, "inputs") /\ first[t] = None /\ Goto(t, "working")
      /\ queue' = [queue EXCEPT ![t] = WorkingReuse(ActualKey(t))]
      /\ UNCHANGED <<joined, first, hold, cells, table, builds, reuses, content, started, root>>
  BY DEF BuildWorkingReuse, store
<1>3. /\ pc[t] = "inputs" /\ ~Ensuring(t) /\ DOMAIN joined[t] = 1..Len(Inputs[k])
      /\ \A i \in 1..Len(Inputs[k]) : pc[Local(Inputs[k][i])] = "done"
      /\ \A i \in 1..Len(Inputs[k]) :
           joined[t][i] # None /\ joined[t][i] = res[Local(Inputs[k][i])] /\ Ok(joined[t][i])
  <2>1. /\ pc[t] = "inputs" /\ DOMAIN joined[t] = 1..Len(Inputs[k])
        /\ \A i \in 1..Len(Inputs[k]) : pc[Local(Inputs[k][i])] = "done"
    BY <1>2, AllJoined
  <2>2. \A i \in 1..Len(Inputs[k]) : joined[t][i] # None
    BY <1>2, <2>1 DEF Joined
  <2>3. \A i \in 1..Len(Inputs[k]) : joined[t][i] = res[Local(Inputs[k][i])] /\ Ok(joined[t][i])
    BY <1>1, <1>2, <2>1, <2>2 DEF TaskInv, Joins
  <2> QED BY <2>1, <2>2, <2>3 DEF Ensuring
<1>4. pc'[t] = "working" /\ UNCHANGED res /\ queue'[t] = WorkingReuse(ActualKey(t))
  BY <1>1, <1>2 DEF Goto, Typed
<1>5. Handed(t)
  BY <1>1, <1>2, <1>3 DEF Handed, Goto, Typed
<1>6. InputsKnown(k)
  <2>1. \A i \in 1..Len(Inputs[k]) : pc[Cand(Inputs[k][i])] = "done"
    BY <1>1, <1>3, InputNames DEF RealizerInv, NodeInv, Begins
  <2> QED BY <2>1 DEF InputsKnown
<1>7. ASSUME Frame({t}), CellsGrow
      PROVE  Once(k)'
  <2>1. CASE t = Cand(k)
    BY <1>1, <1>2, <1>3, <2>1, NotStarted
  <2>2. CASE t = Local(k)
    <3>1. pc[Cand(k)] = "done" /\ pc'[Cand(k)] = "done" /\ res'[Cand(k)] = res[Cand(k)]
      BY <1>1, <1>3, <1>7, <2>2, CandStays, CandDone DEF Early
    <3>2. ASSUME NEW h \in content, Built(k, h), Finds(k, h)
          PROVE  Built(k, h)' /\ Finds(k, h)'
      <4>1. Built(k, h)'
        BY <1>1, <1>2, <1>7, <3>2, BuiltStays
      <4>2. Fresh(h, 0) /\ Fresh(h, 0)'
        BY <1>2, <1>3, <2>2, <3>2 DEF Finds, Early, Fresh
      <4>3. ActualKey(t) = ActualKey(Cand(k))
        <5>1. DOMAIN joined[Cand(k)] = 1..Len(Inputs[k])
          BY <3>2 DEF Built
        <5>2. \A i \in 1..Len(Inputs[k]) : joined[Cand(k)][i] = joined[t][i]
          BY <1>3, <3>2 DEF Built
        <5> QED BY <1>1, <1>3, <5>1, <5>2, TaskNames DEF ActualKey
      <4>4. queue'[t] = <<h>>
        BY <1>4, <3>2, <4>3 DEF WorkingReuse, Built
      <4>5. hold'[t] = 0
        BY <1>2, <1>3, NoHold
      <4> QED BY <1>4, <2>2, <4>1, <4>2, <4>4, <4>5 DEF Finds
    <3> QED BY <1>1, <1>2, <1>3, <1>4, <2>2, <3>1, <3>2 DEF NodeInv, Once, ToRun, Early
  <2> QED BY <2>1, <2>2, TaskNames
<1>8. /\ DOMAIN queue' = Tasks /\ (\A u \in Tasks \ {t} : queue'[u] = queue[u])
      /\ started' \in [Keys -> Nat] /\ (\A j \in Keys \ {k} : started'[j] = started[j])
  BY <1>1, <1>2 DEF Typed
<1> QED BY <1>2, <1>3, <1>5, <1>6, <1>7, <1>8, GoesOn

\* What its candidate task has built, a local task that has tried the working
\* mapping has found.
LEMMA NotBuilt ==
  ASSUME RealizerInv, NEW k \in Keys, pc[Local(k)] \in {"working", "provided"}, Tried(Local(k))
  PROVE  started[k] = 0
<1>1. NodeInv(k) /\ Typed
  BY DEF RealizerInv
<1>2. \A h : DOMAIN <<h>> # {}
  OBVIOUS
<1>3. \A h : ~Finds(k, h)
  BY <1>2 DEF Finds, Early, Tried
<1>4. started[k] # 1
  BY <1>1, <1>3 DEF NodeInv, Once, ToRun, Early
<1> QED BY <1>1, <1>4 DEF NodeInv, Once, Typed

LEMMA BuildProvidedReuseKeeps ==
  ASSUME RealizerInv, NEW t \in Tasks, BuildProvidedReuse(t)
  PROVE  RealizerInv'
<1> DEFINE k == t[2]
<1>1. Typed /\ TaskInv(t) /\ k \in Keys /\ NodeInv(k)
  BY TaskNames DEF RealizerInv
<1>2. /\ pc[t] = "working" /\ Tried(t) /\ Goto(t, "provided")
      /\ queue' = [queue EXCEPT ![t] = SecondaryReuses[ActualKey(t)]]
      /\ UNCHANGED <<joined, first, hold, cells, table, builds, reuses, content, started, root>>
  BY DEF BuildProvidedReuse, store
<1>3. ~Ensuring(t) /\ \A i \in DOMAIN joined[t] : joined[t][i] # None
  BY <1>1, <1>2 DEF Ensuring, Tried, TaskInv, Joins
<1>4. Handed(t)
  BY <1>1, <1>2 DEF Handed, Goto, Typed
<1>5. InputsKnown(k)
  BY <1>1, <1>2, TaskNames DEF NodeInv, Slots
<1>6. ASSUME Frame({t}), CellsGrow
      PROVE  Once(k)'
  <2>1. CASE t = Cand(k)
    BY <1>1, <1>2, <2>1, NotStarted
  <2>2. CASE t = Local(k)
    <3>1. started'[k] = 0
      BY <1>1, <1>2, <2>2, NotBuilt
    <3> QED BY <3>1 DEF Once
  <2> QED BY <2>1, <2>2, TaskNames
<1>7. /\ DOMAIN queue' = Tasks /\ (\A u \in Tasks \ {t} : queue'[u] = queue[u])
      /\ started' \in [Keys -> Nat] /\ (\A j \in Keys \ {k} : started'[j] = started[j])
  BY <1>1, <1>2 DEF Typed
<1> QED BY <1>2, <1>3, <1>4, <1>5, <1>6, <1>7, GoesOn

LEMMA ExecuteStartKeeps ==
  ASSUME RealizerInv, NEW t \in Tasks, ExecuteStart(t)
  PROVE  RealizerInv'
<1> DEFINE k == t[2]
<1>1. Typed /\ TaskInv(t) /\ k \in Keys /\ NodeInv(k)
  BY TaskNames DEF RealizerInv
<1>2. /\ pc[t] = "provided" /\ Tried(t)
      /\ UNCHANGED <<joined, first, queue, hold, cells, table, builds, reuses, content, root>>
  BY DEF ExecuteStart, store
<1>3. /\ ~Ensuring(t) /\ Active(t) /\ hold' = [hold EXCEPT ![t] = 0]
      /\ \A i \in DOMAIN joined[t] : joined[t][i] # None
  BY <1>1, <1>2, NoHold DEF Ensuring, Tried, Active, TaskInv, Joins
<1>4. CASE Finish(t, Cancelled) /\ UNCHANGED started
  <2>1. Handed(t) /\ Cancelled \in Errors
    BY <1>1, <1>2, <1>4 DEF Handed, Finish, Typed, Errors
  <2>2. CellsGrow /\ CellsTyped' /\ CellsTrue' /\ OneCell'
    BY <1>2, CellsSame
  <2> QED BY <1>2, <1>3, <1>4, <2>1, <2>2, EndsInError
<1>5. CASE Goto(t, "running") /\ started' = [started EXCEPT ![k] = @ + 1]
  <2>1. Handed(t)
    BY <1>1, <1>2, <1>5 DEF Handed, Goto, Typed
  <2>2. started[k] = 0
    <3>1. CASE t = Cand(k)
      BY <1>1, <1>2, <3>1 DEF NodeInv, Once
    <3>2. CASE t = Local(k)
      BY <1>1, <1>2, <3>2, NotBuilt
    <3> QED BY <3>1, <3>2, TaskNames
  <2>3. started'[k] = 1 /\ started' \in [Keys -> Nat] /\ \A j \in Keys \ {k} : started'[j] = started[j]
    BY <1>1, <1>5, <2>2 DEF Typed
  <2>4. InputsKnown(k)
    BY <1>1, <1>2, TaskNames DEF NodeInv, Slots
  <2>5. pc'[t] = "running"
    BY <1>1, <1>5 DEF Goto, Typed
  <2>6. ASSUME Frame({t})
        PROVE  Once(k)'
    <3>1. CASE t = Cand(k)
      <4>1. pc[Local(k)] \in Early \cup {"done"}
        BY <1>1, <1>2, <3>1, CandFirst
      <4>2. pc'[Local(k)] \in Early \cup {"done"}
        BY <1>1, <2>6, <3>1, <4>1, TaskNames DEF Frame, Early
      <4> QED BY <2>3, <2>5, <3>1, <4>2 DEF Once, ToRun, Early
    <3>2. CASE t = Local(k)
      <4>1. pc'[Cand(k)] = "done"
        BY <1>1, <1>2, <2>6, <3>2, CandStays, CandDone DEF Early
      <4> QED BY <2>3, <2>5, <3>2, <4>1 DEF Once, ToRun, Early
    <3> QED BY <3>1, <3>2, TaskNames
  <2> QED BY <1>1, <1>2, <1>3, <1>5, <2>1, <2>3, <2>4, <2>6, GoesOn DEF Typed
<1> QED BY <1>4, <1>5 DEF ExecuteStart

LEMMA ExecuteDoneKeeps ==
  ASSUME RealizerInv, NEW t \in Tasks, ExecuteDone(t)
  PROVE  RealizerInv'
<1> DEFINE k == t[2]
           q == ActualKey(t)
<1>1. Typed /\ TaskInv(t) /\ k \in Keys /\ NodeInv(k)
  BY TaskNames DEF RealizerInv
<1>2. /\ pc[t] = "running"
      /\ UNCHANGED <<joined, first, queue, hold, cells, table, started, root>>
  BY DEF ExecuteDone
<1>3. PICK h : /\ content' = content \cup {h} /\ builds' = [builds EXCEPT ![k] = h]
               /\ reuses' = [r \in DOMAIN reuses \cup {q} |-> IF r = q THEN h ELSE reuses[r]]
               /\ Finish(t, <<h>>)
  BY DEF ExecuteDone
<1>4. ~Ensuring(t) /\ Active(t)
  BY <1>2 DEF Ensuring, Active
<1>5. Handed(t)
  BY <1>1, <1>2, <1>3 DEF Handed, Finish, Typed
<1>6. CellsGrow /\ CellsTyped' /\ CellsTrue' /\ OneCell'
  BY <1>2, <1>3, CellsSame
<1>7. /\ DOMAIN builds' = Keys /\ (\A j \in Keys \ {k} : builds'[j] = builds[j])
      /\ <<h>>[1] \in content' /\ builds'[k] = <<h>>[1]
  BY <1>1, <1>3 DEF Typed
<1>8. q[1] = k /\ q \in DOMAIN reuses' /\ reuses'[q] = h
  BY <1>3 DEF ActualKey
<1>9. \A r \in DOMAIN reuses : r[1] # k => r \in DOMAIN reuses' /\ reuses'[r] = reuses[r]
  <2> HIDE DEF q, k
  <2> QED BY <1>3, <1>8
<1>10. t = Local(k) => pc[Cand(k)] = "done"
  BY <1>1, <1>2, CandDone DEF Early
<1>11. t = Cand(k) => InputsKnown(k) /\ Once(k)'
  <2> SUFFICES ASSUME t = Cand(k) PROVE InputsKnown(k) /\ Once(k)'
    OBVIOUS
  <2>1. InputsKnown(k)
    BY <1>1, <1>2 DEF NodeInv, Slots
  <2>2. /\ pc'[t] = "done" /\ res'[t] = <<h>>
        /\ \A u \in Tasks \ {t} : res'[u] = res[u]
    BY <1>1, <1>3 DEF Finish, Typed
  <2>3. res[t] = None
    BY <1>1, <1>2 DEF TaskInv, Way
  <2>4. /\ DOMAIN joined'[t] = 1..Len(Inputs[k])
        /\ \A i \in 1..Len(Inputs[k]) : joined'[t][i] # None /\ joined'[t][i] = res[Local(Inputs[k][i])]
    BY <1>1, <1>2 DEF TaskInv, Joins
  <2>5. \A i \in 1..Len(Inputs[k]) : Local(Inputs[k][i]) \in Tasks /\ Local(Inputs[k][i]) # t
    BY <1>1, InputNames, TaskNames
  <2>6. ActualKey(t)' = q
    BY <1>2 DEF ActualKey
  <2>7. Built(k, h)' /\ h \in content'
    BY <1>3, <1>8, <2>2, <2>4, <2>5, <2>6 DEF Built
  <2>8. pc[Local(k)] \in Early \cup {"done"} /\ pc'[Local(k)] = pc[Local(k)]
    BY <1>1, <1>2, <1>3, CandFirst, TaskNames DEF Finish, Typed
  <2>9. pc'[Local(k)] \in ToRun => Finds(k, h)'
    BY <2>8 DEF Finds, Early, ToRun
  <2>10. started'[k] <= 1
    BY <1>1, <1>2 DEF NodeInv, Once
  <2> QED BY <2>1, <2>2, <2>7, <2>9, <2>10 DEF Once
<1> HIDE DEF k, q
<1> QED BY <1>2, <1>3, <1>4, <1>5, <1>6, <1>7, <1>9, <1>10, <1>11, Delivers DEF k

LEMMA ExecuteErrorKeeps ==
  ASSUME RealizerInv, NEW t \in Tasks, ExecuteError(t)
  PROVE  RealizerInv'
<1>1. /\ pc[t] = "running"
      /\ UNCHANGED <<joined, first, queue, hold, cells, table, builds, reuses, content, started, root>>
  BY DEF ExecuteError, store
<1>2. PICK e \in Errors : Finish(t, e)
  BY DEF ExecuteError, Errors
<1>3. Active(t) /\ ~Ensuring(t) /\ Handed(t)
  BY <1>1, <1>2 DEF Active, Ensuring, Handed, Finish, RealizerInv, Typed
<1>4. hold' = [hold EXCEPT ![t] = 0] /\ CellsGrow /\ CellsTyped' /\ CellsTrue' /\ OneCell'
  BY <1>1, <1>3, NoHold, CellsSame
<1> QED BY <1>1, <1>2, <1>3, <1>4, EndsInError

----------------------------------------------------------------------------
(* materialize_source and process_source.                                  *)

\* The local task of a Source ends, with its object or an error.
LEMMA SourceDelivers ==
  ASSUME RealizerInv, NEW k \in Keys, pc[Local(k)] \in {"source", "fetching"}, NEW r, Finish(Local(k), r),
         NEW h, builds' = builds \/ builds' = [builds EXCEPT ![k] = h], content \subseteq content',
         UNCHANGED <<joined, first, queue, hold, cells, table, reuses, started, root>>
  PROVE  RealizerInv'
<1> DEFINE t == Local(k)
<1>1. t \in Tasks /\ t[2] = k /\ t # Cand(k) /\ Typed /\ TaskInv(t)
  BY TaskNames DEF RealizerInv
<1>2. k \in Sources /\ Active(t) /\ ~Ensuring(t) /\ Handed(t)
  BY <1>1 DEF TaskInv, Way, Active, Ensuring, Handed, Finish, Typed
<1>3. CellsGrow /\ CellsTyped' /\ CellsTrue' /\ OneCell'
  BY CellsSame
<1>4. DOMAIN builds' = Keys /\ \A j \in Keys \ {k} : builds'[j] = builds[j]
  BY <1>1 DEF Typed
<1>5. pc[Cand(k)] = "done"
  BY CandDone DEF Early
<1> HIDE DEF t
<1>6. Finish(t, r)
  BY DEF t
<1> QED BY <1>1, <1>2, <1>3, <1>4, <1>5, <1>6, Delivers DEF t

LEMMA SourceStartKeeps ==
  ASSUME RealizerInv, NEW k \in Keys, SourceStart(k)
  PROVE  RealizerInv'
<1> DEFINE t == Local(k)
<1>1. t \in Tasks /\ t[1] = "local" /\ t[2] = k /\ Typed /\ TaskInv(t) /\ NodeInv(k)
  BY TaskNames DEF RealizerInv
<1>2. /\ pc[t] = "source"
      /\ UNCHANGED <<joined, first, queue, hold, cells, table, reuses, content, started, root>>
  BY DEF SourceStart, Local
<1>3. CASE \E r, h : Finish(t, r) /\ (builds' = builds \/ builds' = [builds EXCEPT ![k] = h])
  BY <1>2, <1>3, SourceDelivers
<1>4. CASE Goto(t, "fetching") /\ UNCHANGED builds
  <2>1. /\ pc'[t] = "fetching" /\ pc' = [pc EXCEPT ![t] = "fetching"] /\ UNCHANGED res
        /\ res[t] = None /\ hold[t] = 0
    BY <1>1, <1>2, <1>4, NoHold DEF Goto, Typed, TaskInv, Way, Ensuring
  <2>2. CellsGrow /\ CellsTyped' /\ CellsTrue' /\ OneCell'
    BY <1>2, CellsSame
  <2>3. Frame({t})
    BY <1>1, <1>2, <1>4, <2>1 DEF Frame, Typed
  <2>4. Typed'
    BY <1>1, <1>2, <1>4, <2>1 DEF Typed, PCs
  <2>5. TaskInv(t)'
    BY <1>1, <1>2, <2>1 DEF TaskInv, Way, Joins, Waits, There
  <2>6. Handed(t)
    BY <1>1, <1>2, <2>1 DEF Handed, Typed
  <2>7. pc[Cand(k)] = "done" /\ pc'[Cand(k)] = "done" /\ res'[Cand(k)] = res[Cand(k)]
    BY <1>2, <2>3, CandStays, CandDone DEF Early
  <2>8. Begins(k)' /\ Left(k)' /\ Mapped(k)'
    BY <1>1, <1>2, <2>1, <2>7 DEF NodeInv, Begins, Left, Mapped, Fallback, Ok
  <2>9. Slots(k)'
    BY <1>1, <1>2, <1>4, <2>1, <2>3, <2>7, ResultsStay DEF NodeInv, Slots, Exact
  <2>10. Once(k)'
    BY <1>1, <1>2, <2>1, <2>7 DEF NodeInv, Once, ToRun, Early
  <2>11. NodeInv(k)'
    BY <2>8, <2>9, <2>10 DEF NodeInv
  <2> QED BY <1>1, <1>2, <2>2, <2>3, <2>4, <2>5, <2>6, <2>11, TaskStepKeeps
<1>5. \/ Finish(t, <<Declared[k]>>) /\ builds' = [builds EXCEPT ![k] = Declared[k]]
      \/ Finish(t, Failed) /\ UNCHANGED builds
      \/ Finish(t, Cancelled) /\ UNCHANGED builds
      \/ Goto(t, "fetching") /\ UNCHANGED builds
  BY DEF SourceStart, Local
<1> HIDE DEF t
<1> QED BY <1>3, <1>4, <1>5

LEMMA SourceEndKeeps ==
  ASSUME RealizerInv, NEW k \in Keys, SourceEnd(k)
  PROVE  RealizerInv'
<1>1. /\ pc[Local(k)] = "fetching" /\ content \subseteq content'
      /\ UNCHANGED <<joined, first, queue, hold, cells, table, reuses, started, root>>
  BY DEF SourceEnd, Local
<1>2. PICK r : Finish(Local(k), r)
  BY DEF SourceEnd, Local
<1>3. builds' = builds \/ builds' = [builds EXCEPT ![k] = Declared[k]]
  BY DEF SourceEnd
<1> QED BY <1>1, <1>2, <1>3, SourceDelivers

----------------------------------------------------------------------------
(* realize_goals and cancellation.                                         *)

LEMMA GoalJoinKeeps ==
  ASSUME RealizerInv, NEW g \in Keys, GoalJoin(g)
  PROVE  RealizerInv'
<1>1. RootTrue /\ Typed
  BY DEF RealizerInv
<1>2. /\ ~root.returned /\ g \in Goals /\ res[Local(g)] # None
      /\ UNCHANGED <<pc, res, joined, first, queue, hold, cells, table, builds, reuses, content, started>>
  BY DEF GoalJoin, store, Local
<1>3. \/ root' = [root EXCEPT !.joined = @ \cup {g}, !.first = res[Local(g)]]
      \/ root' = [root EXCEPT !.joined = @ \cup {g}]
  BY DEF GoalJoin, Local
<1>4. RootTrue'
  BY <1>1, <1>2, <1>3 DEF RootTrue
<1>5. CellsGrow /\ CellsTyped' /\ CellsTrue' /\ OneCell'
  BY <1>2, CellsSame
<1> QED BY <1>2, <1>4, <1>5, QuietStepKeeps

LEMMA GoalsReturnKeeps ==
  ASSUME RealizerInv, GoalsReturn
  PROVE  RealizerInv'
<1>1. /\ root.joined = Goals /\ root' = [root EXCEPT !.returned = TRUE]
      /\ UNCHANGED <<pc, res, joined, first, queue, hold, cells, table, builds, reuses, content, started>>
  BY DEF GoalsReturn, store
<1>2. RootTrue'
  BY <1>1 DEF RealizerInv, RootTrue
<1>3. CellsGrow /\ CellsTyped' /\ CellsTrue' /\ OneCell'
  BY <1>1, CellsSame
<1> QED BY <1>1, <1>2, <1>3, QuietStepKeeps

\* A signal, the monitor and a step of nobody change nothing that matters here.
LEMMA NothingKeeps ==
  ASSUME RealizerInv,
         UNCHANGED <<pc, res, joined, first, queue, hold, cells, table, store, started, root>>
  PROVE  RealizerInv'
<1>1. UNCHANGED <<builds, reuses, content>>
  BY DEF store
<1>2. RootTrue'
  BY DEF RealizerInv, RootTrue
<1>3. CellsGrow /\ CellsTyped' /\ CellsTrue' /\ OneCell'
  BY <1>1, CellsSame
<1> QED BY <1>1, <1>2, <1>3, QuietStepKeeps

----------------------------------------------------------------------------
(* The invariant holds.                                                    *)

LEMMA InitHolds == Init => RealizerInv
<1> SUFFICES ASSUME Init PROVE RealizerInv
  OBVIOUS
<1>1. Typed
  BY ProvidersAssumption DEF Init, Typed, PCs
<1>2. CellsTyped /\ CellsTrue /\ OneCell
  BY DEF Init, CellsTyped, CellsTrue, OneCell, ToSet
<1>3. AllAsked
  BY DEF Init, AllAsked, Active, Asked
<1>4. RootTrue
  BY DEF Init, RootTrue
<1>5. \A t \in Tasks : TaskInv(t)
  BY DEF Init, TaskInv, Way, Joins, Waits, There
<1>6. ASSUME NEW k \in Keys PROVE NodeInv(k)
  <2>1. pc[Local(k)] \in {"idle", "start"} /\ pc[Cand(k)] = "idle" /\ res[Cand(k)] = None /\ res[Local(k)] = None
    BY TaskNames DEF Init
  <2>2. started[k] = 0
    BY DEF Init
  <2> QED BY <2>1, <2>2 DEF NodeInv, Begins, Left, Mapped, Slots, Once, Early, Fallback, Ok
<1> QED BY <1>1, <1>2, <1>3, <1>4, <1>5, <1>6 DEF RealizerInv

LEMMA NextKeeps == RealizerInv /\ [Next]_vars => RealizerInv'
<1> SUFFICES ASSUME RealizerInv, [Next]_vars PROVE RealizerInv'
  OBVIOUS
<1>1. ASSUME NEW t \in Tasks, TaskStep(t) PROVE RealizerInv'
  BY <1>1, JoinInputKeeps, InputErrorKeeps, CandReuseKeeps, EnsureEnterKeeps, EnsureLeaveKeeps,
     PublishSlotsKeeps, PublishReuseKeeps, PublishExactKeeps, BuildStartKeeps, BuildWorkingReuseKeeps,
     BuildProvidedReuseKeeps, ExecuteStartKeeps, ExecuteDoneKeeps, ExecuteErrorKeeps
     DEF TaskStep
<1>2. ASSUME NEW k \in Keys, NodeStep(k) PROVE RealizerInv'
  BY <1>2, CandLookupKeeps, LocalStartKeeps, LocalCandidatesKeeps, LocalFallbackKeeps,
     SourceStartKeeps, SourceEndKeeps
     DEF NodeStep
<1>3. ASSUME NEW k \in Keys, GoalJoin(k) PROVE RealizerInv'
  BY <1>3, GoalJoinKeeps
<1>4. ASSUME NEW c \in DOMAIN cells, EnsureContent(c) PROVE RealizerInv'
  BY <1>4, EnsureContentKeeps
<1>5. CASE GoalsReturn
  BY <1>5, GoalsReturnKeeps
<1>6. CASE Monitor
  BY <1>6, NothingKeeps DEF Monitor
<1>7. CASE Signal
  BY <1>7, NothingKeeps DEF Signal
<1>8. CASE UNCHANGED vars
  BY <1>8, NothingKeeps DEF vars
<1> QED BY <1>1, <1>2, <1>3, <1>4, <1>5, <1>6, <1>7, <1>8 DEF Next, Progress

\* The invariant that the theorems below rest on.
THEOREM Invariance == Spec => []RealizerInv
<1>1. Init => RealizerInv
  BY InitHolds
<1>2. RealizerInv /\ [Next]_vars => RealizerInv'
  BY NextKeeps
<1> QED BY <1>1, <1>2, PTL DEF Spec

----------------------------------------------------------------------------
(* What it gives.                                                          *)

\* For every graph and all that providers and stores may know: a builder that
\* is realized locally has its mapping and its content, and compute_local goes
\* on to build_builder or materialize_source only when none of the candidates
\* it resolved was obtainable.
THEOREM HitsAlwaysUsed == Spec => []HitsUsed
<1>1. RealizerInv => HitsUsed
  <2> SUFFICES ASSUME RealizerInv PROVE HitsUsed
    OBVIOUS
  <2>1. ASSUME NEW k \in Keys \ Sources, Ok(res[<<"local", k>>])
        PROVE  res[<<"local", k>>][1] \in content /\ builds[k] = res[<<"local", k>>][1]
    BY <2>1 DEF RealizerInv, NodeInv, Mapped, Local
  <2>2. ASSUME NEW k \in Keys, pc[<<"local", k>>] \in Fallback
        PROVE  ToSet(res[<<"cand", k>>]) \cap (SecondaryContent \ BadContent) = {}
    <3>1. \A i \in DOMAIN res[<<"cand", k>>] : res[<<"cand", k>>][i] \notin SecondaryContent
      BY <2>2 DEF RealizerInv, NodeInv, Left, Local, Cand
    <3> QED BY <3>1 DEF ToSet
  <2> QED BY <2>1, <2>2 DEF HitsUsed, Fallback
<1> QED BY <1>1, Invariance, PTL

\* When realize_goals returns, after a success, a failure or a cancellation, no
\* task of the run is left behind, however the nodes share their inputs: who is
\* still at work is waited for, and in a graph without circles the last who
\* waits is realize_goals.
THEOREM ReturnsAlwaysQuiescent == Spec => []ReturnsQuiescent
<1>1. RealizerInv => ReturnsQuiescent
  <2> SUFFICES ASSUME RealizerInv, root.returned, NEW t \in Tasks, Active(t) PROVE FALSE
    BY DEF ReturnsQuiescent
  <2> DEFINE S == {k \in Keys : Active(Cand(k)) \/ Active(Local(k))}
  <2>1. \A u \in Tasks : Active(u) => u[2] \in S
    BY TaskNames
  <2>2. PICK k \in S : \A p \in S : ~Contains(Inputs[p], k)
    BY <2>1, AcyclicAssumption
  <2>3. k \in Keys /\ (Active(Cand(k)) \/ Active(Local(k)))
    OBVIOUS
  <2>4. \A u \in Tasks, c \in {"cand", "local"} : pc[u] \in Asking(c) => u[2] \in S
    BY <2>1 DEF Asking, Active
  <2>5. ~\E u \in Tasks, c \in {"cand", "local"} : pc[u] \in Asking(c) /\ Contains(Inputs[u[2]], k)
    BY <2>2, <2>4
  <2> HIDE DEF S
  <2>6. ~Active(Local(k))
    <3> SUFFICES ASSUME Active(Local(k)) PROVE FALSE
      OBVIOUS
    <3>1. Asked(Local(k)) /\ Local(k)[1] = "local" /\ Local(k)[2] = k
      BY <2>3, TaskNames DEF RealizerInv, AllAsked
    <3>2. k \in Goals
      BY <2>5, <3>1 DEF Asked
    <3>3. pc[Local(k)] = "done"
      BY <2>3, <3>2, TaskNames DEF RealizerInv, RootTrue, TaskInv, Way
    <3> QED BY <3>3 DEF Active
  <2>7. Asked(Cand(k)) /\ Cand(k)[1] = "cand" /\ Cand(k)[2] = k
    BY <2>3, <2>6, TaskNames DEF RealizerInv, AllAsked
  <2>8. pc[Local(k)] = "await"
    BY <2>5, <2>7 DEF Asked
  <2> QED BY <2>6, <2>8 DEF Active
<1> QED BY <1>1, Invariance, PTL

LEMMA OnlyPublishSlots ==
  ASSUME RealizerInv, Next, NEW t \in Tasks, pc[t] = "publish", pc'[t] = "known"
  PROVE  PublishSlots(t)
<1>1. pc \in [Tasks -> PCs] /\ pc' # pc
  BY DEF RealizerInv, Typed
<1>2. ASSUME NEW u \in Tasks, NEW p, p # "known", pc' = [pc EXCEPT ![u] = p] PROVE FALSE
  BY <1>1, <1>2
<1>3. ASSUME NEW u \in Tasks, NEW p, p # "known", Goto(u, p) PROVE FALSE
  BY <1>2, <1>3 DEF Goto
<1>4. ASSUME NEW u \in Tasks, NEW r, Finish(u, r) PROVE FALSE
  BY <1>2, <1>4 DEF Finish
<1>5. ASSUME NEW u \in Tasks, NEW c, NEW p, Spawn(u, c, p), u # t \/ p # "known" PROVE FALSE
  BY <1>1, <1>5 DEF Spawn
<1>6. ASSUME NEW u \in Tasks, TaskStep(u) PROVE PublishSlots(t)
  <2>1. ASSUME NEW i \in DOMAIN joined[u], JoinInput(u, i) PROVE FALSE
    BY <1>1, <2>1 DEF JoinInput
  <2>2. ASSUME NEW p \in {"slots", "inputs", "known"}, InputError(u, p) PROVE FALSE
    BY <1>4, <2>2 DEF InputError
  <2>3. ~CandReuse(u)
    BY <1>3, <1>4 DEF CandReuse
  <2>4. ~EnsureEnter(u) /\ ~EnsureLeave(u)
    BY <1>1, <1>3, <1>4 DEF EnsureEnter, EnsureLeave
  <2>5. ~PublishReuse(u) /\ ~PublishExact(u)
    BY <1>4 DEF PublishReuse, PublishExact
  <2>6. ~BuildStart(u) /\ ~BuildWorkingReuse(u) /\ ~BuildProvidedReuse(u)
    BY <1>3, <1>4, <1>5 DEF BuildStart, BuildWorkingReuse, BuildProvidedReuse
  <2>7. ~ExecuteStart(u) /\ ~ExecuteDone(u) /\ ~ExecuteError(u)
    BY <1>3, <1>4 DEF ExecuteStart, ExecuteDone, ExecuteError
  <2>8. PublishSlots(u)
    BY <1>6, <2>1, <2>2, <2>3, <2>4, <2>5, <2>6, <2>7 DEF TaskStep
  <2>9. u = t
    BY <1>5, <2>8 DEF PublishSlots
  <2> QED BY <2>8, <2>9
<1>7. ASSUME NEW k \in Keys, NodeStep(k) PROVE FALSE
  <2>1. Cand(k) \in Tasks /\ Local(k) \in Tasks
    BY TaskNames
  <2>2. ~CandLookup(k)
    BY <1>4, <1>5, <2>1 DEF CandLookup, Cand
  <2>3. ~LocalStart(k)
    <3>1. pc' # [pc EXCEPT ![Local(k)] = "await", ![Cand(k)] = IF @ = "idle" THEN "start" ELSE @]
      BY <1>1, <2>1
    <3> QED BY <1>4, <2>1, <3>1 DEF LocalStart, Local, Cand
  <2>4. ~LocalCandidates(k)
    BY <1>3, <1>4, <2>1 DEF LocalCandidates, Local
  <2>5. ~LocalFallback(k)
    BY <1>3, <2>1 DEF LocalFallback, Local
  <2>6. ~SourceStart(k)
    BY <1>3, <1>4, <2>1 DEF SourceStart, Local
  <2>7. ~SourceEnd(k)
    BY <1>4, <2>1 DEF SourceEnd, Local
  <2> QED BY <1>7, <2>2, <2>3, <2>4, <2>5, <2>6, <2>7 DEF NodeStep
<1>8. \A k \in Keys : ~GoalJoin(k)
  BY <1>1 DEF GoalJoin
<1>9. \A c \in DOMAIN cells : ~EnsureContent(c)
  BY <1>1 DEF EnsureContent
<1>10. ~GoalsReturn /\ ~Monitor /\ ~Signal
  BY <1>1 DEF GoalsReturn, Monitor, Signal
<1> QED BY <1>6, <1>7, <1>8, <1>9, <1>10 DEF Next, Progress

\* For every graph and every interleaving: a builder is handed to the executor
\* at most once although its candidate cell and its local cell can both come to
\* build it, no two imports of one object run at a time although absent cells
\* are replaced, and publishing a hit asks for no cell that was not asked for.
THEOREM WorkAlwaysOnce == Spec => WorkDoneOnce
<1>1. RealizerInv => OnceOnly
  <2> SUFFICES ASSUME RealizerInv PROVE OnceOnly
    OBVIOUS
  <2>1. \A k \in Keys : started[k] <= 1
    BY DEF RealizerInv, NodeInv, Once
  <2>2. \A c, d \in DOMAIN cells :
          c # d /\ cells[c].state = "running" /\ cells[d].state = "running" => cells[c].hash # cells[d].hash
    BY DEF RealizerInv, OneCell
  <2> QED BY <2>1, <2>2 DEF OnceOnly
<1>2. RealizerInv /\ Next => PublicationAsksNothingNew
  <2> SUFFICES ASSUME RealizerInv, Next, NEW t \in Tasks, pc[t] = "publish", pc'[t] = "known",
                      NEW u \in Tasks \ {t}
               PROVE  pc'[u] = pc[u]
    BY DEF PublicationAsksNothingNew
  <2>1. PublishSlots(t)
    BY OnlyPublishSlots
  <2>2. InputsKnown(t[2])
    <3>1. t[2] \in Keys /\ NodeInv(t[2])
      BY TaskNames DEF RealizerInv
    <3>2. ~Exact(t[2], Upcoming(t))
      BY <2>1 DEF PublishSlots, NeedsReuseKeys, Exact
    <3> QED BY <3>1, <3>2, TaskNames DEF NodeInv, Slots
  <2>3. SUFFICES ASSUME pc'[u] # pc[u] PROVE FALSE
    OBVIOUS
  <2>4. pc[u] = "idle" /\ u[1] = "cand" /\ Contains(Inputs[t[2]], u[2])
    BY <2>1, <2>3, Spawned DEF PublishSlots
  <2>5. PICK i \in 1..Len(Inputs[t[2]]) : Inputs[t[2]][i] = u[2]
    BY <2>4 DEF Contains
  <2> QED BY <2>2, <2>4, <2>5, TaskNames DEF InputsKnown
<1>3. RealizerInv /\ [Next]_vars => [PublicationAsksNothingNew]_vars
  BY <1>2
<1> QED BY <1>1, <1>3, Invariance, PTL DEF Spec, WorkDoneOnce
=============================================================================
