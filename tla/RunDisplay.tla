----------------------------- MODULE RunDisplay -----------------------------
(***************************************************************************)
(* The live progress display of a run (bobr-core logging.rs): what each      *)
(* event of the run's log does to the counters of the header lines and to    *)
(* the rows of the activities, under one mutex.  The events of one subject   *)
(* come in the order its emitter has; those of different subjects come in    *)
(* any order, and the terminal may be resized between any two.               *)
(***************************************************************************)
EXTENDS Naturals, Sequences, FiniteSets, SequencesExt

CONSTANTS
  Builders, Sources, Contents,   \* the subjects, by the kind of their tag
  Rows,                          \* the heights the terminal takes
  Policies,                      \* the display policies of the request
  Jobs,                          \* the jobs the run-started event reports
  MaxRetries,                    \* bound on the retries of one transfer
  MaxResizes                     \* bound on the resizes of a run

VARIABLES
  policy, rows, resizes,
  stage,      \* what each subject's emitter did last
  retries,    \* how often each subject retried
  viewport,   \* ActivityViewport
  fetch,      \* FetchProgress
  builds      \* the counters of LiveProgress

displayVars == <<policy, rows, resizes, stage, retries, viewport, fetch, builds>>

Subjects == Builders \cup Sources \cup Contents
is_acquisition(s) == s \notin Builders

------------------------------------------------------------------------------
(* The rows.                                                                *)

Nobody == <<>>
LIVE_STATUS_ROWS == 3
TERMINAL_RESERVED_ROWS == 2
MIN_AUTO_ACTIVITY_ROWS == 4
MIN_FIXED_PROGRESS_LINES == 4

Least(S) == CHOOSE x \in S : \A y \in S : x <= y
Saturating(a, b) == IF a > b THEN a - b ELSE 0
validate(p) == p.mode = "fixed" => p.lines >= MIN_FIXED_PROGRESS_LINES
activity_row_capacity(p, height, jobs) ==
  LET physical == Saturating(height, LIVE_STATUS_ROWS + TERMINAL_RESERVED_ROWS)
      concurrency == IF jobs > MIN_AUTO_ACTIVITY_ROWS THEN jobs ELSE MIN_AUTO_ACTIVITY_ROWS
  IN CASE p.mode = "summary" -> 0
       [] p.mode = "fixed" -> Least({Saturating(p.lines, LIVE_STATUS_ROWS), physical, concurrency})
       [] p.mode = "auto" -> Least({(height * 3) \div 4, physical, concurrency})

EmptyViewport == [active |-> {}, failed |-> {}, visible |-> <<>>, builders |-> <<>>, sources |-> <<>>]
Without(queue, key) == SelectSeq(queue, LAMBDA k : k # key)
RowOf(v, key) == {i \in DOMAIN v.visible : v.visible[i] = <<key>>}
Idle(v) == {i \in DOMAIN v.visible : v.visible[i] = Nobody}
push_hidden(v, key) ==
  IF is_acquisition(key) THEN [v EXCEPT !.sources = Append(@, key)] ELSE [v EXCEPT !.builders = Append(@, key)]
push_hidden_front(v, key) ==
  IF is_acquisition(key) THEN [v EXCEPT !.sources = <<key>> \o @] ELSE [v EXCEPT !.builders = <<key>> \o @]

\* The first running activity of the queues, builders first; failed ones that
\* stand before it are dropped.
Running(v) == v.active \ v.failed
FirstRunning(v, queue) == {i \in DOMAIN queue : queue[i] \in Running(v)}
pop_hidden(v) ==
  LET After(queue, i) == SubSeq(queue, i + 1, Len(queue))
      b == FirstRunning(v, v.builders)
      s == FirstRunning(v, v.sources)
  IN CASE b # {} -> [row |-> <<v.builders[Least(b)]>>, v |-> [v EXCEPT !.builders = After(@, Least(b))]]
       [] b = {} /\ s # {} -> [row |-> <<v.sources[Least(s)]>>, v |-> [v EXCEPT !.builders = <<>>, !.sources = After(@, Least(s))]]
       [] OTHER -> [row |-> Nobody, v |-> [v EXCEPT !.builders = <<>>, !.sources = <<>>]]
Refill(v, i) == LET p == pop_hidden(v) IN [p.v EXCEPT !.visible[i] = p.row]

start_or_update(v, key) ==
  IF key \in v.active THEN v
  ELSE LET w == [v EXCEPT !.active = @ \cup {key}, !.failed = @ \ {key}]
       IN IF Idle(v) # {} THEN [w EXCEPT !.visible[Least(Idle(v))] = <<key>>] ELSE push_hidden(w, key)
\* As finish, but the row of the activity stays idle.
finish_unfilled(v, key) ==
  LET w == [v EXCEPT !.active = @ \ {key}, !.failed = @ \ {key}]
  IN IF RowOf(v, key) # {} THEN [w EXCEPT !.visible[Least(RowOf(v, key))] = Nobody]
     ELSE [w EXCEPT !.builders = Without(@, key), !.sources = Without(@, key)]
finish(v, key) ==
  LET w == [v EXCEPT !.active = @ \ {key}, !.failed = @ \ {key}]
  IN IF RowOf(v, key) # {} THEN Refill(w, Least(RowOf(v, key)))
     ELSE [w EXCEPT !.builders = Without(@, key), !.sources = Without(@, key)]
fail(v, key) ==
  CASE key \notin v.active -> v
    [] key \in v.active /\ RowOf(v, key) # {} -> [v EXCEPT !.failed = @ \cup {key}]
    [] OTHER -> [v EXCEPT !.active = @ \ {key}, !.builders = Without(@, key), !.sources = Without(@, key)]

fill_idle_rows(v) == FoldLeft(LAMBDA w, i : IF w.visible[i] = Nobody THEN Refill(w, i) ELSE w, v, [i \in DOMAIN v.visible |-> i])
set_capacity(v, capacity) ==
  IF capacity = Len(v.visible) THEN v
  ELSE fill_idle_rows(
    IF capacity < Len(v.visible)
    THEN FoldLeft(LAMBDA w, row : push_hidden_front(w, row[1]),
                  [v EXCEPT !.visible = SubSeq(@, 1, capacity)],
                  Reverse(SelectSeq(SubSeq(v.visible, capacity + 1, Len(v.visible)), LAMBDA row : row # Nobody)))
    ELSE [v EXCEPT !.visible = @ \o [i \in 1..(capacity - Len(@)) |-> Nobody]])
reflow(v) == set_capacity(v, activity_row_capacity(policy, rows, Jobs))

------------------------------------------------------------------------------
(* The records and the fetch statistics.                                    *)

\* A record of subject s: what of its details the display looks at.
Record(s, status) ==
  [subject |-> s, status |-> status, transfer |-> "none", fsFiles |-> FALSE, host |-> FALSE, retry |-> FALSE,
   lifecycle |-> FALSE, summary |-> FALSE, queued |-> FALSE, bytes |-> <<>>, level |-> "info"]

Terminal == {"done", "failed", "cancelled"}
NoFetch == [dynamic |-> {}, done |-> 0, failed |-> 0, completed |-> 0, phase |-> [s \in Subjects |-> "none"], bytes |-> [s \in Subjects |-> 0]]
Tracked(s) == fetch.phase[s] # "none"
InPhase(f, p) == {s \in Subjects : f.phase[s] = p}
live_bytes(f) == FoldFunctionOnSet(LAMBDA x, y : x + y, f.completed, [s \in Subjects |-> IF f.phase[s] = "active" THEN f.bytes[s] ELSE 0], Subjects)

\* The bytes of an attempt that is over stay counted.
LeavePhase(f, s, phase) ==
  [f EXCEPT !.phase[s] = phase, !.completed = @ + (IF f.phase[s] = "active" THEN f.bytes[s] ELSE 0), !.bytes[s] = 0]
BytesOf(r, otherwise) == IF r.bytes = <<>> THEN otherwise ELSE r.bytes[1]
handle_fetch(f, r) ==
  LET s == r.subject
      g == [f EXCEPT !.dynamic = @ \cup ({s} \cap Contents)]
  IN CASE r.status = "cache-hit" -> [f EXCEPT !.done = @ + 1]
       [] r.status # "cache-hit" /\ r.summary /\ f.phase[s] = "none" -> f
       [] OTHER ->
            CASE r.retry -> LeavePhase(g, s, "retrying")
              [] ~r.retry /\ r.status \in Terminal ->
                   [LeavePhase(g, s, "none") EXCEPT !.failed = @ + (IF r.status = "failed" THEN 1 ELSE 0),
                                               !.done = @ + (IF r.status = "done" THEN 1 ELSE 0)]
              [] ~r.retry /\ r.status = "start" -> IF r.host THEN [g EXCEPT !.phase[s] = "queued", !.bytes[s] = 0] ELSE g
              [] ~r.retry /\ r.status \notin Terminal \cup {"start"} ->
                   IF ~r.host THEN g
                   ELSE [g EXCEPT !.phase[s] = "active", !.bytes[s] = BytesOf(r, IF g.phase[s] = "active" THEN @ ELSE 0)]

------------------------------------------------------------------------------
(* LiveProgress::handle.                                                    *)

Changed(v, f, b) == viewport' = v /\ fetch' = f /\ builds' = b
activity_transfer(r) == r.transfer \in {"network", "copy"} \/ (r.transfer = "hardlink" /\ r.fsFiles)
source_terminal(r) == is_acquisition(r.subject) /\ r.status \in Terminal \cup {"cache-hit"}

\* What a record of a transfer does to the row of its subject.
SourceRow(r) ==
  CASE r.status = "failed" -> IF r.lifecycle THEN finish(viewport, r.subject) ELSE fail(viewport, r.subject)
    [] r.status # "failed" /\ source_terminal(r) -> finish(viewport, r.subject)
    [] OTHER -> IF (activity_transfer(r) /\ r.status = "running") \/ (r.retry /\ r.subject \in viewport.active)
                THEN start_or_update(viewport, r.subject) ELSE viewport
\* A builder leaves the queue with its first record after the one that queued it.
Unqueued(s) == [builds EXCEPT !.queued = @ \ {s}]
BuilderRow(r) ==
  LET s == r.subject IN
  CASE r.status = "done" -> Changed(reflow(finish(viewport, s)), fetch, [Unqueued(s) EXCEPT !.done = @ + 1])
    [] r.status = "failed" -> Changed(reflow(fail(viewport, s)), fetch, [Unqueued(s) EXCEPT !.failed = @ + 1])
    [] r.status = "cancelled" -> Changed(reflow(finish(viewport, s)), fetch, Unqueued(s))
    [] r.status = "cache-hit" -> Changed(reflow(viewport), fetch, [Unqueued(s) EXCEPT !.hits = @ + 1])
    [] r.status \notin Terminal \cup {"cache-hit"} /\ r.level = "warn" -> Changed(viewport, fetch, builds)
    [] OTHER -> Changed(reflow(start_or_update(viewport, s)), fetch, IF r.status = "start" THEN Unqueued(s) ELSE builds)

\* What the header lines and the summary line say.
update_headers ==
  [transferring |-> Cardinality(InPhase(fetch, "active")), waiting |-> Cardinality(InPhase(fetch, "queued")),
   retrying |-> Cardinality(InPhase(fetch, "retrying")), fetched |-> fetch.done, fetch_failed |-> fetch.failed,
   running |-> Cardinality(Running(viewport) \cap Builders), queued |-> Cardinality(builds.queued),
   built |-> builds.done + builds.hits, build_failed |-> builds.failed,
   hidden |-> Len(viewport.builders) + Len(viewport.sources), bytes |-> live_bytes(fetch)]

\* A redraw may be left out: only a change that is not a mere tick forces one.
handle(r) ==
  CASE r.queued -> Changed(reflow(viewport), fetch, [builds EXCEPT !.queued = @ \cup {r.subject}])
    [] ~r.queued /\ (activity_transfer(r) \/ Tracked(r.subject) \/ source_terminal(r)) ->
         \E v \in {SourceRow(r), reflow(SourceRow(r))} : Changed(v, handle_fetch(fetch, r), builds)
    [] OTHER -> IF is_acquisition(r.subject) THEN Changed(viewport, fetch, builds) ELSE BuilderRow(r)

------------------------------------------------------------------------------
(* The emitters: build_executor, the acquisition engine and the realizer.   *)

DisplayInit ==
  /\ policy \in {p \in Policies : validate(p)} /\ rows \in Rows /\ resizes = 0
  /\ stage = [s \in Subjects |-> "none"] /\ retries = [s \in Subjects |-> 0]
  /\ fetch = NoFetch /\ builds = [queued |-> {}, done |-> 0, hits |-> 0, failed |-> 0]
  /\ viewport = reflow(EmptyViewport)

Emit(s, from, to, r) ==
  /\ stage[s] \in from /\ stage' = [stage EXCEPT ![s] = to]
  /\ handle(r)
  /\ UNCHANGED <<policy, rows, resizes>>
Once(s, from, to, r) == Emit(s, from, to, r) /\ UNCHANGED retries

BuilderEvent(s) ==
  \/ Once(s, {"none"}, "ended", Record(s, "cache-hit"))
  \/ Once(s, {"none"}, "queued", [Record(s, "cache-miss") EXCEPT !.queued = TRUE])
  \/ Once(s, {"queued"}, "started", Record(s, "start"))
  \/ Once(s, {"started"}, "running", Record(s, "running"))
  \/ Once(s, {"running"}, "warned", [Record(s, "running") EXCEPT !.level = "warn"])
  \/ Once(s, {"started", "running", "warned"}, "ended", Record(s, "done"))
  \/ Once(s, {"queued", "started", "running", "warned"}, "broken", Record(s, "failed"))
  \/ Once(s, {"queued", "started", "running", "warned"}, "ended", Record(s, "cancelled"))

Tick(s, bytes) == [Record(s, "running") EXCEPT !.transfer = "network", !.host = TRUE, !.bytes = <<bytes>>, !.level = "progress"]
Retry(s, from, r) ==
  /\ retries[s] < MaxRetries /\ retries' = [retries EXCEPT ![s] = @ + 1]
  /\ Emit(s, from, "retrying", [r EXCEPT !.retry = TRUE])
\* A source that is fetched over the network, or copied from a path.
SourceEvent(s) ==
  \/ Once(s, {"none"}, "ended", Record(s, "cache-hit"))
  \/ Once(s, {"none"}, "waiting", [Record(s, "start") EXCEPT !.transfer = "network", !.host = TRUE])
  \/ Once(s, {"none"}, "local", [Record(s, "start") EXCEPT !.transfer = "local", !.host = TRUE])
  \/ Once(s, {"local"}, "localmiss", Record(s, "cache-miss"))
  \/ Once(s, {"waiting"}, "missed", Record(s, "cache-miss"))
  \/ Once(s, {"localmiss"}, "copying", [Record(s, "running") EXCEPT !.transfer = "local", !.host = TRUE])
  \/ Once(s, {"missed", "retrying"}, "transferring", [Tick(s, 0) EXCEPT !.level = "info"])
  \/ Once(s, {"transferring"}, "ticked", Tick(s, 1))
  \/ Retry(s, {"missed", "transferring", "ticked"}, Record(s, "running"))
  \/ Once(s, {"copying", "transferring", "ticked"}, "ended", Record(s, "done"))
  \/ Once(s, {"missed", "localmiss", "copying", "transferring", "ticked", "retrying"}, "broken", Record(s, "failed"))
  \/ Once(s, {"missed", "localmiss", "copying", "transferring", "ticked", "retrying"}, "ended", Record(s, "cancelled"))

Network(s, status) == [Record(s, status) EXCEPT !.transfer = "network", !.host = TRUE, !.lifecycle = TRUE]
\* Content of a secondary: requests to a repository one after the other, or a
\* transfer from a local store, and the summary at the end.
ContentEvent(s) ==
  \/ Once(s, {"none", "between", "retrying"}, "transferring", [Network(s, "running") EXCEPT !.bytes = <<0>>])
  \/ Once(s, {"transferring"}, "ticked", [Network(s, "running") EXCEPT !.bytes = <<1>>, !.level = "progress"])
  \/ Retry(s, {"transferring", "ticked"}, Network(s, "running"))
  \/ \E status \in Terminal : /\ retries[s] < MaxRetries /\ retries' = [retries EXCEPT ![s] = @ + 1]
                              /\ Emit(s, {"transferring", "ticked", "retrying"}, "between", Network(s, status))
  \/ \E mode \in {"copy", "hardlink", "download"}, files \in BOOLEAN :
       Once(s, {"none", "between"}, "stored", [Record(s, "running") EXCEPT !.transfer = mode, !.host = TRUE, !.fsFiles = files, !.bytes = <<0>>])
  \/ Once(s, {"stored"}, "stored", [Record(s, "running") EXCEPT !.level = "warn"])
  \/ \E status \in Terminal : Once(s, {"none", "between", "stored"}, IF status = "failed" THEN "broken" ELSE "ended",
                                   [Record(s, status) EXCEPT !.summary = TRUE])

\* The resize monitor.
refresh_layout(height) ==
  /\ resizes < MaxResizes /\ resizes' = resizes + 1
  /\ rows' = height /\ height # rows
  /\ viewport' = set_capacity(viewport, activity_row_capacity(policy, height, Jobs))
  /\ UNCHANGED <<policy, stage, retries, fetch, builds>>

DisplayNext ==
  \/ \E s \in Builders : BuilderEvent(s)
  \/ \E s \in Sources : SourceEvent(s)
  \/ \E s \in Contents : ContentEvent(s)
  \/ \E height \in Rows : refresh_layout(height)

------------------------------------------------------------------------------
(* What the display is for.                                                 *)

Hidden == viewport.builders \o viewport.sources
Shown == {viewport.visible[i][1] : i \in {j \in DOMAIN viewport.visible : viewport.visible[j] # Nobody}}
\* No row is without its activity (the code indexes by it), no activity that
\* runs has two rows or none when one is free, and none is forgotten.
RowsMatchActivities ==
  /\ Shown \subseteq viewport.active /\ viewport.failed \subseteq viewport.active
  /\ Len(viewport.visible) = activity_row_capacity(policy, rows, Jobs)
  /\ \A s \in Running(viewport) :
       Cardinality(RowOf(viewport, s)) + Cardinality({i \in DOMAIN Hidden : Hidden[i] = s}) = 1
  /\ \A s \in Shown : Cardinality(RowOf(viewport, s)) = 1
  /\ Idle(viewport) # {} => ToSet(Hidden) \cap Running(viewport) = {}
\* The lines of the header count each subject where it is: a subject that has
\* ended counts as nothing that still runs, waits or retries.
HeadersMatchSubjects ==
  LET In(stages) == {s \in Subjects : stage[s] \in stages}
      N(stages, kind) == Cardinality(In(stages) \cap kind)
      shown == update_headers
  IN
  /\ shown.queued = N({"queued"}, Builders)
  /\ shown.running = N({"started", "running", "warned"}, Builders)
  /\ shown.build_failed = N({"broken"}, Builders) /\ shown.built <= N({"ended"}, Builders)
  /\ shown.waiting = N({"waiting", "missed"}, Sources)
  /\ shown.retrying = N({"retrying"}, Subjects)
  /\ shown.transferring <= N({"transferring", "ticked", "stored", "copying"}, Subjects)
  /\ \A s \in In({"none", "ended", "broken", "between"}) : ~Tracked(s) /\ s \notin Running(viewport)
DisplayHonest == RowsMatchActivities /\ HeadersMatchSubjects
=============================================================================
