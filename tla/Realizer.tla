------------------------------ MODULE Realizer ------------------------------
(***************************************************************************)
(* Demand-driven realization of a planned graph (crate bobr-source,        *)
(* dynamic_realizer.rs).                                                   *)
(*                                                                         *)
(* Every node has two OnceCells: one resolves it to candidate hashes, the  *)
(* other to local content.  Nothing drops a task half-way, so a cell's     *)
(* computation is one task, <<"cand", k>> or <<"local", k>>, that starts   *)
(* when the cell is first asked for.  Content has a cell per hash, which   *)
(* is thrown away when the content was not to be had.                      *)
(*                                                                         *)
(* Publication in the store is one step here (WorkingStore takes it        *)
(* apart), so is a builder's way through the executor (BuildExecutor).     *)
(***************************************************************************)
EXTENDS Naturals, Sequences, FiniteSets, SequencesExt

CONSTANTS
  Keys,              \* build keys of the planned nodes
  Sources,           \* the ones that are Source nodes
  Goals,             \* requested nodes
  Inputs,            \* per node, the keys of its input slots, in name order
  Hashes,
  Declared,          \* per Source, its declared object hash
  Outputs,           \* per builder, the hashes a run of it may produce
  Origins,           \* Sources that have an origin
  Failing,           \* nodes whose builder or origin may fail
  Hanging,           \* Sources whose origin never answers by itself
  BadContent,        \* hashes whose import may fail with an error
  SecondaryBuilds,   \* per build key, the hashes the mapping providers answer
  SecondaryReuses,   \* per reuse key, the hashes the mapping providers answer
  SecondaryContent,  \* hashes the content providers can supply
  StoredBuilds, StoredContent,  \* what earlier runs left in the working store
  Signals,           \* whether the run may be cancelled from outside
  Failed, Cancelled,  \* errors a task may return
  None

\* What one builder's reuse key is computed from: the builder and its inputs.
ReuseKeys == UNION {{k} \X [1..Len(Inputs[k]) -> Hashes] : k \in Keys \ Sources}
Tasks == {"cand", "local"} \X Keys

ASSUME InputsAssumption == Inputs \in [Keys -> Seq(Keys)]
ASSUME SourcesAssumption ==
  /\ Sources \subseteq Keys /\ Goals \subseteq Keys
  /\ \A s \in Sources : Inputs[s] = <<>> /\ Declared[s] \in Hashes
\* The planner refuses a request whose nodes need each other in a circle: in
\* any set of nodes there is one that the others do not need.
ASSUME AcyclicAssumption ==
  \A S \in SUBSET Keys : S # {} => \E k \in S : \A p \in S : ~Contains(Inputs[p], k)
\* The resolver names a hash once, whoever answered it.
ASSUME ProvidersAssumption ==
  /\ SecondaryBuilds \in [Keys -> Seq(Hashes)]
  /\ SecondaryReuses \in [ReuseKeys -> Seq(Hashes)]
  /\ \A k \in Keys : IsInjective(SecondaryBuilds[k])
  /\ \A r \in ReuseKeys : IsInjective(SecondaryReuses[r])
  /\ SecondaryContent \subseteq Hashes /\ StoredContent \subseteq Hashes
  /\ StoredBuilds \in [Keys -> Hashes \cup {None}]

ASSUME ErrorsAssumption ==
  /\ Failed # Cancelled /\ None \notin {Failed, Cancelled}
  /\ \A e \in {Failed, Cancelled} : e \notin {"running", "present", "absent"}

VARIABLES
  pc,        \* per task, where it is
  res,       \* per task, its result: hashes in order, or an error
  joined,    \* per task, results of the input tasks it has joined
  first,     \* per task, first error among them
  queue,     \* per task, hashes still to try, by their places in the list
  hold,      \* per task, the content cell it waits on, 0 for none
  cells,     \* content cells made so far
  table,     \* the current cells, at most one for a hash
  builds,    \* working store: builds/<key>
  reuses,    \* working store: reuses/<key>, for the keys that are there
  content,   \* working store: complete objects
  started,   \* per builder, how often it was handed to the executor
  cancelled, \* the run's token
  woken,     \* the network scheduler was told
  external,  \* somebody outside cancelled the run
  root       \* realize_goals: goals joined, first error, whether it returned

store == <<builds, reuses, content>>
run == <<cancelled, woken, external>>
vars == <<pc, res, joined, first, queue, hold, cells, table, store, started, run, root>>

Errors == {Failed, Cancelled}
Ok(r) == r # None /\ r \notin Errors
Active(t) == pc[t] \notin {"idle", "done"}

----------------------------------------------------------------------------
(* Pure parts.                                                             *)

\* ObjectCandidates::new: the first occurrence of every hash.
Distinct(s) == FoldLeft(LAMBDA acc, h : IF Contains(acc, h) THEN acc ELSE Append(acc, h), <<>>, s)

\* CandidateProduct: one candidate per slot, the last slot changes fastest.
CandidateProduct(slots) ==
  FoldLeft(LAMBDA acc, slot :
             FlattenSeq([i \in 1..Len(acc) |-> [j \in 1..Len(slot) |-> Append(acc[i], slot[j])]]),
           << <<>> >>, slots)

\* known_local: a local result that is there already joins the candidates.
Candidates(k) ==
  LET r == res[<<"cand", k>>]
      l == res[<<"local", k>>]
  IN IF Ok(r) /\ Ok(l) /\ ~Contains(r, l[1]) THEN Append(r, l[1]) ELSE r

\* The reuse keys of a builder for its inputs' candidates.
ReuseKeysOf(k, slots) ==
  LET P == CandidateProduct(slots) IN [i \in 1..Len(P) |-> <<k, P[i]>>]

WorkingReuse(key) == IF key \in DOMAIN reuses THEN <<reuses[key]>> ELSE <<>>
WorkingReuses(keys) == FlattenSeq([i \in 1..Len(keys) |-> WorkingReuse(keys[i])])
ProvidedReuses(keys) == FlattenSeq([i \in 1..Len(keys) |-> SecondaryReuses[keys[i]]])

----------------------------------------------------------------------------
Init ==
  /\ pc = [t \in Tasks |-> IF t[1] = "local" /\ t[2] \in Goals THEN "start" ELSE "idle"]
  /\ res = [t \in Tasks |-> None]
  /\ joined = [t \in Tasks |-> <<>>]
  /\ first = [t \in Tasks |-> None]
  /\ queue = [t \in Tasks |-> <<>>]
  /\ hold = [t \in Tasks |-> 0]
  /\ cells = <<>>
  /\ table = {}
  /\ builds = StoredBuilds
  /\ reuses = <<>>
  /\ content = StoredContent
  /\ started = [k \in Keys |-> 0]
  /\ cancelled = FALSE
  /\ woken = FALSE
  /\ external = FALSE
  /\ root = [joined |-> {}, first |-> None, returned |-> FALSE]

Finish(t, r) ==
  /\ pc' = [pc EXCEPT ![t] = "done"]
  /\ res' = [res EXCEPT ![t] = r]
Goto(t, p) == pc' = [pc EXCEPT ![t] = p] /\ UNCHANGED res

\* Go to p and ask for the cells of kind c of all inputs: the idle ones start.
Spawn(t, c, p) ==
  /\ pc' = [u \in Tasks |->
              IF u = t THEN p
              ELSE IF u[1] = c /\ Contains(Inputs[t[2]], u[2]) /\ pc[u] = "idle" THEN "start"
              ELSE pc[u]]
  /\ joined' = [joined EXCEPT ![t] = [i \in 1..Len(Inputs[t[2]]) |-> None]]
  /\ first' = [first EXCEPT ![t] = None]

\* cancel_run
CancelRun == cancelled' = TRUE /\ woken' = TRUE /\ UNCHANGED external

----------------------------------------------------------------------------
(* compute_candidates.                                                     *)

\* Exact mappings, working before secondary; a Source knows its hash.
CandLookup(k) ==
  LET t == <<"cand", k>> IN
  /\ pc[t] = "start"
  /\ \/ /\ cancelled
        /\ Finish(t, Cancelled) /\ UNCHANGED <<joined, first>>
     \/ /\ ~cancelled /\ builds[k] # None
        /\ Finish(t, <<builds[k]>>) /\ UNCHANGED <<joined, first>>
     \/ /\ ~cancelled /\ builds[k] = None /\ SecondaryBuilds[k] # <<>>
        /\ Finish(t, SecondaryBuilds[k]) /\ UNCHANGED <<joined, first>>
     \/ /\ ~cancelled /\ builds[k] = None /\ SecondaryBuilds[k] = <<>> /\ k \in Sources
        /\ Finish(t, <<Declared[k]>>) /\ UNCHANGED <<joined, first>>
     \/ /\ ~cancelled /\ builds[k] = None /\ SecondaryBuilds[k] = <<>> /\ k \notin Sources
        /\ Spawn(t, "cand", "slots") /\ UNCHANGED res
  /\ UNCHANGED <<queue, hold, cells, table, store, started, run, root>>

\* collect_ordered_input_tasks: results in any order; the first error cancels
\* the run, the rest is drained.
InputResult(t, i) ==
  LET k == Inputs[t[2]][i] IN
  IF pc[t] = "inputs" THEN res[<<"local", k>>] ELSE Candidates(k)

JoinInput(t, i) ==
  LET r == InputResult(t, i) IN
  /\ pc[t] \in {"slots", "inputs", "known"}
  /\ i \in DOMAIN joined[t] /\ joined[t][i] = None
  /\ r # None
  /\ joined' = [joined EXCEPT ![t][i] = r]
  /\ \/ ~Ok(r) /\ first[t] = None /\ first' = [first EXCEPT ![t] = r] /\ CancelRun
     \/ (Ok(r) \/ first[t] # None) /\ UNCHANGED <<first, run>>
  /\ UNCHANGED <<pc, res, queue, hold, cells, table, store, started, root>>

Joined(t, p) == pc[t] = p /\ \A i \in DOMAIN joined[t] : joined[t][i] # None
InputError(t, p) ==
  /\ Joined(t, p)
  /\ first[t] # None
  /\ Finish(t, first[t])
  /\ UNCHANGED <<joined, first, queue, hold, cells, table, store, started, run, root>>

\* cached_reuse_candidates: working mappings as a group, then the providers.
CandReuse(t) ==
  LET keys == ReuseKeysOf(t[2], joined[t])
      found == IF WorkingReuses(keys) # <<>> THEN WorkingReuses(keys) ELSE ProvidedReuses(keys)
  IN
  /\ Joined(t, "slots") /\ first[t] = None
  /\ IF found # <<>> THEN Finish(t, Distinct(found)) ELSE Goto(t, "build")
  /\ UNCHANGED <<joined, first, queue, hold, cells, table, store, started, run, root>>

----------------------------------------------------------------------------
(* compute_local.                                                          *)

LocalStart(k) ==
  LET t == <<"local", k>>
      c == <<"cand", k>>
  IN
  /\ pc[t] = "start"
  /\ \/ cancelled /\ Finish(t, Cancelled)
     \/ /\ ~cancelled
        /\ pc' = [pc EXCEPT ![t] = "await", ![c] = IF @ = "idle" THEN "start" ELSE @]
        /\ UNCHANGED res
  /\ UNCHANGED <<joined, first, queue, hold, cells, table, store, started, run, root>>

LocalCandidates(k) ==
  LET t == <<"local", k>>
      r == Candidates(k)
  IN
  /\ pc[t] = "await" /\ r # None
  /\ \/ ~Ok(r) /\ Finish(t, r) /\ UNCHANGED queue
     \/ Ok(r) /\ Goto(t, "ensure") /\ queue' = [queue EXCEPT ![t] = r]
  /\ UNCHANGED <<joined, first, hold, cells, table, store, started, run, root>>

\* The first hash that is left is tried next, until all have been tried.
Upcoming(t) == queue[t][Min(DOMAIN queue[t])]
Tried(t) == DOMAIN queue[t] = {}

\* Faulty variant: the node falls back although candidates are left to try.
LocalFallbackUnchecked(k) ==
  LET t == <<"local", k>> IN
  /\ pc[t] = "ensure" /\ hold[t] = 0
  /\ Goto(t, IF k \in Sources THEN "source" ELSE "build")
  /\ UNCHANGED <<joined, first, queue, hold, cells, table, store, started, run, root>>

\* No candidate's content is to be had: fetch the origin or build.
LocalFallback(k) ==
  LET t == <<"local", k>> IN
  /\ pc[t] = "ensure" /\ Tried(t)
  /\ Goto(t, IF k \in Sources THEN "source" ELSE "build")
  /\ UNCHANGED <<joined, first, queue, hold, cells, table, store, started, run, root>>

----------------------------------------------------------------------------
(* ensure_object.                                                          *)

Ensuring(t) ==
  /\ pc[t] \in {"ensure", "working", "provided"}
  /\ \E i \in DOMAIN queue[t] : i = Min(DOMAIN queue[t])

\* Take the hash's cell; who makes it computes it.
EnsureEnter(t) ==
  LET h == Upcoming(t)
      n == Len(cells) + 1
      current == {c \in table : cells[c].hash = h}
  IN
  /\ Ensuring(t) /\ hold[t] = 0
  /\ \/ \E c \in current : hold' = [hold EXCEPT ![t] = c] /\ UNCHANGED <<cells, table>>
     \/ /\ current = {}
        /\ hold' = [hold EXCEPT ![t] = n]
        /\ table' = table \cup {n}
        /\ cells' = Append(cells, [hash |-> h, state |-> "running"])
  /\ UNCHANGED <<pc, res, joined, first, queue, store, started, run, root>>

\* Content in the working store, imported from a provider, or not to be had.
\* What a cancelled import had finished stays, but is not reported.
EnsureContent(c) ==
  LET h == cells[c].hash IN
  /\ c \in DOMAIN cells /\ cells[c].state = "running"
  /\ \E imported \in SUBSET ({h} \cap SecondaryContent), bad \in BOOLEAN :
       /\ content' = content \cup imported
       /\ bad => h \in BadContent
       /\ ~bad /\ ~cancelled => imported = {h} \cap SecondaryContent
       /\ cells' = [cells EXCEPT ![c].state =
                      IF cancelled THEN Cancelled
                      ELSE IF bad THEN Failed
                      ELSE IF h \in content' THEN "present" ELSE "absent"]
  /\ UNCHANGED <<pc, res, joined, first, queue, hold, table, builds, reuses, started, run, root>>

\* An absent object's cell is removed; one that replaced it already stays.
DropCell(c) == table' = table \ {c}

EnsureLeave(t) ==
  LET s == cells[hold[t]].state IN
  /\ Ensuring(t) /\ hold[t] # 0
  /\ s # "running"
  /\ hold' = [hold EXCEPT ![t] = 0]
  /\ \/ s = "present" /\ Goto(t, "publish") /\ UNCHANGED <<queue, table>>
     \/ /\ s = "absent"
        /\ queue' = [queue EXCEPT ![t] = Restrict(@, DOMAIN @ \ {Min(DOMAIN @)})]
        /\ DropCell(hold[t])
        /\ UNCHANGED <<pc, res>>
     \/ s \in Errors /\ Finish(t, s) /\ UNCHANGED <<queue, table>>
  /\ UNCHANGED <<joined, first, cells, store, started, run, root>>

----------------------------------------------------------------------------
(* publish_cached and publish_cached_builder.                              *)

\* Faulty variant: only the store's own mapping counts as exact.
NeedsReuseKeysUnlessMapped(k, h) == k \notin Sources /\ builds[k] # h

\* A hit that is not exact came by reuse: its keys are worked out again.
NeedsReuseKeys(k, h) == k \notin Sources /\ builds[k] # h /\ ~Contains(SecondaryBuilds[k], h)

\* input_candidate_slots for those keys.
PublishSlots(t) ==
  /\ pc[t] = "publish"
  /\ NeedsReuseKeys(t[2], Upcoming(t))
  /\ Spawn(t, "cand", "known")
  /\ UNCHANGED <<res, queue, hold, cells, table, store, started, run, root>>

\* reuse_keys_resolving_to, then publish_existing_build.
PublishReuse(t) ==
  LET k == t[2]
      h == Upcoming(t)
      keys == ToSet(ReuseKeysOf(k, joined[t]))
      same == {r \in keys : (r \in DOMAIN reuses /\ reuses[r] = h) \/ Contains(SecondaryReuses[r], h)}
  IN
  /\ Joined(t, "known") /\ first[t] = None
  /\ reuses' = [r \in same \cup DOMAIN reuses |-> IF r \in same THEN h ELSE reuses[r]]
  /\ builds' = [builds EXCEPT ![k] = h]
  /\ Finish(t, <<h>>)
  /\ UNCHANGED <<joined, first, queue, hold, cells, table, content, started, run, root>>

\* The providers named this very hash for the key, or the store does; a
\* Source is mapped under the hash that was published.
PublishExact(t) ==
  LET h == Upcoming(t) IN
  /\ pc[t] = "publish"
  /\ ~NeedsReuseKeys(t[2], h)
  /\ builds' = IF t[2] \in Sources /\ h # Declared[t[2]] THEN builds
               ELSE [builds EXCEPT ![t[2]] = h]
  /\ Finish(t, <<h>>)
  /\ UNCHANGED <<joined, first, queue, hold, cells, table, reuses, content, started, run, root>>

----------------------------------------------------------------------------
(* build_builder, for either kind of task.                                 *)

BuildStart(t) ==
  /\ pc[t] = "build"
  /\ \/ cancelled /\ Finish(t, Cancelled) /\ UNCHANGED <<joined, first>>
     \/ ~cancelled /\ Spawn(t, "local", "inputs") /\ UNCHANGED res
  /\ UNCHANGED <<queue, hold, cells, table, store, started, run, root>>

ActualKey(t) == <<t[2], [i \in DOMAIN joined[t] |-> joined[t][i][1]]>>

\* The final reuse check, with the hashes the inputs really have.
BuildWorkingReuse(t) ==
  /\ Joined(t, "inputs") /\ first[t] = None
  /\ Goto(t, "working")
  /\ queue' = [queue EXCEPT ![t] = WorkingReuse(ActualKey(t))]
  /\ UNCHANGED <<joined, first, hold, cells, table, store, started, run, root>>

BuildProvidedReuse(t) ==
  /\ pc[t] = "working" /\ Tried(t)
  /\ Goto(t, "provided")
  /\ queue' = [queue EXCEPT ![t] = SecondaryReuses[ActualKey(t)]]
  /\ UNCHANGED <<joined, first, hold, cells, table, store, started, run, root>>

\* prepare_builder_inputs, and the executor's look at the token.
ExecuteStart(t) ==
  /\ pc[t] = "provided" /\ Tried(t)
  /\ \/ cancelled /\ Finish(t, Cancelled) /\ UNCHANGED started
     \/ /\ ~cancelled
        /\ Goto(t, "running")
        /\ started' = [started EXCEPT ![t[2]] = @ + 1]
  /\ UNCHANGED <<joined, first, queue, hold, cells, table, store, run, root>>

\* The output is published under the builder's key and its reuse key.
ExecuteDone(t) ==
  /\ pc[t] = "running"
  /\ \E h \in Outputs[t[2]] :
       /\ content' = content \cup {h}
       /\ builds' = [builds EXCEPT ![t[2]] = h]
       /\ reuses' = [r \in DOMAIN reuses \cup {ActualKey(t)} |-> IF r = ActualKey(t) THEN h ELSE reuses[r]]
       /\ Finish(t, <<h>>)
  /\ UNCHANGED <<joined, first, queue, hold, cells, table, started, run, root>>

ExecuteError(t) ==
  /\ pc[t] = "running"
  /\ \/ t[2] \in Failing /\ Finish(t, Failed)
     \/ cancelled /\ Finish(t, Cancelled)
  /\ UNCHANGED <<joined, first, queue, hold, cells, table, store, started, run, root>>

----------------------------------------------------------------------------
(* materialize_source and process_source.                                  *)

\* process_source: content that came meanwhile is a hit.
SourceStart(k) ==
  LET t == <<"local", k>> IN
  /\ pc[t] = "source"
  /\ \/ /\ k \in Origins /\ Declared[k] \in content
        /\ builds' = [builds EXCEPT ![k] = Declared[k]]
        /\ Finish(t, <<Declared[k]>>)
     \/ k \notin Origins /\ Finish(t, Failed) /\ UNCHANGED builds
     \/ /\ k \in Origins /\ Declared[k] \notin content
        /\ IF cancelled THEN Finish(t, Cancelled) ELSE Goto(t, "fetching")
        /\ UNCHANGED builds
  /\ UNCHANGED <<joined, first, queue, hold, cells, table, reuses, content, started, run, root>>

\* A cancelled acquisition may have imported the object all the same.
SourceEnd(k) ==
  LET t == <<"local", k>> IN
  /\ pc[t] = "fetching"
  /\ k \in Hanging => woken
  /\ \/ /\ k \notin Hanging
        /\ content' = content \cup {Declared[k]}
        /\ builds' = [builds EXCEPT ![k] = Declared[k]]
        /\ Finish(t, IF cancelled THEN Cancelled ELSE <<Declared[k]>>)
     \/ /\ k \in Failing \/ cancelled
        /\ Finish(t, IF cancelled THEN Cancelled ELSE Failed)
        /\ UNCHANGED <<content, builds>>
  /\ UNCHANGED <<joined, first, queue, hold, cells, table, reuses, started, run, root>>

----------------------------------------------------------------------------
(* realize_goals and cancellation.                                         *)

\* The first error cancels the run, later results are drained.
GoalJoin(g) ==
  LET r == res[<<"local", g>>] IN
  /\ ~root.returned /\ g \in Goals \ root.joined
  /\ r # None
  /\ \/ ~Ok(r) /\ root.first = None /\ CancelRun
        /\ root' = [root EXCEPT !.joined = @ \cup {g}, !.first = r]
     \/ (Ok(r) \/ root.first # None) /\ UNCHANGED run
        /\ root' = [root EXCEPT !.joined = @ \cup {g}]
  /\ UNCHANGED <<pc, res, joined, first, queue, hold, cells, table, store, started>>

\* Faulty variant: an error aborts the remaining goal tasks.
GoalsReturnAborting ==
  /\ ~root.returned
  /\ root.joined = Goals \/ root.first # None
  /\ root' = [root EXCEPT !.returned = TRUE]
  /\ UNCHANGED <<pc, res, joined, first, queue, hold, cells, table, store, started, run>>

GoalsReturn ==
  /\ ~root.returned
  /\ root.joined = Goals
  /\ root' = [root EXCEPT !.returned = TRUE]
  /\ UNCHANGED <<pc, res, joined, first, queue, hold, cells, table, store, started, run>>

\* The watcher of main.rs cancels the token, and nothing else.
Signal ==
  /\ Signals /\ ~cancelled
  /\ cancelled' = TRUE /\ external' = TRUE
  /\ UNCHANGED <<pc, res, joined, first, queue, hold, cells, table, store, started, woken, root>>

\* Faulty variant: nobody tells the network scheduler.
MonitorNever == FALSE /\ UNCHANGED vars

\* The cancellation monitor passes it on until realize_goals returns.
Monitor ==
  /\ cancelled /\ ~woken /\ ~root.returned
  /\ woken' = TRUE
  /\ UNCHANGED <<pc, res, joined, first, queue, hold, cells, table, store, started,
                 cancelled, external, root>>

----------------------------------------------------------------------------
TaskStep(t) ==
  \/ \E i \in DOMAIN joined[t] : JoinInput(t, i)
  \/ \E p \in {"slots", "inputs", "known"} : InputError(t, p)
  \/ CandReuse(t) \/ EnsureEnter(t) \/ EnsureLeave(t)
  \/ PublishSlots(t) \/ PublishReuse(t) \/ PublishExact(t)
  \/ BuildStart(t) \/ BuildWorkingReuse(t) \/ BuildProvidedReuse(t)
  \/ ExecuteStart(t) \/ ExecuteDone(t) \/ ExecuteError(t)
NodeStep(k) ==
  \/ CandLookup(k) \/ LocalStart(k) \/ LocalCandidates(k) \/ LocalFallback(k)
  \/ SourceStart(k) \/ SourceEnd(k)
Progress ==
  \/ \E t \in Tasks : TaskStep(t)
  \/ \E k \in Keys : NodeStep(k) \/ GoalJoin(k)
  \/ \E c \in DOMAIN cells : EnsureContent(c)
  \/ GoalsReturn \/ Monitor
Next == Progress \/ Signal

Spec == Init /\ [][Next]_vars
\* The runtime polls every ready task, the executor and the providers answer.
FairSpec == Spec /\ WF_vars(Progress)

----------------------------------------------------------------------------
(* Properties.                                                             *)

\* Every variable holds a value of its type.
TypeOK ==
  /\ pc \in [Tasks -> {"idle", "start", "slots", "build", "inputs", "working", "provided", "running",
                       "await", "ensure", "publish", "known", "source", "fetching", "done"}]
  /\ \A t \in Tasks : res[t] = None \/ res[t] \in Errors \/ ToSet(res[t]) \subseteq Hashes
  /\ \A t \in Tasks : (res[t] # None) <=> (pc[t] = "done")
  /\ first \in [Tasks -> Errors \cup {None}]
  /\ \A t \in Tasks : Range(queue[t]) \subseteq Hashes /\ hold[t] \in 0..Len(cells)
  /\ table \subseteq DOMAIN cells
  /\ builds \in [Keys -> Hashes \cup {None}]
  /\ DOMAIN reuses \subseteq ReuseKeys /\ Range(reuses) \subseteq Hashes
  /\ content \subseteq Hashes
  /\ root.joined \subseteq Goals /\ root.first \in Errors \cup {None}

\* Nothing is done twice.  A builder runs at most once in a run, however many
\* goals and builders depend on it and although both of its cells may come to
\* build it; an object is never imported twice at a time (SCHEDULER.md on the
\* content table), also when an unavailable object's cell has been replaced.
OnceOnly ==
  /\ \A k \in Keys : started[k] <= 1
  /\ \A c, d \in DOMAIN cells :
       c # d /\ cells[c].state = "running" /\ cells[d].state = "running" => cells[c].hash # cells[d].hash
\* Publishing a hit never makes the realizer look into a subtree the hit has
\* pruned: the cells of the inputs that it asks have all been asked before.
PublicationAsksNothingNew ==
  \A t \in Tasks : pc[t] = "publish" /\ pc'[t] = "known" => \A u \in Tasks \ {t} : pc'[u] = pc[u]
WorkDoneOnce == []OnceOnly /\ [][PublicationAsksNothingNew]_vars

\* A locally realized builder has the mapping and the content it reports, and
\* a node is built, or its origin asked, only when none of the candidates it
\* has was obtainable: a hit prunes everything below it.
HitsUsed ==
  /\ \A k \in Keys \ Sources :
       LET r == res[<<"local", k>>] IN Ok(r) => r[1] \in content /\ builds[k] = r[1]
  /\ \A k \in Keys :
       pc[<<"local", k>>] \in {"source", "fetching", "build", "inputs", "working", "provided", "running"} =>
         ToSet(res[<<"cand", k>>]) \cap (SecondaryContent \ BadContent) = {}

\* When realize_goals returns, no task of the run is left behind: the store
\* and the executor are quiet.
ReturnsQuiescent == root.returned => \A t \in Tasks : ~Active(t)

\* A goal's failure is what the run reports: "cancelled" is for a run that
\* was cancelled from outside (dynamic_realizer.rs tests: "the original
\* failure was lost").
OriginalFailureReported == root.returned /\ root.first = Cancelled => external

\* A run ends: nothing but an origin that does not answer keeps it from its end,
\* and not even that once the run is cancelled, by its signal or a failed sibling.
RunEnds ==
  /\ <>(root.returned \/ \E k \in Hanging : pc[<<"local", k>>] = "fetching")
  /\ cancelled ~> root.returned
=============================================================================
