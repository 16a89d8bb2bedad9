------------------------------ MODULE TreeStore ------------------------------
(***************************************************************************)
(* The pool of fs-files and the materialized trees of a store               *)
(* (bobr-store fs_tree.rs), used by several workers, threads or processes,   *)
(* at once: a tree is interned by linking its files into the pool and, when  *)
(* the pool had none of them, by moving the scanned directory into place; a  *)
(* stored tree is materialized by linking from the pool in a staging         *)
(* directory; named refs follow the last materialization.                    *)
(*                                                                          *)
(* A tree is the sequence of its files' hashes, a directory the sequence of  *)
(* the inodes of its files.  Generation refs get the same time stamp, the    *)
(* case in which their counter matters.                                      *)
(***************************************************************************)
EXTENDS Naturals, Sequences, FiniteSets

CONSTANTS Workers, Trees, FileHashes, Names, NoName,  \* a tree is in Seq(FileHashes)
          MaxTreeGenerations,  \* how many generation refs of one second a name can have
          MaxCalls             \* bound on the calls of a behaviour

\* What a store is used with: content and names are shared by all workers.
ASSUME SettingAssumption ==
  /\ Trees \subseteq Seq(FileHashes)
  /\ NoName \notin Names
  /\ MaxTreeGenerations \in Nat

VARIABLES
  pool,      \* the inode linked at each hash, or NoInode
  roots,     \* the published directory of each tree, or NoInode
  treeRefs,  \* the tree each name refers to, or NoInode
  gens,      \* the generation refs of each name, by their counter
  calls,     \* how many calls have started
  worker,    \* what each worker does
  named,     \* history: the trees each name has referred to
  contended  \* history: the names that two workers have updated together

treeVars == <<pool, roots, treeRefs, gens, calls, worker, named, contended>>

NoInode == <<0, 0>>
Idle == [pc |-> "idle", op |-> "none", tree |-> <<>>, name |-> NoName, id |-> 0, here |-> <<>>,
         fresh |-> FALSE, able |-> FALSE, fault |-> FALSE, slot |-> 0, old |-> <<>>]
NoRoot == [set |-> FALSE]
RootOf(inodes) == [set |-> TRUE, files |-> inodes]
InPool(h) == pool[h] # NoInode

TreesInit ==
  /\ pool = [h \in FileHashes |-> NoInode]
  /\ roots = [t \in Trees |-> NoRoot]
  /\ treeRefs = [n \in Names |-> NoRoot]
  /\ gens = [n \in Names |-> <<>>]
  /\ calls = 0
  /\ worker = [w \in Workers |-> Idle]
  /\ named = [n \in Names |-> {}]
  /\ contended = {}

WorkerAt(w, pc) == worker[w].pc = pc
\* A call that is over keeps what it was asked and how it went.
Over(call, result) == [call EXCEPT !.pc = result, !.here = <<>>, !.id = 0, !.fresh = FALSE, !.slot = 0, !.old = <<>>]
Goto(w, pc) ==
  worker' = [worker EXCEPT ![w] = IF pc \in {"ok", "error"} THEN Over(@, pc) ELSE [@ EXCEPT !.pc = pc]]
WorkerReturn(w, result) == Goto(w, result)
Next_(w) == worker[w].tree[Len(worker[w].here) + 1]
Gathered(w) == Len(worker[w].here) = Len(worker[w].tree)
Took(w, inode, fresh) ==
  worker' = [worker EXCEPT ![w].here = Append(@, inode), ![w].fresh = fresh, ![w].pc = "files"]

Start(w, op, t, name) ==
  /\ worker[w].pc \in {"idle", "ok", "error"} /\ calls < MaxCalls
  /\ calls' = calls + 1
  /\ worker' = [worker EXCEPT ![w] =
       [Idle EXCEPT !.pc = IF op = "ensure" THEN "lookup" ELSE "files", !.op = op, !.tree = t, !.id = calls + 1,
                    !.name = name, !.fresh = TRUE,
                    !.able = \A i \in DOMAIN t : InPool(t[i])]]
  /\ UNCHANGED <<pool, roots, treeRefs, gens, named>>
\* intern_tree, import_with_install and ensure_materialized_root, which gets
\* the name of the node that is realized or none.
intern_tree(w) == \E t \in Trees : Start(w, "intern", t, NoName)
import_with_install(w) == \E t \in Trees : Start(w, "install", t, NoName)
ensure_materialized_root(w) == \E t \in Trees, n \in Names \cup {NoName} : Start(w, "ensure", t, n)

\* The inode of the scanned file, or of the temporary copy an install makes.
Inode(w) == <<worker[w].id, Len(worker[w].here) + 1>>

\* scan_entry and publish_installed_temp_file: is the hash in the pool?
\* Faulty variant first: a file the pool had already does not count.
ScanFileFresh(w) ==
  /\ WorkerAt(w, "files") /\ worker[w].op # "ensure" /\ ~Gathered(w)
  /\ IF InPool(Next_(w)) THEN Took(w, Inode(w), worker[w].fresh) ELSE Goto(w, "link")
  /\ UNCHANGED <<pool, roots, treeRefs, gens, calls, named>>
ScanFile(w) ==
  /\ WorkerAt(w, "files") /\ worker[w].op # "ensure" /\ ~Gathered(w)
  /\ IF InPool(Next_(w)) THEN Took(w, Inode(w), FALSE) ELSE Goto(w, "link")
  /\ UNCHANGED <<pool, roots, treeRefs, gens, calls, named>>
\* The hard link, which another worker's may have come before.
LinkFile(w) ==
  /\ WorkerAt(w, "link")
  /\ IF InPool(Next_(w)) THEN Took(w, Inode(w), FALSE) /\ UNCHANGED pool
     ELSE Took(w, Inode(w), worker[w].fresh) /\ pool' = [pool EXCEPT ![Next_(w)] = Inode(w)]
  /\ UNCHANGED <<roots, treeRefs, gens, calls, named>>
\* An import is done with its files; a tree some file of which the pool had
\* already is removed, and a fresh one is to be published.
Scanned(w) ==
  /\ WorkerAt(w, "files") /\ worker[w].op # "ensure" /\ Gathered(w)
  /\ IF worker[w].op = "intern" /\ worker[w].fresh THEN Goto(w, "lookup") ELSE WorkerReturn(w, "ok")
  /\ UNCHANGED <<pool, roots, treeRefs, gens, calls, named>>

\* lookup_materialized_root, in publish_scanned_root and in
\* ensure_materialized_root.
LookupRoot(w) ==
  /\ WorkerAt(w, "lookup")
  /\ IF roots[worker[w].tree].set
     THEN IF worker[w].op = "intern" THEN WorkerReturn(w, "ok") ELSE Goto(w, "ref")
     ELSE Goto(w, IF worker[w].op = "intern" THEN "publish" ELSE "files")
  /\ UNCHANGED <<pool, roots, treeRefs, gens, calls, named>>

\* materialize_into_existing_root in a staging directory of its own.
MaterializeFile(w) ==
  /\ WorkerAt(w, "files") /\ worker[w].op = "ensure" /\ ~Gathered(w)
  /\ IF InPool(Next_(w)) THEN Took(w, pool[Next_(w)], TRUE) ELSE Goto(w, "again")
  /\ UNCHANGED <<pool, roots, treeRefs, gens, calls, named>>
Materialized(w) ==
  /\ WorkerAt(w, "files") /\ worker[w].op = "ensure" /\ Gathered(w)
  /\ Goto(w, "publish")
  /\ UNCHANGED <<pool, roots, treeRefs, gens, calls, named>>

\* publish_materialized_fs_tree: a rename succeeds when nothing, or an empty
\* directory, is there.
Published(w) == IF worker[w].op = "intern" THEN "ok" ELSE "ref"
Publish(w) ==
  LET t == worker[w].tree
      free == ~roots[t].set \/ roots[t].files = <<>>
  IN /\ WorkerAt(w, "publish")
     /\ roots' = IF free THEN [roots EXCEPT ![t] = RootOf(worker[w].here)] ELSE roots
     /\ Goto(w, IF free THEN Published(w) ELSE "again")
     /\ UNCHANGED <<pool, treeRefs, gens, calls, named>>
\* What was staged is removed, and another worker's tree will do.
SecondLookup(w) ==
  /\ WorkerAt(w, "again")
  /\ Goto(w, IF roots[worker[w].tree].set THEN Published(w) ELSE "error")
  /\ UNCHANGED <<pool, roots, treeRefs, gens, calls, named>>

\* update_materialized_root_ref: the current target, a free counter, a
\* generation ref under it and the replacement.  No lock is taken.
ReadTreeRef(w) ==
  LET n == worker[w].name
  IN /\ WorkerAt(w, "ref")
     /\ IF n = NoName THEN WorkerReturn(w, "ok")
        ELSE IF ~treeRefs[n].set THEN Goto(w, "replace")
        ELSE IF treeRefs[n].files = worker[w].tree THEN WorkerReturn(w, "ok")
        ELSE worker' = [worker EXCEPT ![w].pc = "allocate", ![w].old = treeRefs[n].files]
     /\ UNCHANGED <<pool, roots, treeRefs, gens, calls, named>>
AllocateTreeGeneration(w) ==
  LET free == Len(gens[worker[w].name]) + 1
  IN /\ WorkerAt(w, "allocate")
     /\ IF free > MaxTreeGenerations THEN WorkerReturn(w, "error")
        ELSE worker' = [worker EXCEPT ![w].pc = "generation", ![w].slot = free]
     /\ UNCHANGED <<pool, roots, treeRefs, gens, calls, named>>
\* Whatever has the name by now is replaced.
CreateGeneration(w) ==
  LET n == worker[w].name
      slot == worker[w].slot
  IN /\ WorkerAt(w, "generation")
     /\ gens' = [gens EXCEPT ![n] = IF slot \in DOMAIN @ THEN [@ EXCEPT ![slot] = worker[w].old] ELSE Append(@, worker[w].old)]
     /\ Goto(w, "replace")
     /\ UNCHANGED <<pool, roots, treeRefs, calls, named>>
ReplaceTreeRef(w) ==
  LET n == worker[w].name
  IN /\ WorkerAt(w, "replace")
     /\ treeRefs' = [treeRefs EXCEPT ![n] = RootOf(worker[w].tree)]
     /\ named' = [named EXCEPT ![n] = @ \cup {worker[w].tree}]
     /\ WorkerReturn(w, "ok")
     /\ UNCHANGED <<pool, roots, gens, calls>>

\* An input or output error of the file operation that is next.  A failed
\* rename or link still looks for another worker's tree.
Fault(w) ==
  /\ worker[w].pc \in {"files", "link", "lookup", "publish", "ref", "allocate", "generation", "replace"}
  /\ LET failed == [worker[w] EXCEPT !.fault = TRUE]
     IN worker' = [worker EXCEPT ![w] =
          IF WorkerAt(w, "publish") \/ (WorkerAt(w, "files") /\ failed.op = "ensure") THEN [failed EXCEPT !.pc = "again"] ELSE Over(failed, "error")]
  /\ UNCHANGED <<pool, roots, treeRefs, gens, calls, named>>
\* The process of a worker is killed; its staging directory stays behind.
WorkerCrash(w) ==
  /\ worker[w].pc \notin {"idle", "ok", "error"}
  /\ worker' = [worker EXCEPT ![w] = Idle]
  /\ UNCHANGED <<pool, roots, treeRefs, gens, calls, named>>

Step(w) ==
  \/ intern_tree(w) \/ import_with_install(w) \/ ensure_materialized_root(w)
  \/ ScanFile(w) \/ LinkFile(w) \/ Scanned(w) \/ LookupRoot(w)
  \/ MaterializeFile(w) \/ Materialized(w) \/ Publish(w) \/ SecondLookup(w)
  \/ ReadTreeRef(w) \/ AllocateTreeGeneration(w) \/ CreateGeneration(w) \/ ReplaceTreeRef(w)
  \/ Fault(w) \/ WorkerCrash(w)
\* Two workers between reading a name and replacing it.
Updating(w, n) == worker[w].pc \in {"allocate", "generation", "replace"} /\ worker[w].name = n
Contention == {n \in Names : \E v, w \in Workers : v # w /\ Updating(v, n) /\ Updating(w, n)}
TreesNext == (\E w \in Workers : Step(w)) /\ contended' = contended \cup Contention'
TreesSpec == TreesInit /\ [][TreesNext]_treeVars

------------------------------------------------------------------------------
\* A published tree is complete, and each of its files is the pool's own
\* inode for the hash the tree names: trees share their files whichever way,
\* and however concurrently, they came into the store.
RootsFaithful ==
  \A t \in Trees : roots[t].set =>
    /\ Len(roots[t].files) = Len(t)
    /\ \A i \in DOMAIN t : InPool(t[i]) /\ roots[t].files[i] = pool[t[i]]
\* A call that met no error of its own succeeds whatever other workers do at
\* the same time, as long as the files of the tree to materialize were there
\* when it began and the counters of its name are not used up; a
\* materialization that succeeded is in place and its name has referred to it.
TreeCallsSucceed ==
  \A w \in Workers :
    /\ WorkerAt(w, "error") =>
         \/ worker[w].fault
         \/ worker[w].op = "ensure" /\ ~worker[w].able
         \/ worker[w].name # NoName /\ Len(gens[worker[w].name]) >= MaxTreeGenerations
    /\ (WorkerAt(w, "ok") /\ worker[w].op = "ensure") =>
         /\ roots[worker[w].tree].set
         /\ worker[w].name # NoName => worker[w].tree \in named[worker[w].name]
\* A name, and each of its generation refs, refers to a materialized tree; and
\* none of the trees it has referred to before is missing from its generation
\* refs, crashes between saving the old target and replacing it included,
\* unless two updates of that very name have overlapped.
TreeRefsKept ==
  \A n \in Names :
    /\ treeRefs[n].set => roots[treeRefs[n].files].set
    /\ \A i \in DOMAIN gens[n] : gens[n][i] \in Trees /\ roots[gens[n][i]].set
    /\ n \notin contended =>
         named[n] \subseteq {gens[n][i] : i \in DOMAIN gens[n]} \cup (IF treeRefs[n].set THEN {treeRefs[n].files} ELSE {})
\* What the tree store owes its users, however their calls interleave, fail
\* or are cut short: faithful shared trees, no failure that is somebody
\* else's, and names that keep their history.
TreesShared == RootsFaithful /\ TreeCallsSucceed /\ TreeRefsKept
=============================================================================
