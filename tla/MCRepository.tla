---------------------------- MODULE MCRepository ----------------------------
(* A remote repository for TLC, in one of four scenes: one administrator   *)
(* over several masters and the deadlines of their slots; the same beside  *)
(* the status command, with slots that expire at once; two administrators  *)
(* who race; or two readers that share a cache.                            *)
EXTENDS RemoteRepository, TLC

CONSTANTS a1, a2,               \* administrators
          k1, o1, o2, o3, f1,   \* a build key, objects, an fs-file
          p1, p2,               \* readers
          h1, h2, h3            \* indexes

VARIABLES scene,
          origin, master, etag, file, reader, overlapped
readerVars == <<origin, master, etag, file, reader, overlapped>>

Contents(candidates, files) ==
  [maps |-> [k \in MapKeys |-> candidates], objects |-> ToSet(candidates), files |-> files]

\* A store before and after a rebuild of k1, the first time with an fs-tree of one file.
Rebuilt == {Contents(<<o1>>, {f1}), Contents(<<o2>>, {})}

Watched == INSTANCE RemoteRepository WITH
  SharedCache <- FALSE, Retention <- 0, StatusRuns <- TRUE, MaxTime <- 0

Race == INSTANCE RemoteRepository WITH
  Admins <- {a1, a2}, Inventories <- {Contents(<<o1>>, {})}, Actions <- {"append", "add-slot", "rotate"},
  MaxMasters <- 2, MaxTime <- 0

\* A slot is added before another, while the first one's index changes.
Reading == INSTANCE RepositoryReader WITH
  Readers <- {p1, p2}, MaxVersion <- 2, Slots <- << <<h1>>, <<h3, h2>> >>, Indexes <- {h1, h2, h3},
  Candidates <- [h \in {h1, h2, h3} |-> CASE h = h1 -> <<>> [] h = h2 -> <<o2, o1>> [] h = h3 -> <<o3, o1>>],
  Answers <- [h \in {h1, h2, h3} |-> {"ok", "transport"} \cup (IF h = h3 THEN {"missing"} ELSE {})],
  CacheMay <- {"absent", "corrupt"}, Etags <- BOOLEAN, Kills <- TRUE

ScenesInit ==
  \/ scene \in {"cycle", "watched"} /\ Init /\ Reading!Init /\ file = [h \in {h1, h2, h3} |-> "absent"]
  \/ scene = "race" /\ Race!Init /\ Reading!Init /\ file = [h \in {h1, h2, h3} |-> "absent"]
  \/ scene = "read" /\ Init /\ Reading!Init /\ file[h1] = "absent" /\ file[h3] = "absent"
ScenesNext ==
  \/ scene = "cycle" /\ Next /\ UNCHANGED <<scene, readerVars>>
  \/ scene = "watched" /\ Watched!Next /\ UNCHANGED <<scene, readerVars>>
  \/ scene = "race" /\ Race!Next /\ UNCHANGED <<scene, readerVars>>
  \/ scene = "read" /\ Reading!Next /\ UNCHANGED <<scene, vars>>
ScenesSpec == ScenesInit /\ [][ScenesNext]_<<vars, scene, readerVars>>

Symmetry == Permutations({p1, p2}) \cup Permutations({a1, a2})

\* What RepositoryReader promises of lookups and of the shared cache.
ReadsHarmless == scene = "read" => Reading!LookupsSound /\ Reading!CacheHarmless
=============================================================================
