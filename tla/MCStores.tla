--------------------------- MODULE MCStores ---------------------------
(* The working store and its trees for TLC, one or the other in a          *)
(* behaviour.  The objects: a plain file, two fs-tree                      *)
(* manifests, one of which the repository cannot complete, and a read-only *)
(* directory.                                                              *)
EXTENDS WorkingStore, TreeStore, TLC

CONSTANTS w1, w2,         \* writers
          v1, v2,         \* workers at the trees
          file, tree, part, dir,  \* objects
          f1, f2, f3,     \* fs-files
          k1, k2, sf, st, sp, sd,  \* build keys; of the objects as sources
          r1, r2,         \* reuse keys
          n1, n2          \* ref names

VARIABLE scene            \* which of the two this behaviour is about

TreeFiles == [h \in Hashes |-> CASE h = tree -> {f1, f2} [] h = part -> {f3} [] OTHER -> {}]
SourceKeys == [h \in Hashes |-> CASE h = file -> sf [] h = tree -> st [] h = part -> sp [] h = dir -> sd]

BuildOp(k, r, h, n) == [op |-> "build", key |-> k, reuse |-> r, hash |-> h, want |-> h, name |-> n]
ExistingOp(k, r, h, n) ==
  [op |-> "existing", key |-> k, reuse |-> r, hash |-> h, want |-> h, name |-> n]
MappingOp(k, h) == [op |-> "mapping", key |-> k, reuse |-> {}, hash |-> h, want |-> h, name |-> n1]
ReuseMappingOp(k, r, h) ==
  [op |-> "reuseMapping", key |-> k, reuse |-> {r}, hash |-> h, want |-> h, name |-> n1]
SourceOp(want, got, n) ==
  [op |-> "source", key |-> k1, reuse |-> {}, hash |-> got, want |-> want, name |-> n]
SourceHitOp(h, n) == [op |-> "sourceHit", key |-> k1, reuse |-> {}, hash |-> h, want |-> h, name |-> n]
CopyOp(want, got) == [op |-> "copy", key |-> k1, reuse |-> {}, hash |-> got, want |-> want, name |-> n1]

\* Two writers meet at the same objects and at a name; the other name is the
\* second one's.  The first one builds and reuses; the second one brings
\* manifests without their files, completes what the repository can complete,
\* and gets wrong content.
CrashScript ==
  [w \in Writers |->
     IF w = w1
     THEN <<BuildOp(k1, {r1}, tree, n1), SourceOp(dir, dir, n1), ExistingOp(k2, {r2}, tree, n1)>>
     ELSE <<SourceOp(tree, tree, n2), CopyOp(tree, tree), CopyOp(file, dir), SourceOp(tree, dir, n2), SourceOp(part, part, n2),
            CopyOp(part, part), SourceHitOp(dir, n1), ReuseMappingOp(k2, r2, tree), MappingOp(k1, tree)>>]

\* Trees with a file twice, with a shared file, and without any.
SmallTrees == {<<>>, <<f1>>, <<f1, f1>>}
\* The script tells writers apart, but nothing does so with workers.
AlikeWorkers == Permutations(Workers)

StoresInit == Init /\ TreesInit /\ scene \in {"objects", "trees"}
StoresNext ==
  \/ scene = "objects" /\ Next /\ UNCHANGED <<treeVars, scene>>
  \/ scene = "trees" /\ TreesNext /\ UNCHANGED <<vars, scene>>
StoresSpec == StoresInit /\ [][StoresNext]_<<vars, treeVars, scene>>
=============================================================================
