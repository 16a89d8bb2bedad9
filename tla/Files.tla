-------------------------------- MODULE Files --------------------------------
(***************************************************************************)
(* What the tree modules assume of paths and of the file system below one   *)
(* directory.  A path is the sequence of its bytes, relative, <<>> for the   *)
(* directory itself.  A file system is [nodes, escaped]: the node at every   *)
(* path, and whether a write went through a symbolic link to somewhere else. *)
(* Operations return Ok(file system) or Err, and work as for a privileged    *)
(* user: only missing parents and occupied names make them fail.             *)
(***************************************************************************)
EXTENDS Naturals, Sequences, FiniteSets, FiniteSetsExt, SequencesExt

Ok(v) == [ok |-> TRUE, val |-> v]
Err == [ok |-> FALSE]
\* The next operation of a sequence, which the first error ends.
Then(r, Op(_)) == IF r.ok THEN Op(r.val) ELSE r
\* Op for the elements of a sequence, in order.
ForEach(start, seq, Op(_, _)) ==
  FoldLeft(LAMBDA r, x : IF r.ok THEN Op(r.val, x) ELSE r, Ok(start), seq)

\* The elements of a set in some order, and in the order of Less.
Listing(S) == FoldSet(LAMBDA x, s : Append(s, x), <<>>, S)
SortedListing(S, Less(_, _)) == SortSeq(Listing(S), Less)

Slash == 47
Dot == 46
Newline == 10
Backslash == 92
Slashes(p) == {i \in DOMAIN p : p[i] = Slash}
Parent(p) == IF Slashes(p) = {} THEN <<>> ELSE SubSeq(p, 1, Max(Slashes(p)) - 1)
Name(p) == IF Slashes(p) = {} THEN p ELSE SubSeq(p, Max(Slashes(p)) + 1, Len(p))
Ancestors(p) == IF p = <<>> THEN {} ELSE {<<>>} \cup {SubSeq(p, 1, i - 1) : i \in Slashes(p)}
Depth(p) == Cardinality(Ancestors(p))
Join(a, b) == IF a = <<>> THEN b ELSE IF b = <<>> THEN a ELSE a \o <<Slash>> \o b
\* p is below q, and what is left of it then.
Below(p, q) == IF q = <<>> THEN p # <<>> ELSE IsPrefix(Append(q, Slash), p)
Rest(p, q) == IF q = <<>> THEN p ELSE SubSeq(p, Len(q) + 2, Len(p))
\* What split('/') yields.
ComponentSeq(p) ==
  LET cut == SortedListing({0} \cup Slashes(p) \cup {Len(p) + 1}, <)
  IN [i \in 1..(Len(cut) - 1) |-> SubSeq(p, cut[i] + 1, cut[i + 1] - 1)]
Components(p) == ToSet(ComponentSeq(p))
JoinAll(names) == FoldLeft(Join, <<>>, names)
Unsafe == {<<>>, <<Dot>>, <<Dot, Dot>>}
Control(p) == \E i \in DOMAIN p : p[i] < 32
\* The order of strings by their bytes.
BytesLess(p, q) ==
  \/ IsStrictPrefix(p, q)
  \/ \E i \in DOMAIN p \cap DOMAIN q :
       p[i] < q[i] /\ SubSeq(p, 1, i - 1) = SubSeq(q, 1, i - 1)

Directory(owner, mode) == [kind |-> "directory", owner |-> owner, mode |-> mode, time |-> "now"]
Regular(owner, mode, content) ==
  [kind |-> "file", owner |-> owner, mode |-> mode, content |-> content, time |-> "now"]
Symlink(owner, target) == [kind |-> "symlink", owner |-> owner, target |-> target, time |-> "now"]
Special(owner) == [kind |-> "special", owner |-> owner, time |-> "now"]
Root == <<0, 0>>

Holds(fs, p) == p \in DOMAIN fs.nodes
IsDir(fs, p) == Holds(fs, p) /\ fs.nodes[p].kind = "directory"
Paths(fs) == DOMAIN fs.nodes
EmptyRoot(node) == [nodes |-> [p \in {<<>>} |-> node], escaped |-> FALSE]

Put(fs, p, node) ==
  [fs EXCEPT !.nodes = [q \in DOMAIN fs.nodes \cup {p} |->
     IF q = p THEN node
     ELSE IF q = Parent(p) /\ p \notin DOMAIN fs.nodes THEN [fs.nodes[q] EXCEPT !.time = "now"]
     ELSE fs.nodes[q]]]
\* mkdir, link and symlink: a new name in an existing directory.
Create(fs, p, node) ==
  IF ~Holds(fs, Parent(p)) THEN Err
  ELSE IF fs.nodes[Parent(p)].kind = "symlink" THEN Ok([fs EXCEPT !.escaped = TRUE])
  ELSE IF ~IsDir(fs, Parent(p)) \/ Holds(fs, p) THEN Err
  ELSE Ok(Put(fs, p, node))
\* open for writing: an existing regular file keeps its owner and mode.
Write(fs, p, node) ==
  IF Holds(fs, p) /\ fs.nodes[p].kind = "file"
  THEN Ok([fs EXCEPT !.nodes[p].content = node.content, !.nodes[p].time = "now"])
  ELSE IF Holds(fs, p) /\ fs.nodes[p].kind = "symlink" THEN Ok([fs EXCEPT !.escaped = TRUE])
  ELSE Create(fs, p, node)
\* create_dir_all; a link to a directory counts as one.
MkdirAll(fs, p, node) ==
  ForEach(fs, SortedListing(Ancestors(p) \cup {p}, LAMBDA a, b : Len(a) < Len(b)),
    LAMBDA f, d : IF Holds(f, d)
                  THEN IF f.nodes[d].kind \in {"directory", "symlink"} THEN Ok(f) ELSE Err
                  ELSE Create(f, d, node))
\* A tree without the entry at p and what is below it.
RemoveAll(fs, p) ==
  [fs EXCEPT !.nodes = [q \in {x \in DOMAIN fs.nodes : x # p /\ ~Below(x, p)} |->
     IF q = Parent(p) THEN [fs.nodes[q] EXCEPT !.time = "now"] ELSE fs.nodes[q]]]
Chmod(fs, p, mode) == [fs EXCEPT !.nodes[p].mode = mode]
Bit(mode, b) == (mode \div b) % 2 = 1
Executable(mode) == \E b \in {1, 8, 64} : Bit(mode, b)
Without(mode, bits) ==
  mode - SumSet({b \in bits : Bit(mode, b)})
\* lchown: a new owner takes the set-id bits off a regular file.
Chown(fs, p, owner) ==
  LET n == fs.nodes[p]
      m == IF n.kind = "file" THEN [n EXCEPT !.owner = owner, !.mode = Without(n.mode, {1024, 2048})]
           ELSE [n EXCEPT !.owner = owner]
  IN [fs EXCEPT !.nodes[p] = m]
ChownIfNeeded(fs, p, owner) == IF fs.nodes[p].owner = owner THEN fs ELSE Chown(fs, p, owner)
SetTimes(fs, p) == [fs EXCEPT !.nodes[p].time = "canonical"]
=============================================================================
