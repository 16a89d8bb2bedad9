------------------------------ MODULE TreeCalls ------------------------------
(***************************************************************************)
(* The tree algorithms on small trees, and what each of them is for.         *)
(***************************************************************************)
EXTENDS TreeBuilders, Calls

a == <<97>>
aDash == <<97, 45>>          \* sorts between a and a/b
ab == <<97, Slash, 98>>
abc == <<97, Slash, 98, Slash, 99>>
b == <<98>>
Dir == 493
SetUid == 2541                \* 4755
User == <<7, 7>>
Plain == hash_fs_file(Root, 420, 1)
Tool == hash_fs_file(User, SetUid, 2)
Pool == {Plain, Tool}

------------------------------------------------------------------------------
(* Inputs.                                                                  *)

At(p, kind) ==
  CASE kind = "dir" -> <<DirEntry(p, Root, Dir)>>
    [] kind = "private" -> <<DirEntry(p, User, 448)>>
    [] kind = "plain" -> <<FileEntry(p, Plain)>>
    [] kind = "tool" -> <<FileEntry(p, Tool)>>
    [] kind = "link" -> <<LinkEntry(p, User, b)>>
    [] kind = "none" -> <<>>
\* Entries in an order that is not the canonical one.
Listed(k1, k2, k3, k4) ==
  At(abc, k4) \o At(ab, k3) \o At(aDash, k2) \o At(a, k1) \o <<DirEntry(<<>>, Root, Dir)>>
Lists ==
  {Listed(k1, k2, k3, k4) : k1 \in {"none", "dir", "private", "plain", "link"}, k2 \in {"none", "tool"},
                            k3 \in {"none", "private", "plain", "tool", "link"}, k4 \in {"none", "plain"}}
  \cup {Listed("dir", "none", "none", "none") \o At(a, "plain"), Listed("dir", "link", "dir", "tool") \o At(ab, "plain"),
        At(a, "dir"), At(<<>>, "link"), Listed("dir", "none", "none", "none") \o At(<<97, Slash, Dot, Slash, 98>>, "plain"),
        Listed("none", "none", "none", "none") \o At(<<97, Newline>>, "plain")}
Manifests == {from_entries(l).val : l \in {x \in Lists : from_entries(x).ok}}
Some == {from_entries(Listed(k1, k2, k3, k4)).val :
           k1 \in {"dir", "private"}, k2 \in {"none", "tool"}, k3 \in {"none", "dir", "plain", "tool"}, k4 \in {"none"}}
        \cup {from_entries(Listed("dir", "none", "dir", "plain")).val, from_entries(Listed("plain", "none", "none", "none")).val,
              from_entries(Listed("link", "tool", "none", "none")).val}

Glob(kind, p) == [kind |-> kind, path |-> p]
Globs == {Glob("exact", a), Glob("exact", ab), Glob("exact", aDash), Glob("below", a), Glob("below", ab), Glob("all", <<>>), Glob("exact", abc), Glob("exact", <<97, Slash, Dot, Dot>>)}
OneOrTwo(S) == {<<x>> : x \in S} \cup {<<x, y>> : x \in S, y \in S}

AttrSets == {[k \in Attrs |-> CASE k \in {"uid", "gid"} -> 7 [] k = "directory_mode" -> 448 [] k = "regular_file_mode" -> 384 [] OTHER -> SetUid],
             [k \in Attrs |-> IF k \in {"uid", "gid"} THEN 0 ELSE Unset],
             [k \in Attrs |-> IF k = "executable_file_mode" THEN 493 ELSE Unset],
             [k \in Attrs |-> IF k = "regular_file_mode" THEN 4096 ELSE Unset]}
Rules == {[glob |-> g, attrs |-> t] : g \in {Glob("all", <<>>), Glob("below", a), Glob("exact", ab)}, t \in AttrSets}
Base == [glob |-> Glob("all", <<>>), attrs |-> [k \in Attrs |-> IF k \in Modes THEN 493 ELSE 7]]
Sources == {materialize_fs_tree(m, Pool).val : m \in Some}

Single == {EmptyRoot(Regular(User, m, 3)) : m \in {511, SetUid, 292}} \cup {EmptyRoot(Symlink(Root, b)), EmptyRoot(Directory(Root, 1023))}

TreePaths == {a, ab, abc, aDash, <<97, Slash, Dot, Slash, 98>>, <<Dot, Slash, 97>>, <<97, Slash, Dot, Dot>>, <<97, Backslash, 98>>, <<>>}
TreeEntries ==
  {[kind |-> "file", path |-> p, text |-> 1, executable |-> x] : p \in TreePaths, x \in BOOLEAN}
  \cup {[kind |-> "dir", path |-> p] : p \in TreePaths}
  \cup {[kind |-> "symlink", path |-> p, target |-> t] : p \in TreePaths, t \in {<<>>, b}}

Copies == {[from |-> g, to |-> t] : g \in Globs, t \in {a, b, <<98, Slash, 99>>, <<Dot>>}}

E(p, type, owner, mode, target) ==
  [path |-> p, type |-> type, owner |-> owner, mode |-> mode, content |-> mode, target |-> target]
White(p) == Join(Parent(p), WhiteoutPrefix \o Name(p))
Opaque(p) == Join(p, OpaqueName)
Contents ==
  {E(a \o <<Slash>>, "directory", User, 448, <<>>), E(a, "file", User, SetUid, <<>>), E(a, "symlink", User, 511, b),
   E(ab, "file", Root, 420, <<>>), E(ab, "directory", Root, 488, <<>>), E(b, "hardlink", User, SetUid, a),
   E(b, "hardlink", Root, 0, ab), E(abc, "file", User, 416, <<>>), E(ab, "device", Root, 438, <<>>),
   E(<<Dot>>, "directory", Root, 448, <<>>), E(<<97, Slash, Dot, Dot>>, "file", Root, 420, <<>>)}
Whites == {E(White(a), "file", Root, 0, <<>>), E(White(ab), "file", Root, 0, <<>>), E(Opaque(a), "file", Root, 0, <<>>),
           E(Opaque(<<>>), "file", Root, 0, <<>>), E(WhiteoutPrefix, "file", Root, 0, <<>>)}
Layer(es) == [media |-> "gzip", entries |-> es]
Pairs == {<<x, y>> \in Contents \X Contents : x.path # y.path}
\* What is below a link is outside of the tree, and not what a whiteout is for.
BelowLink(i) ==
  /\ \E l \in DOMAIN i.layers, k \in 1..3 : k \in DOMAIN i.layers[l].entries /\ i.layers[l].entries[k].type = "symlink"
  /\ \E l \in DOMAIN i.layers, k \in 1..3 :
       k \in DOMAIN i.layers[l].entries /\ i.layers[l].entries[k].path \in {White(ab), Opaque(a)}
ImagesOf ==
  {[config |-> TRUE, layers |-> <<Layer(p), Layer(q)>>] :
     p \in Pairs, q \in {<<x>> : x \in Contents \cup Whites} \cup (Whites \X {E(ab, "file", Root, 420, <<>>), E(a, "file", User, 420, <<>>)})}
  \cup {[config |-> TRUE, layers |-> <<Layer(<<x, y, z>>)>>] : x \in Contents, y \in Contents, z \in Contents}
  \cup {[config |-> FALSE, layers |-> <<Layer(<<>>)>>], [config |-> TRUE, layers |-> <<[media |-> "other", entries |-> <<>>]>>]}
Images ==
  {i \in ImagesOf : ~BelowLink(i)}

\* Files that hold a manifest, but not its canonical form.
Sloppy == {Reverse(to_canonical(m)) : m \in {x \in Some : Len(x) = 3}}
          \cup {[i \in DOMAIN m |-> [entry |-> m[i], canonical |-> i # 2]] : m \in {x \in Some : Len(x) = 2}}

TreeCases ==
  [op : {"canonical"}, list : Lists]
  \cup [op : {"merge"}, lines : OneOrTwo({to_canonical(m) : m \in Some} \cup Sloppy)]
  \cup [op : {"subset"}, m : Manifests, include : OneOrTwo(Globs) \cup {<<>>}]
  \cup [op : {"move"}, m : Manifests, prefix : {a, ab, aDash, b, <<Dot>>}]
  \cup [op : {"install"}, fs : Sources, rules : {<<>>} \cup OneOrTwo(Rules) \cup {<<Base>> \o r : r \in OneOrTwo(Rules)}]
  \cup [op : {"tree"}, entries : {<<>>} \cup OneOrTwo(TreeEntries)]
  \cup [op : {"export"}, m : Some, copies : {<<>>} \cup OneOrTwo(Copies), pool : {Pool, {Plain}}]
  \cup [op : {"copy"}, copies : OneOrTwo([kind : {"tree", "file"}, source : Sources \cup Single, dest : {a, ab, b}])]
  \cup [op : {"collect"}, inputs : {<<>>} \cup {<<[name |-> a, source |-> x], [name |-> b, source |-> y]>> : x \in Sources \cup Single, y \in Sources \cup Single}]
  \cup [op : {"group"}, inputs : {<<>>, <<a>>, <<a, b>>}]
  \cup [op : {"seal"}, fs : Sources \cup Single]
  \cup [op : {"extract"}, image : Images]

------------------------------------------------------------------------------
(* The calls.                                                               *)

CanonicalForm == Call("canonical", Then(from_entries(input.list), LAMBDA m : materialize_fs_tree(m, Pool)))
Merge == Call("merge", build_tree_merge(input.lines))
Subset == Call("subset", build_tree_subset(to_canonical(input.m), input.include))
MoveTree == Call("move", build_tree_move(to_canonical(input.m), input.prefix))
Install == Call("install", import_with_install(input.fs, input.rules))
Tree == Call("tree", build_tree(input.entries))
Export == Call("export", build_fs_tree_export(to_canonical(input.m), input.copies, input.pool))
CopyTrees == Call("copy", copy_plain_tree(input.copies))
Bundle == Call("collect", build_bundle(input.inputs))
Group == Call("group", build_group(input.inputs))
Seal == Call("seal", Ok(make_tree_read_only(input.fs)))
ExtractImage == Call("extract", extract_oci_image(input.image))
TreeCall ==
  CanonicalForm \/ Merge \/ Subset \/ MoveTree \/ Install \/ Tree \/ Export \/ CopyTrees
    \/ Bundle \/ Group \/ Seal \/ ExtractImage

Same(fs, nodes) == [p \in DOMAIN fs.nodes |-> [fs.nodes[p] EXCEPT !.time = "now"]] = nodes

------------------------------------------------------------------------------
(* What the calls are for.                                                  *)

\* A set of entries that describes one tree: a directory as its root, one
\* entry for a path, and directories all the way up from each.
Describes(S) ==
  /\ \A e, f \in S : e.path = f.path => e = f
  /\ \A e \in S : ValidEntry(e) /\ \A q \in Ancestors(e.path) : \E d \in S : d.path = q /\ d.kind = "directory"
  /\ \E d \in S : d.path = <<>> /\ d.kind = "directory"

\* A list of entries is accepted exactly when it describes a tree, whatever
\* its order.  What is accepted can be materialized, all inside its root and
\* with the canonical times, and scanning the result gives the manifest back.
ManifestsRoundTrip ==
  Answered("canonical") =>
    /\ output.ok <=> Describes(ToSet(input.list)) /\ IsInjective(input.list)
    /\ output.ok =>
         /\ ~output.val.escaped
         /\ scan_fs_tree(output.val) = from_entries(input.list)
         /\ \A p \in Paths(output.val) : output.val.nodes[p].time = "canonical"

MergeExact ==
  LET S == UNION {{l.entry : l \in ToSet(input.lines[i])} : i \in DOMAIN input.lines}
  IN /\ output.ok <=> /\ Len(input.lines) > 1 /\ Describes(S)
                      /\ \A i \in DOMAIN input.lines : input.lines[i] \notin Sloppy
     /\ output.ok => ToSet(output.val) = S
SubsetExact ==
  LET chosen == {e \in ToSet(input.m) : e.path # <<>> /\ \E i \in DOMAIN input.include :
                   \/ GlobMatches(input.include[i], e.path)
                   \/ input.include[i].kind = "below" /\ input.include[i].path = e.path}
  IN /\ output.ok <=> chosen # {} /\ \A i \in DOMAIN input.include : ValidPattern(input.include[i])
     /\ output.ok => LET S == ToSet(output.val)
                     IN /\ chosen \subseteq S /\ S \subseteq ToSet(input.m) /\ Describes(S)
                        /\ \A e \in S \ chosen : ~Describes(S \ {e})
MoveExact ==
  LET S == ToSet(input.m)
      inside == {e \in S : Below(e.path, input.prefix)}
  IN /\ output.ok <=> inside # {} /\ \A e \in S \ inside : e.path = input.prefix \/ Below(input.prefix, e.path)
     /\ output.ok => {[e EXCEPT !.path = Join(input.prefix, e.path)] : e \in {x \in ToSet(output.val) : x.path # <<>>}} = inside
\* Merging takes the union of trees that agree where they overlap, in any
\* order; a subset is the smallest tree with everything selected; moving a
\* tree up loses nothing that was below the prefix, and is refused when
\* anything else was there.
TreeAlgebra ==
  /\ Answered("merge") => MergeExact
  /\ Answered("subset") => SubsetExact
  /\ Answered("move") => MoveExact

\* Each attribute of an installed entry comes from the last rule that matches
\* its path and sets it, files get exactly the owner and mode asked for, the
\* set-id bits included, and an import is refused when an attribute that is
\* needed comes from no rule.
InstallDetermined ==
  LET setting(p, k) == {i \in DOMAIN input.rules : install_rule_matches(input.rules[i], p) /\ input.rules[i].attrs[k] # Unset}
      value(p, k) == input.rules[Max(setting(p, k))].attrs[k]
      wanted(p) ==
        LET n == input.fs.nodes[p]
            owner == <<value(p, "uid"), value(p, "gid")>>
        IN CASE n.kind = "directory" -> DirEntry(p, owner, value(p, "directory_mode"))
             [] n.kind = "symlink" -> LinkEntry(p, owner, n.target)
             [] n.kind = "file" -> FileEntry(p, hash_fs_file(owner, value(p, IF Executable(n.mode) THEN "executable_file_mode" ELSE "regular_file_mode"), n.content))
  IN Answered("install") =>
       /\ output.ok <=> /\ input.rules # <<>> /\ \A i \in DOMAIN input.rules, k \in Modes : input.rules[i].attrs[k] <= MaxMode
                        /\ \A p \in Paths(input.fs), k \in Attrs : k \in Needed(input.fs.nodes[p]) => setting(p, k) # {}
       /\ output.ok => ToSet(output.val) = {wanted(p) : p \in Paths(input.fs)}

TreeExact ==
  LET es == input.entries
      norm(e) == Normalized(e.path)
      node(e) == CASE e.kind = "file" -> Regular(Root, IF e.executable THEN 493 ELSE 420, e.text)
                   [] e.kind = "dir" -> Directory(Root, 493)
                   [] e.kind = "symlink" -> Symlink(Root, e.target)
      above == UNION {Ancestors(norm(es[i])) : i \in DOMAIN es}
      named == {norm(es[i]) : i \in DOMAIN es}
      tree == [p \in above \cup named |->
                 IF p \in named THEN node(es[CHOOSE i \in DOMAIN es : norm(es[i]) = p]) ELSE Directory(Root, 493)]
  IN /\ output.ok <=> /\ es # <<>> /\ \A i \in DOMAIN es : ValidTreeEntry(es[i])
                      /\ Cardinality(named) = Len(es)
                      /\ \A p \in above \cap named : tree[p].kind = "directory"
     /\ output.ok => /\ ~output.val.escaped
                     /\ Same(output.val, IF Len(es) = 1 /\ es[1].kind = "file" /\ Slashes(norm(es[1])) = {}
                                         THEN [p \in {<<>>} |-> node(es[1])] ELSE tree)
ExportExact ==
  LET plan == resolve_export_plan(input.m, input.copies)
      dests == {plan.val[i].dest : i \in DOMAIN plan.val}
      op(d) == plan.val[CHOOSE i \in DOMAIN plan.val : plan.val[i].dest = d]
      above == UNION {Ancestors(d) : d \in dests}
      node(e) == IF e.kind = "symlink" THEN Symlink(Root, e.target)
                 ELSE Regular(Root, Without(e.hash.mode, {1024, 2048}), e.hash.content)
      chosen(c) == {e \in ToSet(input.m) : Copyable(e) /\
                      (GlobMatches(c.from, e.path) \/ (c.from.kind = "exact" /\ Below(e.path, c.from.path)))}
  IN /\ plan.ok => \A e \in ToSet(input.m) : (\E i \in DOMAIN input.copies : e \in chosen(input.copies[i]))
                                             <=> \E d \in dests : op(d).entry = e
     /\ (plan.ok /\ input.copies # <<>> /\ dests \cap above = {}) =>
          /\ output.ok <=> \A d \in dests : op(d).entry.kind = "file" => op(d).entry.hash \in input.pool
          /\ output.ok => Same(output.val, [p \in dests \cup above |->
                                 IF p \in dests THEN node(op(p).entry) ELSE Directory(Root, 493)])
     /\ output.ok => plan.ok /\ input.copies # <<>>
CopyExact ==
  LET placed(c) == {Join(c.dest, p) : p \in Paths(c.source)}
      cs == ToSet(input.copies)
      apart == \A i, j \in DOMAIN input.copies : i # j => placed(input.copies[i]) \cap placed(input.copies[j]) = {}
  IN (output.ok /\ apart) =>
       /\ Paths(output.val) = UNION {placed(c) \cup Ancestors(c.dest) : c \in cs}
       /\ \A c \in cs : \A p \in Paths(c.source) :
            output.val.nodes[Join(c.dest, p)] \in {[n EXCEPT !.owner = Root, !.time = "now"] :
              n \in {c.source.nodes[p]} \cup (IF c.source.nodes[p].kind # "file" THEN {}
                                              ELSE {[c.source.nodes[p] EXCEPT !.mode = Without(@, {1024, 2048})]})}
BundleExact ==
  LET only(src) == IF IsDir(src, <<>>) THEN {p \in Paths(src) : Depth(p) = 1 /\ src.nodes[p].kind = "file"}
                   ELSE {p \in {<<>>} : src.nodes[p].kind = "file"}
      is == input.inputs
  IN /\ output.ok <=> is # <<>> /\ \A i \in DOMAIN is : Cardinality(only(is[i].source)) = 1
     /\ output.ok => /\ Paths(output.val) = {<<>>} \cup {is[i].name : i \in DOMAIN is}
                     /\ \A i \in DOMAIN is, p \in UNION {only(is[k].source) : k \in DOMAIN is} :
                          p \in only(is[i].source) => output.val.nodes[is[i].name] = is[i].source.nodes[p]
\* A sealed tree passes the verification, and differs in nothing but its bits.
SealExact ==
  /\ verify_tree_read_only(output.val)
  /\ \A p \in Paths(input.fs) :
       output.val.nodes[p] = IF input.fs.nodes[p].kind = "symlink" THEN input.fs.nodes[p]
                             ELSE [input.fs.nodes[p] EXCEPT !.mode = output.val.nodes[p].mode]
\* A tree of a recipe, an export and a copy of plain trees hold exactly what
\* was asked for and the directories above it, owned by root; recipes that
\* want two things at one path are refused, and nothing is written through
\* a link.
BuiltTreesExact ==
  /\ Answered("tree") => TreeExact
  /\ Answered("export") => ExportExact
  /\ Answered("copy") => CopyExact
  /\ Answered("collect") => BundleExact
  /\ Answered("group") => (output.ok <=> input.inputs # <<>>)
  /\ Answered("seal") => SealExact

\* Trees are what their manifests, their rules and their recipes say.
TreesExact == ManifestsRoundTrip /\ TreeAlgebra /\ InstallDetermined /\ BuiltTreesExact

\* The entries of all layers in order, each with the place it means.
Placed(e) == LET at == sanitize_tar_path(e.path)
             IN [entry |-> e, valid |-> at.ok, at |-> IF at.ok THEN at.val ELSE <<>>, target |-> sanitize_tar_path(e.target)]
Stream == [i \in DOMAIN FlattenSeq([l \in DOMAIN input.image.layers |-> input.image.layers[l].entries]) |->
             Placed(FlattenSeq([l \in DOMAIN input.image.layers |-> input.image.layers[l].entries])[i])]
Removes(x, p) ==
  LET q == x.at
  IN IF Name(q) = OpaqueName THEN Below(p, Parent(q))
     ELSE IF IsWhiteout(q) THEN LET v == Join(Parent(q), SubSeq(Name(q), 5, Len(Name(q)))) IN p = v \/ Below(p, v)
     ELSE x.entry.type \in {"file", "symlink", "hardlink"} /\ (p = q \/ Below(p, q))
Puts(x, p) == ~IsWhiteout(x.at) /\ x.entry.type # "device" /\ p # <<>> /\ (p = x.at \/ Below(x.at, p))
\* Of the first n entries: those that put p there after the last one that
\* cleared the way for it.
Putting(s, p, n) ==
  LET cleared == Max({0} \cup {i \in 1..n : Removes(s[i], p)})
  IN {i \in cleared..n : i > 0 /\ Puts(s[i], p)}
\* The owner, mode and content a path has after the first n entries.
Final(s, p, n) == LET own == {i \in Putting(s, p, n) : s[i].at = p}
                  IN IF own = {} THEN E(p, "directory", Root, 493, <<>>) ELSE s[Max(own)].entry
FinalEntry(s, p) ==
  LET e == Final(s, p, Len(s))
      at == CHOOSE i \in DOMAIN s : s[i].entry = e
      linked == IF e.type = "hardlink" THEN Final(s, s[at].target.val, at - 1) ELSE e
  IN CASE e.type = "directory" -> DirEntry(p, e.owner, e.mode)
       [] e.type = "symlink" -> LinkEntry(p, e.owner, e.target)
       [] OTHER -> FileEntry(p, hash_fs_file(e.owner, IF e.mode = 0 THEN linked.mode ELSE e.mode, linked.content))
\* Nothing in an image speaks against it: every path is a place in the tree,
\* and what lies above it is a directory when its turn comes.
Sound(s) ==
  /\ input.image.config /\ \A i \in DOMAIN input.image.layers : input.image.layers[i].media = "gzip"
  /\ \A i \in DOMAIN s :
       /\ s[i].valid /\ s[i].entry.type # "hardlink" /\ Name(s[i].at) # WhiteoutPrefix
       /\ \A q \in Ancestors(s[i].at) \ {<<>>} : Putting(s, q, i - 1) # {} => Final(s, q, i - 1).type = "directory"
LayersFaithful(s) ==
  /\ Sound(s) => output.ok
  /\ output.ok =>
       LET paths == UNION {{s[i].at} \cup Ancestors(s[i].at) : i \in DOMAIN s}
       IN ToSet(output.val) = {DirEntry(<<>>, Root, 493)}
            \cup {FinalEntry(s, p) : p \in {q \in paths : Putting(s, q, Len(s)) # {}}}
\* The tree of an image is what its layers say taken together: at each path
\* what the last entry for it put there, unless a later whiteout, opaque
\* marker or replaced ancestor took it away, with its owner and mode.  Layers
\* nothing speaks against are extracted, however they replace each other.
OciLayersFaithful == Answered("extract") => LayersFaithful(Stream)
=============================================================================
