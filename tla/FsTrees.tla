------------------------------- MODULE FsTrees -------------------------------
(***************************************************************************)
(* Filesystem trees (bobr-store fs_tree.rs): manifests, their canonical     *)
(* form, merging, subsetting and re-rooting them, scanning a directory into  *)
(* one, importing one by install rules, and materializing one.              *)
(*                                                                          *)
(* A manifest is the sequence of its entries.  The hash of a file is the     *)
(* record of what is hashed, so two files share a hash exactly when owner,   *)
(* mode and content agree.  A line of a manifest file is the entry it parses *)
(* to and whether its bytes are the canonical ones of that entry.            *)
(***************************************************************************)
EXTENDS Integers, Files

MaxMode == 4095
hash_fs_file(owner, mode, content) == [owner |-> owner, mode |-> mode, content |-> content]
FileEntry(p, hash) == [kind |-> "file", path |-> p, hash |-> hash]
DirEntry(p, owner, mode) == [kind |-> "directory", path |-> p, owner |-> owner, mode |-> mode]
LinkEntry(p, owner, target) == [kind |-> "symlink", path |-> p, owner |-> owner, target |-> target]

------------------------------------------------------------------------------
(* Manifests.                                                               *)

ValidPath(p) == ~Control(p) /\ (p = <<>> \/ Components(p) \cap Unsafe = {})
ValidEntry(e) ==
  /\ ValidPath(e.path)
  /\ e.kind = "symlink" => ~Control(e.target)
  /\ e.kind = "directory" => e.mode <= MaxMode

\* validate_entries, of a sorted sequence: equal paths are neighbours.
ValidEntries(es) ==
  /\ es # <<>> /\ \A i \in DOMAIN es : ValidEntry(es[i])
  /\ \A i \in DOMAIN es \ {1} : es[i].path # es[i - 1].path
  /\ es[1].path = <<>> /\ es[1].kind = "directory"
  /\ \A i \in DOMAIN es \ {1} :
       \E j \in DOMAIN es : es[j].path = Parent(es[i].path) /\ es[j].kind = "directory"

Sorted(es) == SortSeq(es, LAMBDA l, r : BytesLess(l.path, r.path))
from_entries(es) == IF ValidEntries(Sorted(es)) THEN Ok(Sorted(es)) ELSE Err

\* A line with exactly the keys of its kind, and the line of an entry.
parse_entry_line(line) == IF line.canonical THEN Ok(line.entry) ELSE Err
canonical_entry(e) == [entry |-> e, canonical |-> TRUE]
\* parse_canonical_bytes, to_canonical_bytes.
parse_canonical(lines) ==
  Then(ForEach(<<>>, lines, LAMBDA es, l : Then(parse_entry_line(l), LAMBDA e : Ok(Append(es, e)))),
       LAMBDA es : IF from_entries(es) = Ok(es) THEN Ok(es) ELSE Err)
to_canonical(m) == [i \in DOMAIN m |-> canonical_entry(m[i])]

PathsOf(m) == {m[i].path : i \in DOMAIN m}
EntryAt(m, p) == m[CHOOSE i \in DOMAIN m : m[i].path = p]

------------------------------------------------------------------------------
(* Patterns: [kind, path] with kind "exact", "below" for path/** and "all"   *)
(* for **.                                                                   *)

GlobMatches(g, p) ==
  \/ g.kind = "exact" /\ p = g.path
  \/ g.kind = "below" /\ Below(p, g.path)
  \/ g.kind = "all" /\ p # <<>>
\* "path/**" is also taken to match path itself.
MatchesOrIsBase(g, p) == GlobMatches(g, p) \/ (g.kind = "below" /\ p = g.path)

\* validate_fs_tree_subset_pattern.
ValidPattern(g) == g.kind = "all" \/ (g.path # <<>> /\ g.path[1] # Slash /\ <<Dot, Dot>> \notin Components(g.path) /\ Backslash \notin ToSet(g.path))
Selected(m, include) ==
  {p \in PathsOf(m) \ {<<>>} : \E i \in DOMAIN include : MatchesOrIsBase(include[i], p)}
\* add_fs_tree_subset_parent_dirs; m has them all.
WithParents(S) == S \cup UNION {Ancestors(p) : p \in S}
subset_manifest(m, include) ==
  LET chosen == Selected(m, include)
  IN IF chosen = {} \/ \E i \in DOMAIN include : ~ValidPattern(include[i]) THEN Err
     ELSE from_entries(SelectSeq(m, LAMBDA e : e.path \in WithParents(chosen)))

\* merge_manifests: the first entry at a path stays, a different one conflicts.
MergeInto(by, e) ==
  IF \E f \in by : f.path = e.path
  THEN IF e \in by THEN Ok(by) ELSE Err
  ELSE Ok(by \cup {e})
merge_manifests(ms) ==
  IF ms = <<>> THEN Err
  ELSE Then(ForEach({}, FlattenSeq(ms), MergeInto), LAMBDA by : from_entries(Listing(by)))

\* strip_prefix_manifest: the entries on the way to the prefix go, the ones
\* below it lose it, and one elsewhere is an error.
strip_prefix_manifest(m, prefix) ==
  LET moved == {p \in PathsOf(m) : Below(p, prefix)}
      onTheWay == Ancestors(prefix) \cup {prefix}
  IN IF Components(prefix) \cap Unsafe # {} \/ moved = {} \/ ~(PathsOf(m) \subseteq moved \cup onTheWay)
     THEN Err
     ELSE from_entries([i \in 1..(Cardinality(moved) + 1) |->
            LET kept == SelectSeq(m, LAMBDA e : e.path \in moved \cup {<<>>})
            IN IF kept[i].path = <<>> THEN kept[i]
               ELSE [kept[i] EXCEPT !.path = Rest(kept[i].path, prefix)]])

------------------------------------------------------------------------------
(* From a directory to a manifest.                                          *)

NodeHash(n) == hash_fs_file(n.owner, n.mode, n.content)
\* scan_entry for every node: its entry, canonical times, and its content in
\* the pool of fs-files.
scan_entry(fs, p) ==
  LET n == fs.nodes[p]
  IN IF n.kind = "directory" THEN DirEntry(p, n.owner, n.mode)
     ELSE IF n.kind = "symlink" THEN LinkEntry(p, n.owner, n.target)
     ELSE FileEntry(p, NodeHash(n))
scan_fs_tree(fs) ==
  IF \E p \in Paths(fs) : fs.nodes[p].kind = "special" THEN Err
  ELSE from_entries(Listing({scan_entry(fs, p) : p \in Paths(fs)}))

\* Install rules: [glob, attrs]; an attribute is a number or Unset.
Unset == -1
Attrs == {"uid", "gid", "directory_mode", "regular_file_mode", "executable_file_mode"}
Modes == {"directory_mode", "regular_file_mode", "executable_file_mode"}
Overlay(a, b) == [k \in Attrs |-> IF b[k] # Unset THEN b[k] ELSE a[k]]
ValidRules(rules) == rules # <<>> /\ \A i \in DOMAIN rules, k \in Modes : rules[i].attrs[k] <= MaxMode
install_rule_matches(rule, p) ==
  \/ MatchesOrIsBase(rule.glob, p)
  \/ p = <<>> /\ rule.glob.kind = "all"
resolve_install_attrs(rules, p) ==
  FoldLeft(LAMBDA a, rule : IF install_rule_matches(rule, p) THEN Overlay(a, rule.attrs) ELSE a,
           [k \in Attrs |-> Unset], rules)
ModeAttr(n) ==
  IF n.kind = "directory" THEN {"directory_mode"}
  ELSE IF n.kind = "symlink" THEN {}
  ELSE IF Executable(n.mode) THEN {"executable_file_mode"} ELSE {"regular_file_mode"}
Needed(n) == {"uid", "gid"} \cup ModeAttr(n)

\* publish_installed_temp_file: a private copy gets its owner, then its mode;
\* what it then has must be what was asked for.
InstalledFileModeFirst(content, owner, mode, umasked) ==
  LET temp == EmptyRoot(Regular(umasked, 420, content))
      fs == ChownIfNeeded(Chmod(SetTimes(temp, <<>>), <<>>, mode), <<>>, owner)
  IN IF fs.nodes[<<>>].owner = owner /\ fs.nodes[<<>>].mode = mode
     THEN Ok(fs.nodes[<<>>]) ELSE Err
InstalledFile(content, owner, mode, umasked) ==
  LET temp == EmptyRoot(Regular(umasked, 420, content))
      fs == Chmod(ChownIfNeeded(SetTimes(temp, <<>>), <<>>, owner), <<>>, mode)
  IN IF fs.nodes[<<>>].owner = owner /\ fs.nodes[<<>>].mode = mode
     THEN Ok(fs.nodes[<<>>]) ELSE Err

import_installed_entry(fs, p, rules) ==
  LET n == fs.nodes[p]
      attrs == resolve_install_attrs(rules, p)
      owner == <<attrs["uid"], attrs["gid"]>>
      mode == attrs[CHOOSE k \in ModeAttr(n) : TRUE]
  IN IF n.kind = "special" \/ ~(\E i \in DOMAIN rules : install_rule_matches(rules[i], p))
        \/ \E k \in Needed(n) : attrs[k] = Unset
     THEN Err
     ELSE IF n.kind = "directory" THEN Ok(DirEntry(p, owner, mode))
     ELSE IF n.kind = "symlink" THEN Ok(LinkEntry(p, owner, n.target))
     ELSE Then(InstalledFile(n.content, owner, mode, Root),
               LAMBDA f : Ok(FileEntry(p, NodeHash(f))))
import_with_install(fs, rules) ==
  IF ~ValidRules(rules) THEN Err
  ELSE Then(ForEach(<<>>, Listing(Paths(fs)),
              LAMBDA es, p : Then(import_installed_entry(fs, p, rules), LAMBDA e : Ok(Append(es, e)))),
            from_entries)

------------------------------------------------------------------------------
(* From a manifest to a directory.                                          *)

\* What the pool holds for a hash.
PoolFile(hash) == [Regular(hash.owner, hash.mode, hash.content) EXCEPT !.time = "canonical"]
Fresh == Directory(Root, 493)

\* First pass: names in the manifest's order; files are links into the pool.
PlaceEntry(pool, fs, e) ==
  IF e.kind = "directory" THEN IF e.path = <<>> THEN Ok(fs) ELSE Create(fs, e.path, Fresh)
  ELSE IF e.kind = "file"
  THEN IF e.hash \in pool THEN Create(fs, e.path, PoolFile(e.hash)) ELSE Err
  ELSE Then(Create(fs, e.path, Symlink(Root, e.target)),
            LAMBDA f : Ok(IF f.escaped THEN f
                          ELSE ChownIfNeeded(SetTimes(f, e.path), e.path, e.owner)))
Directories(m) == SelectSeq(m, LAMBDA e : e.kind = "directory")
\* Second and third pass: times, then owners and modes, deepest first.
DirectoryTimes(fs, m) == FoldRight(LAMBDA e, f : SetTimes(f, e.path), Directories(m), fs)
DirectoryAttrs(fs, m) ==
  FoldRight(LAMBDA e, f : Chmod(ChownIfNeeded(f, e.path, e.owner), e.path, e.mode), Directories(m), fs)
materialize_fs_tree(m, pool) ==
  Then(ForEach(EmptyRoot(Fresh), m, LAMBDA f, e : PlaceEntry(pool, f, e)),
       LAMBDA fs : Ok(DirectoryAttrs(DirectoryTimes(fs, m), m)))
=============================================================================
