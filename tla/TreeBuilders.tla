----------------------------- MODULE TreeBuilders -----------------------------
(***************************************************************************)
(* The builders that compute trees (bobr-builder): Tree, TreeMerge,          *)
(* TreeSubset, TreeMove, FsTreeImport, FsTreeExport, Bundle, Group, and the  *)
(* copying of plain trees a host bundle is made with.  Builders run with an  *)
(* effective owner of Root; a manifest input is the lines of its file.       *)
(***************************************************************************)
EXTENDS FsTrees

DirMode == 493
FileMode(executable) == IF executable THEN 493 ELSE 420

------------------------------------------------------------------------------
(* Tree: [kind, path, text, executable], [kind, path], [kind, path, target]. *)

\* validate_rel_path.  Path::components drops "." everywhere but in front.
ValidRelPath(p) ==
  /\ Components(p) \cap {<<>>, <<Dot, Dot>>} = {} /\ ComponentSeq(p)[1] # <<Dot>>
  /\ \A i \in DOMAIN p : p[i] # Backslash
Normalized(p) == JoinAll(SelectSeq(ComponentSeq(p), LAMBDA c : c # <<Dot>>))
ValidTreeEntry(e) == ValidRelPath(e.path) /\ (e.kind = "symlink" => e.target # <<>>)

\* A file or a link is not an ancestor of another entry, and no path comes twice.
NoConflicts(es) ==
  \A i, j \in DOMAIN es : i # j =>
    /\ es[i].path # es[j].path
    /\ es[i].kind \in {"file", "symlink"} => es[i].path \notin Ancestors(es[j].path)
normalize_entries(entries) ==
  LET es == [i \in DOMAIN entries |-> [entries[i] EXCEPT !.path = Normalized(@)]]
  IN IF entries = <<>> \/ ~(\A i \in DOMAIN entries : ValidTreeEntry(entries[i])) \/ ~NoConflicts(es)
     THEN Err
     ELSE Ok(SortSeq(es, LAMBDA l, r : BytesLess(l.path, r.path)))

IsFileOutput(es) == Len(es) = 1 /\ es[1].kind = "file" /\ Slashes(es[1].path) = {}
materialize_file_output(es) ==
  EmptyRoot(Regular(Root, FileMode(es[1].executable), es[1].text))

\* Directories by their depth, then the rest in order, then all directory modes.
TreeDirectories(es) ==
  UNION {Ancestors(es[i].path) : i \in DOMAIN es}
  \cup {es[i].path : i \in {k \in DOMAIN es : es[k].kind = "dir"}}
PlaceTreeEntry(fs, e) ==
  IF e.kind = "dir" THEN Ok(fs)
  ELSE IF e.kind = "file"
  THEN Then(Write(fs, e.path, Regular(Root, 420, e.text)),
            LAMBDA f : Ok(IF f.escaped THEN f ELSE Chmod(f, e.path, FileMode(e.executable))))
  ELSE Create(fs, e.path, Symlink(Root, e.target))
materialize_directory_output(es) ==
  LET byDepth == SortedListing(TreeDirectories(es) \ {<<>>}, LAMBDA a, b : Depth(a) < Depth(b))
  IN Then(Then(ForEach(EmptyRoot(Directory(Root, DirMode)), byDepth,
                       LAMBDA f, d : Create(f, d, Directory(Root, DirMode))),
               LAMBDA f : ForEach(f, es, PlaceTreeEntry)),
          LAMBDA f : Ok(FoldLeft(LAMBDA g, d : Chmod(g, d, DirMode), f, byDepth)))

build_tree(entries) ==
  Then(normalize_entries(entries),
       LAMBDA es : IF IsFileOutput(es) THEN Ok(materialize_file_output(es))
                   ELSE materialize_directory_output(es))

------------------------------------------------------------------------------
(* Builders on manifests: all read their inputs' canonical form.            *)

build_tree_merge(inputs) ==
  LET ms == [i \in DOMAIN inputs |-> parse_canonical(inputs[i])]
  IN IF Len(inputs) < 2 \/ ~(\A i \in DOMAIN ms : ms[i].ok) THEN Err
     ELSE merge_manifests([i \in DOMAIN ms |-> ms[i].val])
build_tree_subset(input, include) ==
  Then(parse_canonical(input), LAMBDA m : subset_manifest(m, include))
build_tree_move(input, prefix) ==
  Then(parse_canonical(input), LAMBDA m : strip_prefix_manifest(m, prefix))

------------------------------------------------------------------------------
(* FsTreeExport: copy commands [from, to], from a pattern or a literal path. *)

Copyable(e) == e.kind \in {"file", "symlink"}
plan_command(m, from, to) ==
  LET pairs(S, base) ==
        [i \in 1..Len(SelectSeq(m, LAMBDA e : e.path \in S /\ Copyable(e))) |->
           LET e == SelectSeq(m, LAMBDA x : x.path \in S /\ Copyable(x))[i]
           IN [entry |-> e, dest |-> Join(to, IF base # <<>> /\ ~Below(e.path, base) THEN e.path
                                              ELSE Rest(e.path, base))]]
      below == {p \in PathsOf(m) : IsPrefix(Append(from.path, Slash), p)}
      exact == {p \in PathsOf(m) : p = from.path}
  IN IF from.kind \in {"below", "all"}
     THEN pairs({p \in PathsOf(m) \ {<<>>} : GlobMatches(from, p)}, from.path)
     ELSE IF below # {} /\ (\A p \in exact : EntryAt(m, p).kind = "directory")
     THEN pairs(below, from.path)
     ELSE [i \in 1..Len(SelectSeq(m, LAMBDA e : e.path \in exact /\ Copyable(e))) |->
             [entry |-> EntryAt(m, from.path), dest |-> to]]

ValidDest(p) == Components(p) \cap Unsafe = {}
\* resolve_export_plan: every command selects something, no destination twice.
resolve_export_plan(m, copies) ==
  ForEach(<<>>, copies, LAMBDA ops, c :
    LET plan == plan_command(m, c.from, c.to)
    IN IF plan = <<>> THEN Err
       ELSE ForEach(ops, plan, LAMBDA os, op :
              IF ~ValidDest(op.dest) \/ \E i \in DOMAIN os : os[i].dest = op.dest THEN Err
              ELSE Ok(Append(os, op))))

ExportOne(pool, fs, op) ==
  Then(MkdirAll(fs, Parent(op.dest), Directory(Root, DirMode)), LAMBDA f :
    IF op.entry.kind = "symlink" THEN Create(f, op.dest, Symlink(Root, op.entry.target))
    ELSE IF op.entry.hash \notin pool THEN Err
    ELSE Write(f, op.dest, Regular(Root, op.entry.hash.mode, op.entry.hash.content)))
\* normalize_ownership, bottom up; a chown takes the set-id bits with it.
normalize_ownership(fs) ==
  FoldLeft(LAMBDA f, p : Chown(IF IsDir(f, p) THEN Chmod(f, p, DirMode) ELSE f, p, Root),
           fs, SortedListing(Paths(fs), LAMBDA a, b : Depth(a) > Depth(b)))
export_to_plain_object(ops, pool) ==
  Then(ForEach(EmptyRoot(Directory(Root, DirMode)), ops, LAMBDA f, op : ExportOne(pool, f, op)),
       LAMBDA f : Ok(normalize_ownership(f)))
build_fs_tree_export(input, copies, pool) ==
  IF copies = <<>> THEN Err
  ELSE Then(Then(parse_canonical(input), LAMBDA m : resolve_export_plan(m, copies)),
            LAMBDA ops : export_to_plain_object(ops, pool))

------------------------------------------------------------------------------
(* Copies of plain trees, and Bundle.                                        *)

\* copy_directory_contents: what is below a directory of another file system.
CopyBelow(src, fs, dest) ==
  ForEach(fs, SortedListing(Paths(src) \ {<<>>}, LAMBDA a, b : Depth(a) < Depth(b)),
    LAMBDA f, p :
      LET n == src.nodes[p]
          to == Join(dest, p)
      IN IF n.kind = "directory" THEN Create(f, to, Directory(Root, n.mode))
         ELSE IF n.kind = "file" THEN Write(f, to, Regular(Root, n.mode, n.content))
         ELSE IF n.kind = "symlink" THEN Create(f, to, Symlink(Root, n.target))
         ELSE Err)
copy_tree(src, fs, dest) ==
  IF ~IsDir(src, <<>>) THEN Err
  ELSE Then(Then(MkdirAll(fs, Parent(dest), Directory(Root, DirMode)),
                 LAMBDA f : Create(f, dest, Directory(Root, src.nodes[<<>>].mode))),
            LAMBDA f : CopyBelow(src, f, dest))
copy_regular_file(src, fs, dest) ==
  IF src.nodes[<<>>].kind # "file" THEN Err
  ELSE Then(MkdirAll(fs, Parent(dest), Directory(Root, DirMode)), LAMBDA f :
       Then(Write(f, dest, Regular(Root, src.nodes[<<>>].mode, src.nodes[<<>>].content)),
            LAMBDA g : Ok(IF g.escaped THEN g ELSE Chmod(g, dest, src.nodes[<<>>].mode))))
\* copies: [kind |-> "tree" or "file", source, dest].
copy_plain_tree(copies) ==
  Then(ForEach(EmptyRoot(Directory(Root, DirMode)), copies,
         LAMBDA f, c : IF ~ValidDest(c.dest) THEN Err
                       ELSE IF c.kind = "tree" THEN copy_tree(c.source, f, c.dest)
                       ELSE copy_regular_file(c.source, f, c.dest)),
       LAMBDA f : Ok(FoldLeft(LAMBDA g, p : Chown(g, p, Root), f, Listing(Paths(f)))))

WriteBits == {2, 16, 128, 1024, 2048}
make_tree_read_only(fs) ==
  [fs EXCEPT !.nodes = [p \in DOMAIN @ |->
     IF @[p].kind = "symlink" THEN @[p] ELSE [@[p] EXCEPT !.mode = Without(@, WriteBits)]]]
verify_tree_read_only(fs) ==
  \A p \in Paths(fs) : fs.nodes[p].kind # "symlink" => \A b \in WriteBits : ~Bit(fs.nodes[p].mode, b)

\* resolve_bundle_source: a regular file, or a directory with exactly one.
resolve_bundle_source(src) ==
  LET files == {p \in Paths(src) : Depth(p) = 1 /\ src.nodes[p].kind = "file"}
  IN IF src.nodes[<<>>].kind = "file" THEN Ok(src.nodes[<<>>])
     ELSE IF src.nodes[<<>>].kind = "directory" /\ Cardinality(files) = 1
     THEN Ok(src.nodes[CHOOSE p \in files : TRUE]) ELSE Err
build_bundle(inputs) ==
  IF inputs = <<>> THEN Err
  ELSE ForEach(EmptyRoot(Directory(Root, DirMode)), inputs,
         LAMBDA f, i : Then(resolve_bundle_source(i.source), LAMBDA n : Create(f, i.name, n)))
build_group(inputs) == IF inputs = <<>> THEN Err ELSE Ok(EmptyRoot(Regular(Root, 420, 0)))

----------------------------------------------------------------------------
(* Extraction of an OCI image into a filesystem tree (bobr-builder         *)
(* oci_extract.rs): the entries of the layers applied in order to a        *)
(* directory, with a record of every path's kind, owner and mode, which    *)
(* are put on at the end.                                                  *)
(*                                                                         *)
(* A layer is [media, entries], an entry [path, type, owner, mode,         *)
(* content, target] with the path as it stands in the archive.  A hard     *)
(* link is a second node of equal content: both names have one owner and   *)
(* mode, or the layer is refused.                                          *)

WhiteoutPrefix == <<46, 119, 104, 46>>                          \* .wh.
OpaqueName == WhiteoutPrefix \o WhiteoutPrefix \o <<111, 112, 113>>  \* .wh..wh..opq

\* sanitize_tar_path_bytes: Ok(path), Ok(<<>>) for the root, or Err.
RECURSIVE TrimEnd(_)
TrimEnd(p) == IF p # <<>> /\ p[Len(p)] = Slash THEN TrimEnd(SubSeq(p, 1, Len(p) - 1)) ELSE p
sanitize_tar_path(bytes) ==
  LET raw == [i \in DOMAIN bytes |-> IF bytes[i] = Backslash THEN Slash ELSE bytes[i]]
      p == TrimEnd(raw)
  IN IF raw # <<>> /\ raw[1] = Slash THEN Err
     ELSE IF p \in {<<>>, <<Dot>>} THEN Ok(<<>>)
     ELSE IF Components(p) \cap Unsafe # {} THEN Err ELSE Ok(p)

\* The extraction's state: the directory, and the records by path.
Implicit == [kind |-> "directory", owner |-> Root, mode |-> 493]
WithRecord(st, p, rec) ==
  [st EXCEPT !.records = [q \in DOMAIN @ \cup {p} |-> IF q = p THEN rec ELSE @[q]]]
Forget(records, gone(_)) == [q \in {p \in DOMAIN records : ~gone(p)} |-> records[q]]
RecordOf(e, kind) == [kind |-> kind, owner |-> e.owner, mode |-> e.mode % 4096]

\* remove_existing_path.
RemoveExisting(st, p) ==
  [fs |-> IF Holds(st.fs, p) THEN RemoveAll(st.fs, p) ELSE st.fs,
   records |-> Forget(st.records, LAMBDA q : q = p \/ Below(q, p))]

\* handle_whiteout: everything in the directory, or one name of it.
IsWhiteout(p) == IsPrefix(WhiteoutPrefix, Name(p))
BelowFile(st, p) == \E q \in Ancestors(p) : Holds(st.fs, q) /\ st.fs.nodes[q].kind = "file"
WhiteoutKeepsBelow(st, p) ==
  IF BelowFile(st, p) THEN Err
  ELSE IF Name(p) = OpaqueName
  THEN Ok([fs |-> [st.fs EXCEPT !.nodes = [q \in {x \in DOMAIN @ : ~Below(x, Parent(p))} |-> @[q]]],
           records |-> Forget(st.records, LAMBDA q : Below(q, Parent(p)))])
  ELSE IF Name(p) = WhiteoutPrefix THEN Err
  ELSE LET victim == Join(Parent(p), SubSeq(Name(p), 5, Len(Name(p))))
       IN Ok([fs |-> IF Holds(st.fs, victim) THEN RemoveAll(st.fs, victim) ELSE st.fs,
              records |-> Forget(st.records, LAMBDA q : q = victim)])
handle_whiteout(st, p) ==
  IF BelowFile(st, p) THEN Err
  ELSE IF Name(p) = OpaqueName
  THEN Ok([fs |-> [st.fs EXCEPT !.nodes = [q \in {x \in DOMAIN @ : ~Below(x, Parent(p))} |-> @[q]]],
           records |-> Forget(st.records, LAMBDA q : Below(q, Parent(p)))])
  ELSE IF Name(p) = WhiteoutPrefix THEN Err
  ELSE LET victim == Join(Parent(p), SubSeq(Name(p), 5, Len(Name(p))))
       IN Ok(RemoveExisting(st, victim))

\* ensure_parent_directories: what is not recorded is made, owned by root.
ensure_parents(st, p) ==
  ForEach(st, SortedListing(Ancestors(p) \ {<<>>}, LAMBDA a, b : Len(a) < Len(b)),
    LAMBDA s, a :
      IF a \in DOMAIN s.records
      THEN IF s.records[a].kind = "directory" THEN Ok(s) ELSE Err
      ELSE Then(MkdirAll(s.fs, a, Directory(Root, 493)),
                LAMBDA f : Ok(WithRecord([s EXCEPT !.fs = f], a, Implicit))))

\* A new name for a file, a link or a hard link, in place of what was there.
Replace(st, p, node, rec) ==
  Then(ensure_parents(st, p), LAMBDA s :
    LET r == RemoveExisting(s, p)
    IN Then(Create(r.fs, p, node), LAMBDA f : Ok(WithRecord([r EXCEPT !.fs = f], p, rec))))
extract_file(st, p, e) == Replace(st, p, Regular(Root, 420, e.content), RecordOf(e, "file"))
extract_symlink(st, p, e) == Replace(st, p, Symlink(Root, e.target), RecordOf(e, "symlink"))
extract_directory(st, p, e) ==
  Then(ensure_parents(st, p), LAMBDA s :
    LET r == IF p \in DOMAIN s.records /\ s.records[p].kind # "directory" THEN RemoveExisting(s, p) ELSE s
    IN Then(MkdirAll(r.fs, p, Directory(Root, 493)),
            LAMBDA f : Ok(WithRecord([r EXCEPT !.fs = f], p, RecordOf(e, "directory")))))
\* The target has to be a recorded file of the same owner and mode, and still
\* there when what the new name replaces is gone.
extract_hardlink(st, p, e) ==
  Then(sanitize_tar_path(e.target), LAMBDA t :
    LET rec == IF e.mode % 4096 = 0 /\ t \in DOMAIN st.records
               THEN [RecordOf(e, "file") EXCEPT !.mode = st.records[t].mode] ELSE RecordOf(e, "file")
    IN IF t = <<>> \/ t \notin DOMAIN st.records \/ st.records[t] # rec THEN Err
       ELSE Then(ensure_parents(st, p), LAMBDA s :
              LET r == RemoveExisting(s, p)
              IN IF ~Holds(r.fs, t) THEN Err
                 ELSE Then(Create(r.fs, p, r.fs.nodes[t]),
                           LAMBDA f : Ok(WithRecord([r EXCEPT !.fs = f], p, rec)))))

extract_entry(st, e) ==
  Then(sanitize_tar_path(e.path), LAMBDA p :
    IF p = <<>> THEN Ok(st)
    ELSE IF IsWhiteout(p) THEN handle_whiteout(st, p)
    ELSE CASE e.type = "file" -> extract_file(st, p, e)
           [] e.type = "directory" -> extract_directory(st, p, e)
           [] e.type = "symlink" -> extract_symlink(st, p, e)
           [] e.type = "hardlink" -> extract_hardlink(st, p, e)
           [] OTHER -> Ok(st))
extract_layer(st, layer) ==
  IF layer.media \in {"gzip", "tar"} THEN ForEach(st, layer.entries, extract_entry) ELSE Err

\* apply_extracted_metadata: owner before mode, directories last and deepest
\* first, the root with 755.
ApplyRecord(fs, p, rec) ==
  LET owned == ChownIfNeeded(fs, p, rec.owner)
  IN IF ~Holds(fs, p) THEN Err
     ELSE Ok(IF rec.kind = "symlink" THEN owned ELSE Chmod(owned, p, rec.mode))
apply_extracted_metadata(st) ==
  LET paths(dirs) == {p \in DOMAIN st.records : (st.records[p].kind = "directory") = dirs}
      order == Listing(paths(FALSE)) \o SortedListing(paths(TRUE), LAMBDA a, b : Depth(a) > Depth(b))
  IN Then(ForEach(st.fs, order, LAMBDA f, p : ApplyRecord(f, p, st.records[p])),
          LAMBDA f : Ok(Chmod(f, <<>>, 493)))

NoExtract == [fs |-> EmptyRoot(Directory(Root, 493)), records |-> [p \in {} |-> Implicit]]
extract_layers(layers) == ForEach(NoExtract, layers, extract_layer)
\* extract_oci_image_to_fs_tree: an image is [config, layers], config telling
\* whether the configuration blob can be read.
extract_oci_image(image) ==
  Then(extract_layers(image.layers), LAMBDA st :
    IF ~image.config THEN Err ELSE Then(apply_extracted_metadata(st), scan_fs_tree))
===============================================================================
