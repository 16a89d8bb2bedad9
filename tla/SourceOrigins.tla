---------------------------- MODULE SourceOrigins ----------------------------
(***************************************************************************)
(* Source origins (bobr-source origins.rs, origins/path.rs, http.rs): how an *)
(* origin is read from a request, and how a downloaded archive or a local    *)
(* path becomes the staged object.  How a download is obtained is            *)
(* Acquisition.                                                              *)
(*                                                                          *)
(* A JSON value is [kind, ...]; an origin is a function from its fields to   *)
(* values.  A URL is [scheme, suffix], the suffix being the archive format   *)
(* it stands for, or None.  A downloaded blob is [magic, format, entries]:   *)
(* what its first bytes say, what it really is, and its entries.  An entry   *)
(* is [path, kind, mode, content, target], the path as it stands in it.      *)
(***************************************************************************)
EXTENDS Files, Calls

None == "none"
ArchiveFormats == {"tar-gz", "tar-xz", "tar-bz2", "zip"}

------------------------------------------------------------------------------
(* Reading an origin.                                                       *)

IsOf(value, kind) == value.kind = kind
TextsOf(items) == [i \in DOMAIN items |-> items[i].text]
take_string(o, field) ==
  IF field \in DOMAIN o /\ IsOf(o[field], "string") THEN Ok(o[field].text) ELSE Err
take_url_field(o) ==
  IF "url" \notin DOMAIN o THEN Err
  ELSE LET value == o["url"]
       IN IF IsOf(value, "string") THEN Ok(<<value.text>>)
          ELSE IF IsOf(value, "array") /\ \A i \in DOMAIN value.items : IsOf(value.items[i], "string")
          THEN Ok(TextsOf(value.items)) ELSE Err
take_optional_bool(o, field, default) ==
  IF field \notin DOMAIN o THEN Ok(default)
  ELSE IF IsOf(o[field], "bool") THEN Ok(o[field].value) ELSE Err
take_optional_archive_format(o) ==
  IF "archive_format" \notin DOMAIN o THEN Ok(None)
  ELSE IF IsOf(o["archive_format"], "string") /\ o["archive_format"].text \in ArchiveFormats
  THEN Ok(o["archive_format"].text) ELSE Err
OnlyFields(o, known) == DOMAIN o \subseteq known

parse_http_origin(o) ==
  Then(take_url_field(o), LAMBDA urls :
    IF urls = <<>> \/ \E i \in DOMAIN urls : urls[i].scheme \notin {"http", "https"} THEN Err
    ELSE Then(take_optional_bool(o, "unpack", FALSE), LAMBDA unpack :
         Then(take_optional_archive_format(o), LAMBDA format :
           IF OnlyFields(o, {"tag", "url", "unpack", "archive_format"})
           THEN Ok([tag |-> "Http", urls |-> urls, unpack |-> unpack, archive_format |-> format]) ELSE Err)))
parse_path_origin(o) ==
  Then(take_string(o, "path"), LAMBDA path :
    IF ~path.absolute THEN Err
    ELSE Then(take_optional_bool(o, "unpack", FALSE), LAMBDA unpack :
           IF OnlyFields(o, {"tag", "path", "unpack"}) THEN Ok([tag |-> "Path", unpack |-> unpack]) ELSE Err))
parse_origin_value(o) ==
  Then(take_string(o, "tag"), LAMBDA tag :
    CASE tag = "Http" -> parse_http_origin(o)
      [] tag = "Path" -> parse_path_origin(o)
      [] OTHER -> Err)

------------------------------------------------------------------------------
(* Archives.                                                                *)

\* What is said explicitly, then what the bytes say, then the first URL that
\* says anything.
UrlsFirst(explicit, blob, urls) ==
  LET telling == {i \in DOMAIN urls : urls[i].suffix # None}
  IN IF explicit # None THEN Ok(explicit)
     ELSE IF telling # {} THEN Ok(urls[Min(telling)].suffix)
     ELSE IF blob.magic # None THEN Ok(blob.magic) ELSE Err
select_archive_format(explicit, blob, urls) ==
  LET telling == {i \in DOMAIN urls : urls[i].suffix # None}
  IN IF explicit # None THEN Ok(explicit)
     ELSE IF blob.magic # None THEN Ok(blob.magic)
     ELSE IF telling # {} THEN Ok(urls[Min(telling)].suffix)
     ELSE Err

\* recreate_empty_dir_force: whatever was there before.
recreate_empty_dir_force(before) == EmptyRoot(Directory(Root, 493))

\* tar: one entry below a directory.  Entries with .. are passed over, an
\* entry for the directory itself changes nothing, and what lies below a link
\* is taken to be outside and refused.  Set-id bits are not kept.
UnderNonDirectory(fs, p) == \E q \in Ancestors(p) : Holds(fs, q) /\ fs.nodes[q].kind # "directory"
PermissionBits(mode) == mode % 512
unpack_in(fs, e) ==
  LET parts == SelectSeq(ComponentSeq(e.path), LAMBDA c : c \notin {<<>>, <<Dot>>})
      p == JoinAll(parts)
      node == CASE e.kind = "directory" -> Directory(Root, PermissionBits(e.mode))
                [] e.kind = "file" -> Regular(Root, PermissionBits(e.mode), e.content)
                [] e.kind = "symlink" -> Symlink(Root, e.target)
  IN IF <<Dot, Dot>> \in ToSet(parts) \/ parts = <<>> THEN Ok(fs)
     ELSE IF UnderNonDirectory(fs, p) THEN Err
     ELSE Then(MkdirAll(fs, Parent(p), Directory(Root, 493)), LAMBDA f :
            IF ~Holds(f, p) THEN Create(f, p, node)
            ELSE IF e.kind = "directory"
            THEN IF IsDir(f, p) THEN Ok(Chmod(f, p, PermissionBits(e.mode))) ELSE Err
            ELSE IF IsDir(f, p) THEN Err ELSE Create(RemoveAll(f, p), p, node))
unpack_tar_safely(entries, fs) == ForEach(fs, entries, unpack_in)

\* The library's own unpacking of a whole tar: what is no directory in order,
\* then the directories, the last name first; of equal names in order.
archive_unpack(entries, fs) ==
  LET others == SortedListing({i \in DOMAIN entries : entries[i].kind # "directory"}, <)
      directories == SortedListing({i \in DOMAIN entries : entries[i].kind = "directory"},
        LAMBDA i, j : BytesLess(entries[j].path, entries[i].path) \/ (entries[i].path = entries[j].path /\ i < j))
  IN ForEach(fs, others \o directories, LAMBDA f, i : unpack_in(f, entries[i]))

\* zip: a path that leaves the directory or names another way up is refused,
\* and then every path of which the joined target has a root component.  The
\* directory is absolute.
StagedIsAbsolute == TRUE
ZipTargetRefused(path) == <<Dot, Dot>> \in ToSet(ComponentSeq(path)) \/ path[1] = Slash \/ StagedIsAbsolute
extract_zip_entry(fs, e) ==
  LET parts == SelectSeq(ComponentSeq(e.path), LAMBDA c : c \notin {<<>>, <<Dot>>})
      p == JoinAll(parts)
  IN IF ZipTargetRefused(e.path) THEN Err
     ELSE IF e.kind = "directory" THEN MkdirAll(fs, p, Directory(Root, 493))
     ELSE Then(MkdirAll(fs, Parent(p), Directory(Root, 493)), LAMBDA f :
          Then(Write(f, p, Regular(Root, 420, e.content)), LAMBDA g : Ok(Chmod(g, p, e.mode))))
extract_zip(entries, fs) == ForEach(fs, entries, extract_zip_entry)

\* A decoder gets nowhere with another format.
extract_archive(blob, format, fs) ==
  IF format # blob.format THEN Err
  ELSE IF format = "zip" THEN extract_zip(blob.entries, fs) ELSE unpack_tar_safely(blob.entries, fs)

\* The single directory at the top is taken out, if there is one.  A child
\* with the directory's own name would be moved onto it, which fails.
TopLevel(fs) == {p \in Paths(fs) : Depth(p) = 1}
normalize_extracted_root(fs) ==
  IF Cardinality(TopLevel(fs)) # 1 THEN Ok(fs)
  ELSE LET wrapper == CHOOSE p \in TopLevel(fs) : TRUE
       IN IF ~IsDir(fs, wrapper) THEN Ok(fs)
          ELSE IF Holds(fs, Join(wrapper, wrapper)) THEN Err
          ELSE Ok([fs EXCEPT !.nodes = [p \in {<<>>} \cup {Rest(q, wrapper) : q \in {x \in Paths(fs) : Below(x, wrapper)}} |->
                     IF p = <<>> THEN fs.nodes[<<>>] ELSE fs.nodes[Join(wrapper, p)]]])

\* The object: the blob itself, or the directory it was unpacked into.
finalize_http_download(origin, blob, before) ==
  IF ~origin.unpack THEN Ok(EmptyRoot(Regular(Root, 420, blob)))
  ELSE Then(select_archive_format(origin.archive_format, blob, origin.urls), LAMBDA format :
       Then(extract_archive(blob, format, recreate_empty_dir_force(before)), normalize_extracted_root))

------------------------------------------------------------------------------
(* Local paths.                                                             *)

\* copy_dir_recursive: modes of files are kept, those of directories are not.
CopyEntry(fs, p, node) ==
  CASE node.kind = "directory" -> Create(fs, p, Directory(Root, 493))
    [] node.kind = "file" -> Create(fs, p, Regular(Root, node.mode, node.content))
    [] node.kind = "symlink" -> Create(fs, p, Symlink(Root, node.target))
    [] OTHER -> Err
materialize_path_source_direct(source) ==
  LET top == source.nodes[<<>>]
  IN CASE top.kind = "directory" ->
            ForEach(EmptyRoot(Directory(Root, 493)), SortedListing(Paths(source) \ {<<>>}, LAMBDA p, q : Len(p) < Len(q)),
                    LAMBDA fs, p : CopyEntry(fs, p, source.nodes[p]))
       [] top.kind = "file" -> Ok(EmptyRoot(Regular(Root, top.mode, top.content)))
       [] OTHER -> Err
\* An uncompressed tar, kept as it is: nothing is taken out of a wrapper.
materialize_path_source_tar(blob) ==
  IF blob.format # "tar" THEN Err ELSE archive_unpack(blob.entries, EmptyRoot(Directory(Root, 493)))

------------------------------------------------------------------------------
(***************************************************************************)
(* Origins, good and bad ones, and what their objects should be.             *)
(***************************************************************************)

JString(t) == [kind |-> "string", text |-> t]
JBool(v) == [kind |-> "bool", value |-> v]
JArray(items) == [kind |-> "array", items |-> items]
JUrl(scheme, suffix) == JString([scheme |-> scheme, suffix |-> suffix])

pkg == <<112>>
Sub(p, q) == Join(p, q)
Packed(p, kind, mode) == [path |-> p, kind |-> kind, mode |-> mode, content |-> mode, target |-> <<113>>]
PackedEntries ==
  {Packed(p, k, m) : p \in {pkg, <<113>>, Sub(pkg, <<113>>), Sub(pkg, pkg)}, k \in {"directory", "file"}, m \in {448, 2541}}
    \cup {Packed(pkg, "symlink", 511), Packed(Sub(<<Dot>>, pkg), "directory", 493), Packed(<<Dot>>, "directory", 448),
          Packed(Sub(pkg, <<Dot, Dot>>), "file", 420), Packed(Sub(Sub(pkg, <<113>>), pkg), "file", 420)}
EntryLists == {<<>>} \cup {<<x>> : x \in PackedEntries} \cup (PackedEntries \X PackedEntries)
Blob(magic, format, entries) == [magic |-> magic, format |-> format, entries |-> entries]

HttpFields(url, unpack, format) ==
  [f \in {"tag", "url"} \cup (IF unpack = None THEN {} ELSE {"unpack"}) \cup (IF format = None THEN {} ELSE {"archive_format"}) |->
     CASE f = "tag" -> JString("Http") [] f = "url" -> url [] f = "unpack" -> JBool(unpack = "yes") [] f = "archive_format" -> JString(format)]
Plainest == HttpFields(JUrl("https", "tar-xz"), "yes", None)
With(o, field, value) == [f \in DOMAIN o \cup {field} |-> IF f = field THEN value ELSE o[f]]
UrlValues == {JUrl("https", "tar-gz"), JArray(<<JUrl("http", None), JUrl("https", "zip"), JUrl("https", "tar-gz")>>),
              JArray(<<JUrl("https", "tar-gz"), JUrl("https", "zip")>>)}
BadOrigins ==
  {With(Plainest, "url", v) : v \in {JArray(<<>>), JBool(TRUE), JUrl("ftp", "tar-xz"), JArray(<<JUrl("https", None), JBool(TRUE)>>)}}
    \cup {With(Plainest, "unpack", JString("yes")), With(Plainest, "archive_format", JString("rar")), With(Plainest, "archive_format", JBool(TRUE)),
          With(Plainest, "digest", JString("x")), With(Plainest, "tag", JString("Ftp")), With(Plainest, "tag", JBool(TRUE)),
          [f \in {"tag"} |-> JString("Http")], With(Plainest, "tag", JString("Path"))}
\* What comes with the tar formats of any compression, a zip that begins with
\* something else, and something that is no archive.
Blobs(entries) == {Blob("tar-gz", "tar-gz", entries), Blob("zip", "zip", entries), Blob(None, "zip", entries), Blob("tar-gz", "gz", entries), Blob(None, "text", entries)}
Small == {<<>>, <<Packed(pkg, "directory", 448), Packed(Sub(pkg, <<113>>), "file", 2541)>>}
Leftover == [EmptyRoot(Directory(Root, 365)) EXCEPT !.nodes = [p \in {<<>>, <<113>>} |-> IF p = <<>> THEN Directory(Root, 365) ELSE Regular(Root, 292, 0)]]
PathFields(absolute, unpack) ==
  [f \in {"tag", "path", "unpack"} |-> CASE f = "tag" -> JString("Path") [] f = "path" -> JString([absolute |-> absolute]) [] f = "unpack" -> JBool(unpack)]
LocalTrees ==
  {[EmptyRoot(Directory(Root, 448)) EXCEPT !.nodes = [p \in {<<>>, pkg} \cup x |->
      IF p = pkg THEN n ELSE IF p = <<>> THEN Directory(Root, 448) ELSE Symlink(Root, <<113>>)]] :
     n \in {Directory(<<7, 7>>, 2541), Regular(<<7, 7>>, 365, 1), Special(Root)}, x \in {{}, {<<113>>}}}
    \cup {EmptyRoot(Regular(<<7, 7>>, 292, 3)), EmptyRoot(Special(Root))}

OriginCases ==
  [op : {"http"}, origin : {Plainest}, blob : {Blob("tar-xz", "tar-xz", e) : e \in EntryLists}, before : {Leftover}, good : {TRUE}]
    \cup [op : {"http"}, origin : {HttpFields(u, x, f) : u \in UrlValues, x \in {None, "yes", "no"}, f \in {None, "zip", "tar-gz"}},
          blob : UNION {Blobs(e) : e \in Small}, before : {EmptyRoot(Regular(Root, 420, 0)), Leftover}, good : {TRUE}]
    \cup [op : {"http"}, origin : BadOrigins, blob : {Blob("tar-xz", "tar-xz", <<>>)}, before : {Leftover}, good : {FALSE}]
    \cup [op : {"path"}, origin : {PathFields(TRUE, FALSE)}, source : LocalTrees, good : {TRUE}]
    \cup [op : {"path"}, origin : {PathFields(FALSE, FALSE), With(PathFields(TRUE, FALSE), "url", JBool(TRUE))}, source : LocalTrees, good : {FALSE}]
    \cup [op : {"tar"}, origin : {PathFields(TRUE, TRUE)}, blob : {Blob(None, f, e) : f \in {"tar", "text"}, e \in EntryLists}]

Fetched(origin, blob, before) ==
  Then(parse_origin_value(origin), LAMBDA o : IF o.tag = "Http" THEN finalize_http_download(o, blob, before) ELSE Err)
Http == Call("http", Fetched(input.origin, input.blob, input.before))
Path == Call("path", Then(parse_origin_value(input.origin), LAMBDA o : materialize_path_source_direct(input.source)))
Tar == Call("tar", Then(parse_origin_value(input.origin), LAMBDA o : materialize_path_source_tar(input.blob)))
OriginCall == Http \/ Path \/ Tar

------------------------------------------------------------------------------
(* What the calls are for.                                                  *)

\* The entries that are about something, with the place each is for.
Meaning(entries) ==
  LET parts(e) == SelectSeq(ComponentSeq(e.path), LAMBDA c : c \notin {<<>>, <<Dot>>})
  IN SelectSeq([i \in DOMAIN entries |-> [at |-> JoinAll(parts(entries[i])), entry |-> entries[i]]],
               LAMBDA x : x.at # <<>> /\ <<Dot, Dot>> \notin Components(x.at))
\* No place is for a directory and for something else, whatever the order.
Consistent(s) ==
  \A i, j \in DOMAIN s : s[i].entry.kind # "directory" =>
    /\ ~Below(s[j].at, s[i].at)
    /\ s[j].at = s[i].at => s[j].entry.kind # "directory"
\* Of the entries for one place the last counts; of the directories of a tar
\* unpacked as a whole, the one whose name comes first in the order of bytes.
For(s, p) == {i \in DOMAIN s : s[i].at = p}
LastPacked(s, p) == s[Max(For(s, p))].entry
LeastNamed(s, p) ==
  LET least == {i \in For(s, p) : \A j \in For(s, p) : ~BytesLess(s[j].entry.path, s[i].entry.path)}
  IN IF LastPacked(s, p).kind = "directory" THEN s[Max(least)].entry ELSE LastPacked(s, p)
PackedTree(s, Counts(_, _)) ==
  LET named == {s[i].at : i \in DOMAIN s}
      node(e) == CASE e.kind = "directory" -> Directory(Root, e.mode % 512) [] e.kind = "symlink" -> Symlink(Root, e.target)
                   [] OTHER -> Regular(Root, e.mode % 512, e.content)
  IN [p \in {<<>>} \cup named \cup UNION {Ancestors(q) : q \in named} |->
        IF p \in named THEN node(Counts(s, p)) ELSE Directory(Root, 493)]
\* A directory that holds all the rest, and not a second one of its name.
Wrapper(tree) == {w \in DOMAIN tree : w # <<>> /\ tree[w].kind = "directory" /\ \A p \in DOMAIN tree : p \in {<<>>, w} \/ Below(p, w)}
Unwrapped(tree) ==
  IF Wrapper(tree) = {} THEN tree
  ELSE LET w == CHOOSE x \in Wrapper(tree) : \A y \in Wrapper(tree) : Len(x) <= Len(y)
       IN [p \in {<<>>} \cup {Rest(q, w) : q \in {x \in DOMAIN tree : Below(x, w)}} |-> IF p = <<>> THEN tree[p] ELSE tree[Join(w, p)]]
SelfNamed(tree) == \E w \in Wrapper(tree) : Depth(w) = 1 /\ Join(w, w) \in DOMAIN tree
Untimed(fs) == [p \in Paths(fs) |-> [fs.nodes[p] EXCEPT !.time = "now"]]
Unpacks(o) == "unpack" \in DOMAIN o /\ o["unpack"] = JBool(TRUE)
\* The bytes are what they seem to be, unless the request says otherwise.
Told(o, blob) == blob.magic = blob.format /\ ("archive_format" \in DOMAIN o => o["archive_format"].text = blob.format)
\* An archive is unpacked into the tree its entries describe, without the
\* directory that wraps it if there is one, whatever was left behind by an
\* earlier attempt; archives that name one place twice over are refused.
UnpackedExact(s) ==
  /\ output.ok => Consistent(s) /\ Untimed(output.val) = Unwrapped(PackedTree(s, LastPacked))
  /\ (input.good /\ Told(input.origin, input.blob) /\ input.blob.format # "zip" /\ Consistent(s) /\ ~SelfNamed(PackedTree(s, LastPacked))) => output.ok
\* Origins become the objects they describe: an archive its tree, whichever
\* mirror comes first in the list, and a local path a copy of itself; a
\* request that is not understood gives no object.
SourcesUnpacked ==
  /\ Answered("http") =>
       /\ ~input.good => ~output.ok
       /\ Unpacks(input.origin) => UnpackedExact(Meaning(input.blob.entries))
       /\ (input.good /\ input.blob.magic # None /\ input.origin["url"].kind = "array") =>
            output = Fetched([input.origin EXCEPT !["url"].items = Reverse(@)], input.blob, input.before)
  /\ Answered("path") =>
       /\ output.ok <=> input.good /\ \A p \in Paths(input.source) : input.source.nodes[p].kind # "special"
       /\ output.ok => Untimed(output.val) = [p \in Paths(input.source) |->
            LET n == input.source.nodes[p] IN IF n.kind = "directory" THEN Directory(Root, 493) ELSE [n EXCEPT !.owner = Root]]
  /\ Answered("tar") =>
       /\ output.ok <=> input.blob.format = "tar" /\ Consistent(Meaning(input.blob.entries))
       /\ output.ok => Untimed(output.val) = PackedTree(Meaning(input.blob.entries), LeastNamed)

\* A zip archive is unpacked, as the request format says it can be.
ZipSourcesUnpack ==
  (Answered("http") /\ input.good /\ Unpacks(input.origin) /\ Told(input.origin, input.blob) /\ input.blob.format = "zip") => output.ok
=============================================================================
