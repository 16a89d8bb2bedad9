----------------------------- MODULE RepoContent -----------------------------
(***************************************************************************)
(* The files in which a repository keeps objects and fs-files (content.rs,   *)
(* encoding.rs): a CBOR array of the metadata and of the payload, which is   *)
(* the content or one zstd frame of it.  Content is a sequence of bytes or,  *)
(* for a directory, an archive; a hash is what it identifies.                *)
(***************************************************************************)
EXTENDS Files, Integers

------------------------------------------------------------------------------
(***************************************************************************)
(* The tar archives of directory objects (tar_profile.rs): written from a    *)
(* tree in one canonical way and extracted strictly.  An archive is a        *)
(* sequence of header blocks, zero blocks and padded data.  The widths of    *)
(* the ustar fields and the limits of the format are parameters.             *)
(***************************************************************************)

CONSTANTS NAME_FIELD, PREFIX_FIELD, OCTAL_MAX, BLOCK,
          MAX_TAR_ENTRIES, MAX_TAR_PATH_BYTES, MAX_TAR_COMPONENT_BYTES, MAX_TAR_SYMLINK_TARGET_BYTES,
          MAX_TAR_DEPTH, MAX_TAR_STRUCTURAL_BYTES

Nul == 0
Space == 32
Zero == 48
\* What the name of an entry that carries a long name begins with.
GNU_LONG_PATH == <<Dot, Slash, Dot>>
------------------------------------------------------------------------------
(* Fields.                                                                  *)

\* The name and the prefix that hold a path, <<>> when nothing does: the last
\* slash that leaves both parts short enough.
ustar_path_fields(path) ==
  LET cuts == {i \in Slashes(path) : i - 1 <= PREFIX_FIELD /\ Len(path) - i <= NAME_FIELD}
  IN IF Len(path) <= NAME_FIELD THEN <<[name |-> path, prefix |-> <<>>]>>
     ELSE IF Len(path) > NAME_FIELD + PREFIX_FIELD + 1 \/ cuts = {} THEN <<>>
     ELSE <<[name |-> SubSeq(path, Max(cuts) + 1, Len(path)), prefix |-> SubSeq(path, 1, Max(cuts) - 1)]>>
\* An octal field of digits, spaces and NULs.
write_octal(width, value) ==
  IF value >= 8 ^ (width - 1) THEN Err
  ELSE Ok([i \in 1..width |-> IF i = width THEN Nul ELSE Zero + ((value \div 8 ^ (width - 1 - i)) % 8)])
Digit(byte) == byte \in Zero..(Zero + 7)
parse_octal(field) ==
  LET step(st, byte) ==
        CASE byte = Space /\ ~st.saw -> Ok(st)
          [] Digit(byte) /\ ~st.ended -> Ok([st EXCEPT !.saw = TRUE, !.value = 8 * @ + (byte - Zero)])
          [] byte \in {Nul, Space} /\ st.saw -> Ok([st EXCEPT !.ended = TRUE])
          [] OTHER -> Err
  IN Then(ForEach([value |-> 0, saw |-> FALSE, ended |-> FALSE], field, step),
          LAMBDA st : IF st.saw THEN Ok(st.value) ELSE Err)
parse_octal_empty(field) == IF ToSet(field) \subseteq {Nul, Space} THEN Ok(0) ELSE parse_octal(field)
nul_field(field) ==
  LET nuls == {i \in DOMAIN field : field[i] = Nul}
      end == IF nuls = {} THEN Len(field) ELSE Min(nuls) - 1
  IN IF \E i \in DOMAIN field : i > end /\ field[i] # Nul THEN Err ELSE Ok(SubSeq(field, 1, end))

\* The size field holds more in base 256 than in octal digits.
write_size(value) == [base |-> IF value <= OCTAL_MAX THEN 8 ELSE 256, value |-> value]
parse_size(size) == IF size.base = 256 /\ size.value <= OCTAL_MAX THEN Err ELSE Ok(size.value)

normalize_path(path, directory) ==
  LET trailing == {i \in 0..Len(path) : \A j \in (i + 1)..Len(path) : path[j] = Slash}
      cut == IF directory THEN SubSeq(path, 1, Min(trailing)) ELSE path
      names == SelectSeq(ComponentSeq(cut), LAMBDA c : c # <<>> /\ c # <<Dot>>)
      normalized == JoinAll(names)
  IN IF \/ path # <<>> /\ path[1] = Slash
        \/ \E i \in DOMAIN names : names[i] = <<Dot, Dot>> \/ Len(names[i]) > MAX_TAR_COMPONENT_BYTES
        \/ normalized = <<>> \/ Len(normalized) > MAX_TAR_PATH_BYTES \/ Len(names) > MAX_TAR_DEPTH
     THEN Err ELSE Ok(normalized)

------------------------------------------------------------------------------
(* Writing.                                                                 *)

Padding(n) == (BLOCK - (n % BLOCK)) % BLOCK
ZeroBlock == [block |-> "zero"]
Data(bytes) == [block |-> "data", bytes |-> bytes, padding |-> [i \in 1..Padding(Len(bytes)) |-> 0]]
DataOrNothing(bytes) == IF bytes = <<>> THEN <<>> ELSE <<Data(bytes)>>
\* A header whose checksum, magic and numbers are right.
write_raw_header(path, kind, mode, size, link) ==
  LET fields == ustar_path_fields(path)
      placed == IF fields = <<>> THEN [name |-> <<Zero>>, prefix |-> <<>>] ELSE fields[1]
  IN [block |-> "header", wellformed |-> TRUE, name |-> placed.name, prefix |-> placed.prefix, kind |-> kind, mode |-> mode,
      size |-> write_size(size), link |-> IF Len(link) <= NAME_FIELD THEN link ELSE <<Zero>>]
LongEntry(kind, value) ==
  LET data == Append(value, Nul)
  IN <<write_raw_header(GNU_LONG_PATH, kind, 420, Len(data), <<>>), Data(data)>>
write_header(path, kind, mode, size, link) ==
  (IF ustar_path_fields(path) = <<>> THEN LongEntry("L", path) ELSE <<>>)
    \o (IF Len(link) > NAME_FIELD THEN LongEntry("K", link) ELSE <<>>)
    \o <<write_raw_header(path, kind, mode, size, link)>>

\* The order of the walk: a directory, and then what is in it by name.
TreeLess(p, q) == BytesLess([i \in DOMAIN p |-> IF p[i] = Slash THEN Nul ELSE p[i]], [i \in DOMAIN q |-> IF q[i] = Slash THEN Nul ELSE q[i]])
write_entry(st, p, node) ==
  LET link == IF node.kind = "symlink" THEN node.target ELSE <<>>
      structural == st.structural + Len(p) + Len(link)
      out == CASE node.kind = "directory" -> write_header(p, "5", 493, 0, <<>>)
               [] node.kind = "file" ->
                    write_header(p, "0", IF Executable(node.mode) THEN 493 ELSE 420, Len(node.content), <<>>) \o DataOrNothing(node.content)
               [] node.kind = "symlink" -> write_header(p, "2", 511, 0, link)
               [] OTHER -> <<>>
  IN IF \/ ~normalize_path(p, FALSE).ok \/ st.entries = MAX_TAR_ENTRIES
        \/ Len(link) > MAX_TAR_SYMLINK_TARGET_BYTES \/ structural > MAX_TAR_STRUCTURAL_BYTES \/ node.kind = "special"
     THEN Err ELSE Ok([entries |-> st.entries + 1, structural |-> structural, out |-> st.out \o out])
UnitBytes(unit) == IF unit.block = "data" THEN Len(unit.bytes) + Len(unit.padding) ELSE BLOCK
ArchiveBytes(archive) == FoldLeft(LAMBDA n, u : n + UnitBytes(u), 0, archive)
write_directory_tar(fs) ==
  Then(ForEach([entries |-> 0, structural |-> 0, out |-> <<>>], SortedListing(Paths(fs) \ {<<>>}, TreeLess),
               LAMBDA st, p : write_entry(st, p, fs.nodes[p])),
       LAMBDA st : Ok(st.out \o <<ZeroBlock, ZeroBlock>>))

------------------------------------------------------------------------------
(* Extraction.                                                              *)

parse_header(unit) ==
  IF ~unit.wellformed THEN Err
  ELSE Then(parse_size(unit.size), LAMBDA size :
         Ok([path |-> IF unit.prefix = <<>> THEN unit.name ELSE unit.prefix \o <<Slash>> \o unit.name,
             link |-> unit.link, mode |-> unit.mode, size |-> size, kind |-> unit.kind]))
\* The data after a header: all of it, and zeros up to the next block.
TakeData(rest, size) ==
  IF size = 0 THEN Ok([bytes |-> <<>>, rest |-> rest])
  ELSE IF rest = <<>> \/ Head(rest).block # "data" \/ Len(Head(rest).bytes) # size \/ ToSet(Head(rest).padding) \ {0} # {} THEN Err
  ELSE Ok([bytes |-> Head(rest).bytes, rest |-> Tail(rest)])

read_long(st, h, rest) ==
  LET limit == IF h.kind = "L" THEN MAX_TAR_PATH_BYTES ELSE MAX_TAR_SYMLINK_TARGET_BYTES
      long(value) == IF h.kind = "L" THEN ustar_path_fields(value) = <<>> ELSE Len(value) > NAME_FIELD
  IN IF \/ h.path # GNU_LONG_PATH
        \/ st.link # <<>> \/ (h.kind = "L" /\ st.name # <<>>) \/ h.size > limit + 1
     THEN Err
     ELSE Then(TakeData(rest, h.size), LAMBDA t :
       LET value == SubSeq(t.bytes, 1, Len(t.bytes) - 1)
       IN IF Len(t.bytes) < 2 \/ Last(t.bytes) # Nul \/ Nul \in ToSet(value) \/ ~long(value) THEN Err
          ELSE Ok([st |-> IF h.kind = "L" THEN [st EXCEPT !.name = value] ELSE [st EXCEPT !.link = value],
                   rest |-> t.rest]))
\* insert_path: the parents become directories; only a directory may come
\* twice.
insert_path(st, path, kind) ==
  LET parents == Ancestors(path) \ {<<>>}
      new == {d \in parents : d \notin DOMAIN st.nodes}
      with == [p \in DOMAIN st.nodes \cup new |-> IF p \in new THEN "directory" ELSE st.nodes[p]]
  IN IF \/ \E d \in parents \cap DOMAIN st.nodes : st.nodes[d] # "directory"
        \/ path \in DOMAIN st.nodes /\ (st.nodes[path] # "directory" \/ kind # "directory")
     THEN Err
     ELSE Then(ForEach(st.fs, SortedListing(new, LAMBDA a, b : Len(a) < Len(b)), LAMBDA f, d : MkdirAll(f, d, Directory(Root, 493))),
               LAMBDA f : Ok([st EXCEPT !.fs = f, !.nodes = [p \in DOMAIN with \cup {path} |-> IF p = path THEN kind ELSE with[p]]]))
extract_logical(st, h, rest) ==
  LET kind == CASE h.kind = "0" -> "file" [] h.kind = "2" -> "symlink" [] h.kind = "5" -> "directory"
      link == IF st.link # <<>> THEN st.link ELSE h.link
  IN IF st.entries = MAX_TAR_ENTRIES THEN Err
     ELSE Then(normalize_path(IF st.name # <<>> THEN st.name ELSE h.path, h.kind = "5"), LAMBDA path :
       LET structural == st.structural + Len(path) + Len(link)
           next == [st EXCEPT !.name = <<>>, !.link = <<>>, !.entries = @ + 1, !.structural = structural]
       IN IF \/ kind # "symlink" /\ link # <<>>
             \/ kind = "symlink" /\ (link = <<>> \/ Len(link) > MAX_TAR_SYMLINK_TARGET_BYTES)
             \/ structural > MAX_TAR_STRUCTURAL_BYTES \/ (kind # "file" /\ h.size # 0)
          THEN Err
          ELSE Then(insert_path(next, path, kind), LAMBDA s :
            CASE kind = "directory" ->
                   Then(MkdirAll(s.fs, path, Directory(Root, 493)), LAMBDA f : Ok([st |-> [s EXCEPT !.fs = f], rest |-> rest]))
              [] kind = "symlink" ->
                   Then(Create(s.fs, path, Symlink(Root, link)), LAMBDA f : Ok([st |-> [s EXCEPT !.fs = f], rest |-> rest]))
              [] kind = "file" ->
                   Then(TakeData(rest, h.size), LAMBDA t :
                     Then(Create(s.fs, path, Regular(Root, IF Executable(h.mode) THEN 493 ELSE 420, t.bytes)),
                          LAMBDA f : Ok([st |-> [s EXCEPT !.fs = f], rest |-> t.rest])))))
\* Every directory gets the mode, and everything the time, of an object.
normalize_tree(fs) ==
  [fs EXCEPT !.nodes = [p \in DOMAIN fs.nodes |->
     IF fs.nodes[p].kind = "directory" THEN [fs.nodes[p] EXCEPT !.mode = 493, !.time = "canonical"]
     ELSE [fs.nodes[p] EXCEPT !.time = "canonical"]]]
RECURSIVE Extract(_, _)
Extract(st, rest) ==
  IF rest = <<>> THEN Err
  ELSE IF Head(rest).block = "zero"
  THEN IF rest = <<ZeroBlock, ZeroBlock>> /\ st.name = <<>> /\ st.link = <<>> THEN Ok(normalize_tree(st.fs)) ELSE Err
  ELSE IF Head(rest).block # "header" THEN Err
  ELSE Then(parse_header(Head(rest)), LAMBDA h :
         Then(CASE h.kind \in {"L", "K"} -> read_long(st, h, Tail(rest))
                [] h.kind \in {"0", "2", "5"} -> extract_logical(st, h, Tail(rest))
                [] OTHER -> Err,
              LAMBDA r : Extract(r.st, r.rest)))
extract_directory_tar(archive) ==
  Extract([fs |-> EmptyRoot(Directory(Root, 448)), nodes |-> [p \in {} |-> ""], name |-> <<>>, link |-> <<>>, entries |-> 0, structural |-> 0],
          archive)

------------------------------------------------------------------------------
(***************************************************************************)
(* The subset of CBOR that repository documents are written in.  A document *)
(* is a sequence of items; an item has the major type and the number of its  *)
(* head, the form in which the head spells the number, and what follows the  *)
(* head of a string.  A number can be spelled in the head's first byte       *)
(* (form 0) or in one, two, four or eight further bytes (1 to 4).            *)
(***************************************************************************)

CONSTANTS
  \* The largest number of each form; the last is the largest u64.
  FormMax,
  \* The bytes of a text.
  TextBytes(_)

Uint == 0
Bytes == 2
Text == 3
Array == 4
Map == 5
\* Booleans and null are single bytes of one more major type.
Simple == 7

Item(major, form, value, data) == [major |-> major, form |-> form, value |-> value, data |-> data]
\* Encoder::head: the first form that holds the number.
ShortestForm(value) == CHOOSE f \in 0..4 : value <= FormMax[f + 1] /\ \A g \in 0..(f - 1) : value > FormMax[g + 1]
head(major, value, data) == Item(major, ShortestForm(value), value, data)
uint(v) == head(Uint, v, <<>>)
text(t) == head(Text, TextBytes(t), <<t>>)
bytes(b) == head(Bytes, Len(b), b)
array(n) == head(Array, n, <<>>)
map(n) == head(Map, n, <<>>)
null == Item(Simple, 0, 22, <<>>)
boolean(b) == Item(Simple, 0, IF b THEN 21 ELSE 20, <<>>)

\* The bytes an item takes.
HeadBytes(item) == 1 + (IF item.form = 0 THEN 0 ELSE IF item.form \in 1..4 THEN 2 ^ (item.form - 1) ELSE 0)
ItemBytes(item) == HeadBytes(item) + (IF item.major \in {Bytes, Text} THEN item.value ELSE 0)
DocumentBytes(doc) == FoldLeft(LAMBDA n, item : n + ItemBytes(item), 0, doc)

\* Decoder::head: the form has to be the shortest; forms 5 and 6 are the
\* reserved ones and indefinite length.
ReadsAs(item, major) == item.major = major /\ item.form \in 0..4 /\ (item.form > 0 => item.value > FormMax[item.form])
\* The first item and the rest of the document.
Read(doc, major) == IF doc = <<>> \/ ~ReadsAs(Head(doc), major) THEN Err ELSE Ok([item |-> Head(doc), rest |-> Tail(doc)])
ReadNull(doc) == doc # <<>> /\ Head(doc) = null
ReadBoolean(doc) ==
  IF doc = <<>> \/ Head(doc) \notin {boolean(b) : b \in BOOLEAN} THEN Err
  ELSE Ok([item |-> Head(doc), rest |-> Tail(doc)])
require_text(doc, t) == Then(Read(doc, Text), LAMBDA r : IF r.item.data = <<t>> THEN Ok(r.rest) ELSE Err)
require_length(doc, major, n) == Then(Read(doc, major), LAMBDA r : IF r.item.value = n THEN Ok(r.rest) ELSE Err)
\* A key of a map and the item after it.
Field(doc, key, major) == Then(require_text(doc, key), LAMBDA rest : Read(rest, major))

------------------------------------------------------------------------------
(* Stored content.                                                          *)

CONSTANTS
  MAX_CONTENT_BYTES,
  \* The largest u32.
  U32_MAX,
  \* External: how long the zstd frame of a content is.
  ZstdBytes(_)

ContentBytes(kind, content) == IF kind = "directory" THEN ArchiveBytes(content) ELSE Len(content)
\* A payload: what is stored as it is, or a list of frames, which one frame
\* begins when it is standard.
Raw(n, content) == [form |-> "raw", bytes |-> n, content |-> content]
Frames(contents) == [form |-> "zstd", bytes |-> FoldLeft(LAMBDA n, c : n + ZstdBytes(c), 0, contents), content |-> contents]
\* A stored file: the items before the payload, the payload, and bytes after.
Stored(items, payload, trailing) == [items |-> items, payload |-> payload, trailing |-> trailing]
StoredBytes(file) == DocumentBytes(SubSeq(file.items, 1, Len(file.items) - 1)) + HeadBytes(Last(file.items)) + file.payload.bytes + file.trailing

\* fsobj-hash of a node or of a tree: names, kinds, executable bits, content
\* and link targets.
hash_path(fs) ==
  [p \in Paths(fs) |->
     CASE fs.nodes[p].kind = "directory" -> <<"directory">>
       [] fs.nodes[p].kind = "file" -> <<"file", Executable(fs.nodes[p].mode), fs.nodes[p].content>>
       [] fs.nodes[p].kind = "symlink" -> <<"symlink", fs.nodes[p].target>>
       [] OTHER -> <<"special">>]
hash_file_node(executable, content) == [p \in {<<>>} |-> <<"file", executable, content>>]
hash_fs_file_parts(uid, gid, mode, content) == <<uid, gid, mode, content>>

------------------------------------------------------------------------------
(* Writing.                                                                 *)

EncodedPayload(compression, kind, content) ==
  IF compression = "identity" THEN Raw(ContentBytes(kind, content), content) ELSE Frames(<<content>>)
check_content_sizes(encoded, decoded) == encoded <= MAX_CONTENT_BYTES /\ decoded <= MAX_CONTENT_BYTES
CompressionItems(compression, decoded, encoded) ==
  <<text("compression"), text(compression), text("decoded_size"), uint(decoded), head(Bytes, encoded, <<>>)>>
write_object_prefix(kind, executable, compression, decoded, encoded) ==
  <<array(2), map(4), text("kind"), text(kind)>>
    \o (IF kind = "file" THEN <<text("executable"), boolean(executable)>> ELSE <<text("archive"), text("tar")>>)
    \o CompressionItems(compression, decoded, encoded)
write_fs_file_prefix(meta, compression, decoded, encoded) ==
  <<array(2), map(5), text("gid"), uint(meta.gid), text("uid"), uint(meta.uid), text("mode"), uint(meta.mode)>>
    \o CompressionItems(compression, decoded, encoded)
\* The content of the object at the root of fs, and its hash.
encode_object(fs, compression) ==
  LET root == fs.nodes[<<>>]
      encoded(kind, executable, content, hash) ==
        LET payload == EncodedPayload(compression, kind, content)
            decoded == ContentBytes(kind, content)
        IN IF ~check_content_sizes(payload.bytes, decoded) THEN Err
           ELSE Ok([hash |-> hash, file |-> Stored(write_object_prefix(kind, executable, compression, decoded, payload.bytes), payload, 0)])
  IN CASE root.kind = "file" ->
            encoded("file", Executable(root.mode), root.content, hash_file_node(Executable(root.mode), root.content))
       [] root.kind = "directory" ->
            Then(write_directory_tar(fs), LAMBDA archive : encoded("directory", FALSE, archive, hash_path(fs)))
       [] OTHER -> Err
encode_fs_file(node, compression) ==
  LET payload == EncodedPayload(compression, "file", node.content)
      meta == [uid |-> node.owner[1], gid |-> node.owner[2], mode |-> node.mode]
  IN IF node.kind # "file" \/ ~check_content_sizes(payload.bytes, Len(node.content)) THEN Err
     ELSE Ok([hash |-> hash_fs_file_parts(meta.uid, meta.gid, meta.mode, node.content),
              file |-> Stored(write_fs_file_prefix(meta, compression, Len(node.content), payload.bytes), payload, 0)])
\* encode_preferred_object and encode_preferred_fs_file: both encodings have
\* to be of what was asked for, and the compressed one has to be shorter.
Preferred(identity, zstd, expected) ==
  Then(identity, LAMBDA i : Then(zstd, LAMBDA z :
    IF i.hash # expected \/ z.hash # expected THEN Err
    ELSE Ok(IF StoredBytes(z.file) < StoredBytes(i.file) THEN z.file ELSE i.file)))
encode_preferred_object(fs, expected) == Preferred(encode_object(fs, "identity"), encode_object(fs, "zstd"), expected)
encode_preferred_fs_file(node, expected) == Preferred(encode_fs_file(node, "identity"), encode_fs_file(node, "zstd"), expected)

------------------------------------------------------------------------------
(* Reading.                                                                 *)

parse_compression(item) == IF item.data \in {<<"identity">>, <<"zstd">>} THEN Ok(item.data[1]) ELSE Err
\* The items after the kind's own, and the extent of the payload.
CommonEnvelope(doc, file) ==
  Then(Field(doc, "compression", Text), LAMBDA c :
  Then(parse_compression(c.item), LAMBDA compression :
  Then(Field(c.rest, "decoded_size", Uint), LAMBDA d :
  Then(Read(d.rest, Bytes), LAMBDA p :
    IF \/ p.rest # <<>> \/ ~check_content_sizes(p.item.value, d.item.value)
       \/ p.item.value # file.payload.bytes + file.trailing
    THEN Err
    ELSE Ok([compression |-> compression, decoded_size |-> d.item.value])))))
parse_object_envelope(file) ==
  IF StoredBytes(file) > MAX_CONTENT_BYTES THEN Err
  ELSE
  Then(require_length(file.items, Array, 2), LAMBDA a :
  Then(Read(a, Map), LAMBDA m :
  Then(Field(m.rest, "kind", Text), LAMBDA k :
    LET common(kind, executable, rest) ==
          Then(CommonEnvelope(rest, file), LAMBDA c : Ok([kind |-> kind, executable |-> executable, common |-> c]))
    IN IF m.item.value # 4 THEN Err
       ELSE CASE k.item.data = <<"file">> ->
                   Then(require_text(k.rest, "executable"), LAMBDA r :
                   Then(ReadBoolean(r), LAMBDA b : common("file", b.item.value = 21, b.rest)))
              [] k.item.data = <<"directory">> ->
                   Then(Field(k.rest, "archive", Text), LAMBDA t :
                     IF t.item.data = <<"tar">> THEN common("directory", FALSE, t.rest) ELSE Err)
              [] OTHER -> Err)))
parse_fs_file_envelope(file) ==
  IF StoredBytes(file) > MAX_CONTENT_BYTES THEN Err
  ELSE
  Then(require_length(file.items, Array, 2), LAMBDA a :
  Then(require_length(a, Map, 5), LAMBDA m :
  Then(Field(m, "gid", Uint), LAMBDA g :
  Then(Field(g.rest, "uid", Uint), LAMBDA u :
  Then(Field(u.rest, "mode", Uint), LAMBDA o :
    IF g.item.value > U32_MAX \/ u.item.value > U32_MAX \/ o.item.value > 4095 THEN Err
    ELSE Then(CommonEnvelope(o.rest, file), LAMBDA c :
           Ok([uid |-> u.item.value, gid |-> g.item.value, mode |-> o.item.value, common |-> c])))))))
\* What the payload holds: exactly decoded_size bytes, in a single frame when
\* it is compressed.  Bytes of one kind read as the other are no content that
\* has the expected hash.
decode_payload(file, kind, common) ==
  LET content == IF common.compression = "identity" THEN file.payload.content ELSE file.payload.content[1]
  IN IF \/ (common.compression = "zstd") # (file.payload.form = "zstd")
        \/ common.compression = "zstd" /\ Len(file.payload.content) # 1
        \/ file.trailing > 0
        \/ ContentBytes(kind, content) # common.decoded_size
     THEN Err ELSE Ok(content)
decode_object(file, expected) ==
  Then(parse_object_envelope(file), LAMBDA e :
  Then(decode_payload(file, e.kind, e.common), LAMBDA content :
    IF e.kind = "file"
    THEN IF hash_file_node(e.executable, content) # expected THEN Err
         ELSE Ok(SetTimes(EmptyRoot(Regular(Root, IF e.executable THEN 493 ELSE 420, content)), <<>>))
    ELSE Then(extract_directory_tar(content), LAMBDA fs : IF hash_path(fs) # expected THEN Err ELSE Ok(fs))))
\* decode_fs_file_staged: the owner before the mode, and then a second look.
Owned(fs, e) == Chmod(ChownIfNeeded(fs, <<>>, <<e.uid, e.gid>>), <<>>, e.mode)
decode_fs_file(file, expected) ==
  Then(parse_fs_file_envelope(file), LAMBDA e :
  Then(decode_payload(file, "file", e.common), LAMBDA content :
    IF hash_fs_file_parts(e.uid, e.gid, e.mode, content) # expected THEN Err
    ELSE LET fs == Owned(SetTimes(EmptyRoot(Regular(Root, 384, content)), <<>>), e)
             node == fs.nodes[<<>>]
         IN IF hash_fs_file_parts(node.owner[1], node.owner[2], node.mode, node.content) # expected THEN Err ELSE Ok(fs)))
=============================================================================
