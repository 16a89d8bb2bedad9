---------------------------- MODULE RepoMetadata ----------------------------
(***************************************************************************)
(* The metadata of a repository: mapping indexes and content lists           *)
(* (index.rs), the master document, its signature and the keys that are       *)
(* trusted (master.rs), and hashes as text (format.rs).  Keys and hashes are  *)
(* numbers; an index is the sequence of its records.                          *)
(***************************************************************************)
EXTENDS RepoContent, Calls

CONSTANTS
  MAX_METADATA_RECORDS,
  MAX_MASTER_BYTES

------------------------------------------------------------------------------
(* Indexes and lists.                                                       *)

RECURSIVE lower_bound_from(_, _, _)
\* The loop of lower_bound: from base, len records, Less(i) for "below".
lower_bound_from(base, len, below) ==
  IF len = 0 THEN base
  ELSE LET half == len \div 2
           middle == base + half
       IN IF below[middle + 1] THEN lower_bound_from(middle + 1, len - (half + 1), below)
          ELSE lower_bound_from(base, half, below)
lower_bound(below) == lower_bound_from(0, Len(below), below)

\* MappingIndex::from_bytes; partial is what is left of an incomplete record.
index_from_bytes(records, partial) ==
  IF \/ Len(records) > MAX_METADATA_RECORDS \/ partial
     \/ \E i \in 2..Len(records) : records[i][1] < records[i - 1][1]
     \/ \E i, j \in DOMAIN records : i < j /\ records[i] = records[j]
  THEN Err ELSE Ok(records)
\* The hashes of a key that follow its first record, without repetitions.
candidates(index, key) ==
  LET start == lower_bound([i \in DOMAIN index |-> index[i][1] < key])
      others == {i \in (start + 1)..Len(index) : index[i][1] # key}
      end == IF others = {} THEN Len(index) ELSE Min(others) - 1
  IN FoldLeft(LAMBDA found, r : IF r[2] \in ToSet(found) THEN found ELSE Append(found, r[2]),
              <<>>, SubSeq(index, start + 1, end))
list_from_bytes(hashes, partial) ==
  IF Len(hashes) > MAX_METADATA_RECORDS \/ partial \/ \E i \in 2..Len(hashes) : hashes[i] <= hashes[i - 1]
  THEN Err ELSE Ok(hashes)
list_encode(hashes) == SortedListing(ToSet(hashes), <)
list_contains(list, hash) ==
  LET i == lower_bound([j \in DOMAIN list |-> list[j] < hash]) IN i < Len(list) /\ list[i + 1] = hash

------------------------------------------------------------------------------
(* Hashes as text.                                                          *)

HexDigits == <<"0", "1", "2", "3", "4", "5", "6", "7", "8", "9", "a", "b", "c", "d", "e", "f">>
hex_nibble(c) == IF c \in ToSet(HexDigits) THEN Ok((CHOOSE i \in 1..16 : HexDigits[i] = c) - 1) ELSE Err
hex_encode(hash) == [i \in 1..(2 * Len(hash)) |-> HexDigits[1 + (IF i % 2 = 1 THEN hash[(i + 1) \div 2] \div 16 ELSE hash[i \div 2] % 16)]]
hex_decode(str, length) ==
  IF Len(str) # 2 * length \/ \E i \in DOMAIN str : ~hex_nibble(str[i]).ok THEN Err
  ELSE Ok([i \in 1..length |-> 16 * hex_nibble(str[2 * i - 1]).val + hex_nibble(str[2 * i]).val])

------------------------------------------------------------------------------
(* The master document.                                                     *)

REPOSITORY_FORMAT == 1
HASH_BYTES == 32
\* The least bytes a slot can take; map(6), six keys, four hashes, two numbers.
MIN_ENCODED_SLOT_BYTES == 193
\* A hash is the item that holds it, 32 bytes long.
hash_item(h) == head(Bytes, HASH_BYTES, <<h>>)
require_hash(item) == IF item.value = HASH_BYTES THEN Ok(item.data[1]) ELSE Err
HashField(doc, key) == Then(Field(doc, key, Bytes), LAMBDA r : Then(require_hash(r.item), LAMBDA h : Ok([hash |-> h, rest |-> r.rest])))

encode_slot(slot) ==
  <<map(6), text("build"), hash_item(slot.build), text("reuse"), hash_item(slot.reuse), text("serial"), uint(slot.serial),
    text("file_list"), hash_item(slot.file_list), text("object_list"), hash_item(slot.object_list), text("retain_until"),
    IF slot.retain_until = <<>> THEN null ELSE uint(slot.retain_until[1])>>
encode_payload(master) ==
  <<map(4), text("slots"), array(Len(master.slots))>> \o FlattenSeq([i \in DOMAIN master.slots |-> encode_slot(master.slots[i])])
    \o <<text("data_base_url"), text(master.data_base_url.text), text("repository_format"), uint(REPOSITORY_FORMAT),
         text("previous_master_hash"), IF master.previous = <<>> THEN null ELSE hash_item(master.previous[1])>>
decode_slot(doc) ==
  Then(require_length(doc, Map, 6), LAMBDA d :
  Then(HashField(d, "build"), LAMBDA b :
  Then(HashField(b.rest, "reuse"), LAMBDA r :
  Then(Field(r.rest, "serial", Uint), LAMBDA s :
  Then(HashField(s.rest, "file_list"), LAMBDA f :
  Then(HashField(f.rest, "object_list"), LAMBDA o :
  Then(require_text(o.rest, "retain_until"), LAMBDA t :
    LET slot(until, rest) ==
          Ok([slot |-> [serial |-> s.item.value, build |-> b.hash, reuse |-> r.hash, object_list |-> o.hash,
                        file_list |-> f.hash, retain_until |-> until], rest |-> rest])
    IN IF ReadNull(t) THEN slot(<<>>, Tail(t)) ELSE Then(Read(t, Uint), LAMBDA u : slot(<<u.item.value>>, u.rest)))))))))
\* Url::parse: a URL is the same in several spellings, and text is the one in
\* which it is written again.  suffix: a query or a fragment; directory: the
\* path ends in a slash.
Url(t, scheme, user, suffix, directory) ==
  [text |-> t, scheme |-> scheme, user |-> user, suffix |-> suffix, directory |-> directory]
url_parse(t) ==
  CASE t \in {"https://r/", "https://r", "HTTPS://R:443/"} -> Ok(Url("https://r/", "https", "", "", TRUE))
    [] t \in {"http://r/", "HTTP://r"} -> Ok(Url("http://r/", "http", "", "", TRUE))
    [] t = "https://r/a" -> Ok(Url(t, "https", "", "", FALSE))
    [] t = "https://u@r/" -> Ok(Url(t, "https", "u", "", TRUE))
    [] t \in {"https://r?q", "https://r/?q"} -> Ok(Url("https://r/?q", "https", "", "q", TRUE))
    [] OTHER -> Err
UrlTexts == {"https://r/", "https://r", "HTTPS://R:443/", "http://r/", "HTTP://r", "https://r/a", "https://u@r/", "https://r?q", "https://r/?q", "r"}
validate_data_base_url(url) == url.scheme = "https" /\ url.user = "" /\ url.suffix = "" /\ url.directory
validate(master) ==
  /\ validate_data_base_url(master.data_base_url)
  /\ master.slots # <<>> /\ \A i \in 2..Len(master.slots) : master.slots[i].serial > master.slots[i - 1].serial
  /\ \E i \in DOMAIN master.slots : master.slots[i].retain_until = <<>>
decode_payload_of_master(doc) ==
  IF DocumentBytes(doc) > MAX_MASTER_BYTES THEN Err
  ELSE
  Then(require_length(doc, Map, 4), LAMBDA d :
  Then(Field(d, "slots", Array), LAMBDA n :
    IF n.item.value > DocumentBytes(n.rest) \div MIN_ENCODED_SLOT_BYTES THEN Err
    ELSE
    Then(ForEach([slots |-> <<>>, rest |-> n.rest], [i \in 1..n.item.value |-> i],
                 LAMBDA st, i : Then(decode_slot(st.rest), LAMBDA r : Ok([slots |-> Append(st.slots, r.slot), rest |-> r.rest]))), LAMBDA s :
    Then(Field(s.rest, "data_base_url", Text), LAMBDA u :
    Then(url_parse(u.item.data[1]), LAMBDA url :
    Then(Field(u.rest, "repository_format", Uint), LAMBDA f :
    Then(require_text(f.rest, "previous_master_hash"), LAMBDA p :
      LET previous == IF ReadNull(p) THEN Ok([hash |-> <<>>, rest |-> Tail(p)])
                      ELSE Then(Read(p, Bytes), LAMBDA r : Then(require_hash(r.item), LAMBDA h : Ok([hash |-> <<h>>, rest |-> r.rest])))
      IN Then(previous, LAMBDA h :
           LET master == [previous |-> h.hash, data_base_url |-> url, slots |-> s.slots]
           IN IF f.item.value # REPOSITORY_FORMAT \/ h.rest # <<>> \/ ~validate(master) THEN Err ELSE Ok(master)))))))))

------------------------------------------------------------------------------
(* Signatures.  A COSE_Sign1 object has protected headers, the unprotected   *)
(* ones, the payload and a signature, and is spelled deterministically or not. *)

Cose(alg, content_type, kid, other, unprotected, payload, signature, canonical) ==
  [alg |-> alg, content_type |-> content_type, kid |-> kid, other |-> other, unprotected |-> unprotected,
   payload |-> payload, signature |-> signature, canonical |-> canonical]
\* The bytes of the tag, the heads, the headers other than the key identifier,
\* and the signature.
COSE_BYTES == 121
CoseBytes(cose) ==
  LET payload == IF cose.payload = <<>> THEN 0 ELSE DocumentBytes(cose.payload[1])
  IN COSE_BYTES + ItemBytes(text(cose.kid)) + ItemBytes(head(Bytes, payload, <<>>))
\* The signature covers the protected headers and the payload.
Covered(cose) == <<cose.alg, cose.content_type, cose.kid, cose.other, cose.payload>>
SignedPayload(doc, kid, key) ==
  LET cose == Cose("EdDSA", "master", kid, FALSE, FALSE, <<doc>>, <<>>, TRUE)
  IN [cose EXCEPT !.signature = <<key, Covered(cose)>>]
sign(master, kid, key) ==
  LET cose == SignedPayload(encode_payload(master), kid, key)
  IN IF kid = "" \/ CoseBytes(cose) > MAX_MASTER_BYTES THEN Err ELSE Ok(cose)
validate_cose_headers(cose) ==
  /\ cose.alg = "EdDSA" /\ cose.content_type = "master" /\ cose.kid # "" /\ ~cose.other
  /\ ~cose.unprotected /\ cose.payload # <<>> /\ cose.signature # <<>>
\* TrustedKeys: one key for an identifier.
trusted_keys(pairs) ==
  IF \E i \in DOMAIN pairs : pairs[i][1] = "" \/ \E j \in DOMAIN pairs : i # j /\ pairs[i][1] = pairs[j][1] THEN Err
  ELSE Ok([id \in {pairs[i][1] : i \in DOMAIN pairs} |-> pairs[CHOOSE i \in DOMAIN pairs : pairs[i][1] = id][2]])
verify(keys, cose) ==
  IF CoseBytes(cose) > MAX_MASTER_BYTES \/ ~validate_cose_headers(cose) \/ cose.kid \notin DOMAIN keys THEN Err
  ELSE IF cose.signature # <<keys[cose.kid], Covered(cose)>> THEN Err
  ELSE Then(decode_payload_of_master(cose.payload[1]), LAMBDA master :
         IF cose.canonical THEN Ok([master |-> master, key_id |-> cose.kid]) ELSE Err)

------------------------------------------------------------------------------
(***************************************************************************)
(* Repository files: what is stored, what is made of stored files that were  *)
(* written by something else, and what the formats promise.                  *)
(***************************************************************************)

TextBytesDef(t) == Len(t)
FormMaxDef == <<23, 255, 65535, 70000, 80000>>
\* A frame takes a few bytes and one for every different byte of the content.
ZstdBytesDef(content) == 3 + Cardinality(ToSet(content))

Repeated(c, n) == [i \in 1..n |-> c]
NA == Repeated(97, 1)
NB == Repeated(98, 1)
------------------------------------------------------------------------------
(* Objects and fs-files.                                                    *)

File(mode, n) == Regular(Root, mode, Repeated(1, n))
Nodes == {File(420, 0), File(449, 3), File(420, 5), Symlink(Root, Repeated(99, 4)), Symlink(Root, Repeated(99, 5)), Symlink(Root, Repeated(99, 9)),
          Directory(Root, 448), Special(Root)}
\* Content around the limit, that compression makes shorter or longer.
AllDifferent(n) == [i \in 1..n |-> i]
Large == {Repeated(1, MAX_CONTENT_BYTES), Repeated(1, MAX_CONTENT_BYTES + 1), AllDifferent(MAX_CONTENT_BYTES - 80),
          AllDifferent(MAX_CONTENT_BYTES - 3), AllDifferent(MAX_CONTENT_BYTES - 2), AllDifferent(MAX_CONTENT_BYTES + 1)}
\* Paths that fit the fields of a header in each way, and that do not.
Deep == {NA, Join(NA, NB), Repeated(98, 4), Repeated(98, 5), Repeated(98, 8), Join(Repeated(97, 5), Repeated(98, 4)), Join(Repeated(97, 6), NB),
         Join(Repeated(97, 5), Repeated(98, 5)), JoinAll(<<NA, NB, NA>>), JoinAll(<<NA, NB, Repeated(98, 5)>>), JoinAll(<<NA, NB, NA, NB>>)}
TreeOf(entries) ==
  LET paths == DOMAIN entries \cup UNION {Ancestors(p) : p \in DOMAIN entries} \cup {<<>>}
  IN [nodes |-> [p \in paths |-> IF p \in DOMAIN entries THEN entries[p] ELSE Directory(Root, 493)], escaped |-> FALSE]
ClosedTree(fs) == \A p \in Paths(fs) : \A q \in Ancestors(p) : fs.nodes[q].kind = "directory"
Trees == {fs \in {TreeOf([p \in {x, y} |-> IF p = x THEN n ELSE m]) : x, y \in Deep, n \in Nodes, m \in {File(493, 2), Directory(Root, 493)}} : ClosedTree(fs)}
           \cup {EmptyRoot(n) : n \in Nodes \cup {Regular(Root, 420, c) : c \in Large}}
FsFiles == {[Regular(o, mode, c) EXCEPT !.time = "canonical"] : o \in {<<0, 0>>, <<7, 24>>}, mode \in {420, 2541, 3565},
              c \in {Repeated(1, n) : n \in {0, 4, 30}} \cup Large}

\* The forms that hold a number.
FormsOf(value) == {f \in 0..4 : value <= FormMax[f + 1]} \cup {5, 6}
\* Stored files that differ from what is written in one place.
Tamper(file) ==
  LET n == Len(file.items)
      at(i, item) == [file EXCEPT !.items[i] = item]
  IN {file} \cup {[file EXCEPT !.items = RemoveAt(@, i)] : i \in 1..(n - 1)}
     \cup {[file EXCEPT !.items = [@ EXCEPT ![i] = file.items[i + 1], ![i + 1] = file.items[i]]] : i \in 1..(n - 2)}
     \cup UNION {{at(i, [file.items[i] EXCEPT !.form = f]) : f \in FormsOf(file.items[i].value)} : i \in {j \in 1..n : file.items[j].major # Simple}}
     \cup {at(i, head(file.items[i].major, file.items[i].value + 1, file.items[i].data)) : i \in {j \in 1..n : file.items[j].major \notin {Text, Simple}}}
     \cup {at(i, text(t)) : i \in {j \in 1..n : file.items[j].major = Text}, t \in {"zstd", "identity", "file", "tar"}}
     \cup {at(i, boolean(b)) : i \in {j \in 1..n : file.items[j].major = Simple}, b \in BOOLEAN}
     \cup {[file EXCEPT !.trailing = 1], [at(n, head(Bytes, file.items[n].value + 1, <<>>)) EXCEPT !.trailing = 1]}
     \cup (IF file.payload.form = "raw" THEN {[file EXCEPT !.payload = Frames(<<file.payload.content>>)]}
           ELSE {[file EXCEPT !.payload = Frames(file.payload.content \o file.payload.content)],
                 [file EXCEPT !.payload = Raw(ContentBytes("file", file.payload.content[1]), file.payload.content[1])]})
SomeNodes == {Regular(Root, 493, Repeated(1, 30)), Regular(<<7, 24>>, 420, Repeated(1, 3))}
ObjectFiles(fs) == {encode_object(fs, c).val.file : c \in {"identity", "zstd"}}
FsFileFiles(node) == {encode_fs_file(node, c).val.file : c \in {"identity", "zstd"}}

------------------------------------------------------------------------------
(* Archives.                                                                *)

Entry(path, kind, link, content) == write_header(path, kind, 493, Len(content), link) \o DataOrNothing(content)
Header(path, kind) == write_raw_header(path, kind, 420, 0, <<>>)
Groups ==
  {Entry(NA, "5", <<>>, <<>>), Entry(NA, "0", <<>>, <<1>>), Entry(Join(NA, NB), "0", <<>>, <<1, 1, 1>>), Entry(NA, "2", NB, <<>>),
   Entry(NB, "2", <<Dot, Dot>>, <<>>), Entry(Join(NB, NA), "5", <<>>, <<>>), Entry(Join(NA, NB), "2", Repeated(99, 5), <<>>),
   Entry(Join(<<Dot>>, NB), "0", <<>>, <<>>), Entry(Join(<<Dot, Dot>>, NB), "0", <<>>, <<>>), Entry(<<Slash>> \o NA, "5", <<>>, <<>>),
   Entry(Append(NA, Slash), "5", <<>>, <<>>), Entry(Repeated(98, 6), "0", <<>>, <<>>), LongEntry("L", Repeated(98, 6)), LongEntry("L", NA), LongEntry("K", Repeated(99, 6)),
   LongEntry("K", NB), LongEntry("L", <<97, Nul, 97, 97, 97, 97>>),
   <<[Header(NA, "0") EXCEPT !.wellformed = FALSE]>>, <<Header(NA, "3")>>, <<[Header(NA, "5") EXCEPT !.size = write_size(1)], Data(<<1>>)>>,
   <<[Header(NA, "0") EXCEPT !.size = [base |-> 256, value |-> 1]], Data(<<1>>)>>, <<[Header(NA, "0") EXCEPT !.size = write_size(1)]>>,
   <<[Header(NA, "0") EXCEPT !.size = write_size(1)], [Data(<<1>>) EXCEPT !.padding = <<9>>]>>, <<ZeroBlock>>}
Ends == {<<ZeroBlock, ZeroBlock>>, <<ZeroBlock>>, <<ZeroBlock, ZeroBlock, ZeroBlock>>}
Archives ==
  {x \o y \o <<ZeroBlock, ZeroBlock>> : x, y \in Groups} \cup {x \o e : x \in Groups, e \in Ends}
  \cup {x \o y \o z \o <<ZeroBlock, ZeroBlock>> : x \in {Entry(NA, "5", <<>>, <<>>), Entry(NB, "2", <<Dot, Dot>>, <<>>), LongEntry("L", Repeated(98, 6)), LongEntry("K", Repeated(99, 6))},
                                                  y, z \in Groups}

------------------------------------------------------------------------------
(* Metadata.                                                                *)

Hashes == 1..3
Sequences_(S, n) == UNION {[1..k -> S] : k \in 0..n}
SlotOf(serial, until) == [serial |-> serial, build |-> "b", reuse |-> "r", object_list |-> "o", file_list |-> "f", retain_until |-> until]
Masters ==
  [previous : {<<>>, <<"p">>}, data_base_url : {url_parse(t).val : t \in {"https://r", "http://r/", "https://r/a"}},
   slots : {[i \in DOMAIN s |-> SlotOf(s[i][1], s[i][2])] : s \in Sequences_({1, 2, 300} \X {<<>>, <<70000>>}, 2)}]
GoodMaster == [previous |-> <<"p">>, data_base_url |-> url_parse("https://r/").val, slots |-> <<SlotOf(3, <<>>)>>]
LargeMaster == [GoodMaster EXCEPT !.slots = [i \in 1..3 |-> SlotOf(i, <<>>)]]
\* A document of a master whose base URL is spelled in another way.
Respelled(doc, t) == [doc EXCEPT ![Len(doc) - 4] = text(t)]
TamperDocument(doc) ==
  {doc, Append(doc, null), SubSeq(doc, 1, Len(doc) - 1)} \cup {RemoveAt(doc, i) : i \in DOMAIN doc}
  \cup {[doc EXCEPT ![i] = doc[i + 1], ![i + 1] = doc[i]] : i \in 1..(Len(doc) - 1)}
  \cup UNION {{[doc EXCEPT ![i].form = f] : f \in FormsOf(doc[i].value)} : i \in DOMAIN doc}
  \cup {[doc EXCEPT ![i] = head(@.major, @.value + k, @.data)] : i \in {j \in DOMAIN doc : doc[j].major \in {Uint, Bytes, Array, Map}}, k \in {1, 1000}}
  \cup {[doc EXCEPT ![i] = null] : i \in DOMAIN doc}
  \cup {[doc EXCEPT ![i] = text(t)] : i \in {j \in DOMAIN doc : doc[j].major = Text}, t \in UrlTexts}
Keyrings == Sequences_({"k1", "k2", ""} \X {1, 2}, 2)
\* What one key signed, and what somebody else made of it.
Signatures ==
  LET good == {sign(GoodMaster, kid, key).val : kid \in {"k1", "k2"}, key \in {1, 2}}
  IN good \cup {SignedPayload(Respelled(encode_payload(GoodMaster), t), "k1", 1) : t \in UrlTexts} \cup {SignedPayload(encode_payload(LargeMaster), "k1", 1)}
     \cup UNION {{[c EXCEPT !.kid = "k2"], [c EXCEPT !.payload = <<encode_payload([GoodMaster EXCEPT !.previous = <<>>])>>],
                       [c EXCEPT !.payload = <<>>], [c EXCEPT !.unprotected = TRUE], [c EXCEPT !.alg = "none"], [c EXCEPT !.canonical = FALSE],
                       [c EXCEPT !.signature = <<>>], [c EXCEPT !.other = TRUE]} : c \in good}

RepoCases ==
  [op : {"object"}, fs : Trees, stale : BOOLEAN]
  \cup [op : {"fs_file"}, node : FsFiles]
  \cup UNION {[op : {"object_file"}, of : {EmptyRoot(n)}, file : UNION {Tamper(f) : f \in ObjectFiles(EmptyRoot(n))}] : n \in SomeNodes}
  \cup UNION {[op : {"fs_file_file"}, of : {n}, file : UNION {Tamper(f) : f \in FsFileFiles(n)}] : n \in SomeNodes}
  \cup [op : {"archive"}, archive : Archives]
  \cup [op : {"octal"}, field : [1..3 -> {Nul, Space, Zero, Zero + 7, 65}] \cup {<<>>}]
  \cup [op : {"index"}, records : Sequences_({1, 2, 3} \X {1, 2}, 3) \cup [1..5 -> {1} \X {1}] \cup {<<<<1, 2>>, <<1, 1>>, <<2, 1>>, <<3, 1>>>>}, partial : BOOLEAN]
  \cup [op : {"list"}, hashes : Sequences_(Hashes, 4)]
  \cup [op : {"hex"}, hash : [1..2 -> {0, 9, 10, 159, 255}]]
  \cup [op : {"master"}, master : Masters]
  \cup [op : {"document"}, doc : TamperDocument(encode_payload(GoodMaster)) \cup {encode_payload(LargeMaster)}]
  \cup [op : {"signature"}, keys : Keyrings, cose : Signatures]

------------------------------------------------------------------------------
(* The calls.                                                               *)

Wrong == [p \in {} |-> 0]
StoreObject == Call("object",
  Then(encode_preferred_object(input.fs, IF input.stale THEN Wrong ELSE hash_path(input.fs)), LAMBDA file :
    Ok([file |-> file, back |-> decode_object(file, hash_path(input.fs)), other |-> decode_object(file, Wrong)])))
StoreFsFile == Call("fs_file",
  LET hash == encode_fs_file(input.node, "zstd").val.hash
  IN Then(encode_preferred_fs_file(input.node, hash), LAMBDA file : Ok([file |-> file, back |-> decode_fs_file(file, hash)])))
ReadObject == Call("object_file", decode_object(input.file, hash_path(input.of)))
ReadFsFile == Call("fs_file_file", decode_fs_file(input.file, encode_fs_file(input.of, "zstd").val.hash))
ReadArchive == Call("archive", extract_directory_tar(input.archive))
ReadOctal == Call("octal", parse_octal(input.field))
ReadIndex == Call("index", Then(index_from_bytes(input.records, input.partial), LAMBDA index : Ok([k \in 0..4 |-> candidates(index, k)])))
ReadList == Call("list", LET list == list_encode(input.hashes)
  IN Ok([raw |-> list_from_bytes(input.hashes, FALSE).ok, encoded |-> list_from_bytes(list, FALSE), contains |-> [h \in 0..4 |-> list_contains(list, h)]]))
ReadHex == Call("hex", hex_decode(hex_encode(input.hash), 2))
StoreMaster == Call("master", IF ~validate(input.master) THEN Err
  ELSE Then(sign(input.master, "k1", 1), LAMBDA cose : verify([id \in {"k1"} |-> 1], cose)))
ReadDocument == Call("document", decode_payload_of_master(input.doc))
ReadSignature == Call("signature", Then(trusted_keys(input.keys), LAMBDA keys : verify(keys, input.cose)))
RepoCall ==
  \/ StoreObject \/ StoreFsFile \/ ReadObject \/ ReadFsFile \/ ReadArchive \/ ReadOctal
  \/ ReadIndex \/ ReadList \/ ReadHex \/ StoreMaster \/ ReadDocument \/ ReadSignature

------------------------------------------------------------------------------
(* What the formats promise.                                                *)

\* An object in its canonical form.
Canonical(fs) ==
  [fs EXCEPT !.nodes = [p \in Paths(fs) |->
     LET n == fs.nodes[p]
     IN CASE n.kind = "symlink" -> [n EXCEPT !.time = "canonical"]
          [] n.kind = "directory" -> [n EXCEPT !.mode = 493, !.time = "canonical"]
          [] n.kind = "file" -> [n EXCEPT !.mode = IF Executable(n.mode) THEN 493 ELSE 420, !.time = "canonical"]]]
\* Both of the encodings have to fit; the archives of the inputs do.
ContentFits(content) == Len(content) <= MAX_CONTENT_BYTES /\ ZstdBytes(content) <= MAX_CONTENT_BYTES
Storable(fs) ==
  /\ fs.nodes[<<>>].kind \in {"file", "directory"}
  /\ fs.nodes[<<>>].kind = "file" => ContentFits(fs.nodes[<<>>].content)
  /\ \A p \in Paths(fs) \ {<<>>} :
       /\ fs.nodes[p].kind # "special" /\ Len(p) <= MAX_TAR_PATH_BYTES /\ Depth(p) <= MAX_TAR_DEPTH
       /\ \A c \in Components(p) : Len(c) <= MAX_TAR_COMPONENT_BYTES
       /\ fs.nodes[p].kind = "symlink" => Len(fs.nodes[p].target) <= MAX_TAR_SYMLINK_TARGET_BYTES
  /\ Cardinality(Paths(fs)) - 1 <= MAX_TAR_ENTRIES
  /\ FoldSet(LAMBDA p, n : n + Len(p) + (IF fs.nodes[p].kind = "symlink" THEN Len(fs.nodes[p].target) ELSE 0), 0, Paths(fs))
       <= MAX_TAR_STRUCTURAL_BYTES
\* The limit on a payload is that on the file with the envelope around it, so
\* that what just fits can be written and not be read.
OverTheLimit(file) == StoredBytes(file) > MAX_CONTENT_BYTES
\* What is stored for a hash and read back is what had the hash, down to the
\* names, the owner and the set-id bits; whatever can be stored is; and a
\* tree that changed since it was hashed is not stored.  Only a file that its
\* envelope makes too long is written and refused by every reader.
StoredIsRead ==
  /\ Answered("object") =>
       /\ output.ok <=> Storable(input.fs) /\ ~input.stale
       /\ output.ok => /\ output.val.back = IF OverTheLimit(output.val.file) THEN Err ELSE Ok(Canonical(input.fs))
                       /\ ~output.val.other.ok
  /\ Answered("fs_file") =>
       /\ output.ok <=> ContentFits(input.node.content)
       /\ output.ok => IF OverTheLimit(output.val.file) THEN ~output.val.back.ok
                       ELSE output.val.back.ok /\ output.val.back.val.nodes[<<>>] = input.node
\* There is one envelope for each compression of a content: no other spelling,
\* order, size or framing is accepted for the hash.
EnvelopesUnique ==
  /\ Answered("object_file") => (output.ok <=> input.file \in ObjectFiles(input.of))
  /\ Answered("fs_file_file") => (output.ok <=> input.file \in FsFileFiles(input.of))
\* An archive that is accepted puts every entry at its own path, once, inside
\* of the directory; nothing is written through a link.
ArchivesContained ==
  /\ Answered("archive") /\ output.ok =>
       LET headers == {i \in DOMAIN input.archive : input.archive[i].block = "header" /\ input.archive[i].kind \in {"0", "2"}}
           leaves == {p \in Paths(output.val) : output.val.nodes[p].kind # "directory"}
       IN /\ ~output.val.escaped /\ ClosedTree(output.val) /\ Canonical(output.val) = output.val
          /\ Cardinality(headers) = Cardinality(leaves)
  /\ Answered("octal") =>
       LET digits == {i \in DOMAIN input.field : Digit(input.field[i])}
       IN /\ output.ok <=> /\ digits # {} /\ \A i \in Min(digits)..Max(digits) : i \in digits
                           /\ \A i \in DOMAIN input.field \ digits : input.field[i] = Space \/ (i > Max(digits) /\ input.field[i] = Nul)
          /\ output.ok => \E w \in 2..4, v \in 0..511 :
               v = output.val /\ write_octal(w, v).ok
                 /\ SubSeq(write_octal(w, v).val, 1, w - 1) = SelectSeq(input.field, Digit)
\* Everything that is stored in a repository is read back as it was, and
\* nothing else is accepted in its place.
RepositoryContentFaithful == StoredIsRead /\ EnvelopesUnique /\ ArchivesContained

\* A lookup finds all that an index or a list has for a key, in order.
LookupsComplete ==
  /\ Answered("index") =>
       /\ output.ok <=> /\ ~input.partial /\ Len(input.records) <= MAX_METADATA_RECORDS
                        /\ \A i, j \in DOMAIN input.records : i < j => input.records[i][1] <= input.records[j][1] /\ input.records[i] # input.records[j]
       /\ output.ok => \A k \in 0..4 :
            LET own == SelectSeq(input.records, LAMBDA r : r[1] = k) IN output.val[k] = [i \in DOMAIN own |-> own[i][2]]
  /\ Answered("list") =>
       /\ output.val.encoded.ok /\ ToSet(output.val.encoded.val) = ToSet(input.hashes)
       /\ output.val.raw => output.val.encoded.val = input.hashes
       /\ \A h \in 0..4 : output.val.contains[h] <=> h \in ToSet(input.hashes)
  /\ Answered("hex") => output = Ok(input.hash)
\* A document that is accepted is that of the master it is read as, but for
\* the spelling of the base URL, whatever was done to it; written again it is
\* read as the same master.
DocumentsMeant ==
  Answered("document") =>
    /\ output.ok =>
         /\ \E t \in UrlTexts : input.doc = Respelled(encode_payload(output.val), t) /\ url_parse(t) = Ok(output.val.data_base_url)
         /\ DocumentBytes(input.doc) <= MAX_MASTER_BYTES
         /\ decode_payload_of_master(encode_payload(output.val)) = output
    /\ \A t \in {"https://r/", "https://r", "HTTPS://R:443/"} :
         input.doc = Respelled(encode_payload(GoodMaster), t) => output = Ok(GoodMaster)
\* A master is read as it was signed, unless it was too long to be signed, and
\* only when it is signed by the key that is pinned under the name it gives.
MastersAuthentic ==
  /\ Answered("master") =>
       /\ output.ok <=> validate(input.master) /\ CoseBytes(SignedPayload(encode_payload(input.master), "k1", 1)) <= MAX_MASTER_BYTES
       /\ output.ok => output.val.master = input.master
  /\ DocumentsMeant
  /\ Answered("signature") =>
       (output.ok <=> /\ trusted_keys(input.keys).ok
                      /\ \E i \in DOMAIN input.keys, t \in {"https://r/", "https://r", "HTTPS://R:443/"} :
                           /\ input.keys[i][1] # ""
                           /\ input.cose = SignedPayload(Respelled(encode_payload(GoodMaster), t), input.keys[i][1], input.keys[i][2]))
\* The metadata of a repository is found, complete and signed, or refused.
RepositoryMetadataFaithful == LookupsComplete /\ MastersAuthentic

=============================================================================
