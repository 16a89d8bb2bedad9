---------------------------- MODULE WorkingStore ----------------------------
(***************************************************************************)
(* Publication in bobr's working store (crate bobr-store): import of       *)
(* staged objects, object records, build and reuse mappings and rotated    *)
(* object refs, by concurrent writers any of which may die between two     *)
(* file-system operations and be run again.                                *)
(*                                                                         *)
(* A writer is a thread of some bobr process.  It works through a script   *)
(* of store operations; an operation is the sequence of its file-system    *)
(* effects (Steps), and every effect is one action.  Content is abstracted *)
(* to its hash; a manifest to the set of fs-files it refers to.            *)
(***************************************************************************)
EXTENDS Naturals, FiniteSets, Sequences

CONSTANTS
  Writers,     \* concurrent threads or processes that use the store
  Script,      \* per writer, the operations it performs, in order
  Hashes,      \* object hashes
  FsFiles,     \* fs-file hashes
  FilesOf,     \* per hash, the fs-files its manifest refers to
  ReadOnly,    \* hashes of directory objects without write permission
  Repository,  \* hashes a local repository can supply
  BuildKeys, ReuseKeys, RefNames,
  SourceKey,   \* per hash, BuildKey::from_object_hash
  MaxGenerations,  \* how many rotated refs of one second a name can have
  MaxCrashes,  \* bound: how often a writer dies
  IoErrors,    \* whether the publishing rename may fail
  None

OpKinds == {"build", "existing", "mapping", "reuseMapping", "source", "sourceHit", "copy"}
Ops == [op : OpKinds,
        key : BuildKeys,            \* build key to publish under
        reuse : SUBSET ReuseKeys,   \* reuse keys to publish
        hash : Hashes,              \* hash of the content at hand
        want : Hashes,              \* hash that was declared or asked for
        name : RefNames]

ASSUME ScriptAssumption == Script \in [Writers -> Seq(Ops)]
ASSUME FilesAssumption == FilesOf \in [Hashes -> SUBSET FsFiles]
ASSUME SourceKeyAssumption == SourceKey \in [Hashes -> BuildKeys]
ASSUME NoneAssumption == None \notin Hashes \cup BuildKeys
ASSUME GenerationsAssumption == MaxGenerations \in Nat

VARIABLES
  objects,   \* objects/<hash>: the hash of the content stored there, or None
  files,     \* fs-files present
  records,   \* object-records/<hash>.json: the build key it names, or None
  builds,    \* builds/<key>
  reuses,    \* reuses/<key>
  refs,      \* object-refs/<name>: target of the current ref
  history,   \* rotated refs object-refs/<name>.<mtime>[.<n>]
  hidden,    \* per writer, what it holds under a .bobr-import-* name, or None
  litter,    \* what dead writers left under such names: whose, number, content
  serials,   \* per writer, the last number its process gave such a name
  idx, pos,  \* per writer, current operation and current step of it
  todo,      \* per writer, reuse keys the operation has not stored yet
  seen,      \* per writer, what its operation has read and will act on
  failed,    \* per writer, operations that returned an error
  crashes,
  raced      \* history: ref names that two updates were at together

disk == <<objects, files, records, builds, reuses, refs, history, hidden, litter, serials>>
control == <<idx, pos, todo, seen, failed, crashes>>
vars == <<disk, control, raced>>

----------------------------------------------------------------------------
\* Faulty variant: a build mapping becomes visible before the content it names.
StepsMapBeforeContent ==
  [op \in OpKinds |->
     CASE op = "copy" -> <<"lookup", "fetch", "expect", "import", "publish">>
       [] op = "build" -> <<"map", "intern", "import", "publish", "record", "write">>
       [] OTHER -> <<"record", "write", "map">>]

\* The file-system effects of each operation, in the order of the code; the
\* last four are update_object_ref.
Steps ==
  [op \in OpKinds |->
     CASE op = "build" -> <<"intern", "import", "publish", "record", "write", "reuse", "map",
                            "read", "alloc", "rotate", "replace">>
       [] op = "existing" -> <<"check", "record", "write", "reuse", "map",
                               "read", "alloc", "rotate", "replace">>
       [] op = "mapping" -> <<"record", "write", "map">>
       [] op = "reuseMapping" -> <<"record", "write", "reuse", "map">>
       [] op = "source" -> <<"import", "publish", "verify", "record", "write", "map",
                             "read", "alloc", "rotate", "replace">>
       [] op = "sourceHit" -> <<"present", "record", "write", "map",
                                "read", "alloc", "rotate", "replace">>
       [] op = "copy" -> <<"lookup", "fetch", "expect", "import", "publish">>]

Op(w) == Script[w][idx[w]]
Running(w) == idx[w] <= Len(Script[w])
At(w, step) == Running(w) /\ Steps[Op(w).op][pos[w]] = step

\* The path an import publishes to: copies know it, other imports hash.
Destination(w) == IF Op(w).op = "copy" THEN Op(w).want ELSE Op(w).hash
\* The object an operation records and maps.
Subject(w) == IF Op(w).op \in {"source", "sourceHit"} THEN Op(w).want ELSE Op(w).hash
Key(w) == IF Op(w).op \in {"source", "sourceHit"} THEN SourceKey[Op(w).want] ELSE Op(w).key

Present(h) == objects[h] # None
\* Store::object_is_complete
Complete(h) == Present(h) /\ FilesOf[objects[h]] \subseteq files

RepositoryFiles == UNION {FilesOf[h] : h \in Repository}

NothingSeen == [target |-> None, n |-> 0]
\* The reuse keys of a writer's operation number i, which may be past the last.
ReuseKeysOf(w, i) == IF i \in DOMAIN Script[w] THEN Script[w][i].reuse ELSE {}

\* The operation returns; the writer turns to its next one.
Return(w, ok) ==
  /\ idx' = [idx EXCEPT ![w] = @ + 1]
  /\ pos' = [pos EXCEPT ![w] = 1]
  /\ todo' = [todo EXCEPT ![w] = ReuseKeysOf(w, idx[w] + 1)]
  /\ seen' = [seen EXCEPT ![w] = NothingSeen]
  /\ failed' = IF ok THEN failed ELSE failed \cup {<<w, idx[w]>>}
  /\ UNCHANGED crashes

\* Go on n steps ahead, or return after the last step.
Advance(w, n) ==
  IF pos[w] + n > Len(Steps[Op(w).op])
  THEN Return(w, TRUE)
  ELSE /\ pos' = [pos EXCEPT ![w] = @ + n]
       /\ UNCHANGED <<idx, todo, seen, failed, crashes>>

Init ==
  /\ objects = [h \in Hashes |-> None]
  /\ files = {}
  /\ records = [h \in Hashes |-> None]
  /\ builds = [k \in BuildKeys |-> None]
  /\ reuses = [k \in ReuseKeys |-> None]
  /\ refs = [n \in RefNames |-> None]
  /\ history = {}
  /\ hidden = [w \in Writers |-> None]
  /\ litter = {}
  /\ serials = [w \in Writers |-> 0]
  /\ idx = [w \in Writers |-> 1]
  /\ pos = [w \in Writers |-> 1]
  /\ todo = [w \in Writers |-> ReuseKeysOf(w, 1)]
  /\ seen = [w \in Writers |-> NothingSeen]
  /\ failed = {}
  /\ crashes = 0
  /\ raced = {}

----------------------------------------------------------------------------
(* Starting and dying.                                                     *)

\* The writer dies; what it put on disk stays, and the operation runs again,
\* in a process that may have the same number.
Crash(w) ==
  /\ Running(w)
  /\ pos[w] > 1
  /\ crashes < MaxCrashes
  /\ crashes' = crashes + 1
  /\ pos' = [pos EXCEPT ![w] = 1]
  /\ todo' = [todo EXCEPT ![w] = ReuseKeysOf(w, idx[w])]
  /\ seen' = [seen EXCEPT ![w] = NothingSeen]
  /\ litter' = litter \cup [by : {w}, n : {serials[w]}, content : {hidden[w]} \ {None}]
  /\ serials' = [serials EXCEPT ![w] = 0]
  /\ hidden' = [hidden EXCEPT ![w] = None]
  /\ UNCHANGED <<objects, files, records, builds, reuses, refs, history, idx, failed>>

----------------------------------------------------------------------------
(* Content: fs-files, import_object and import_object_with_expected_hash.  *)

\* A builder interns the regular files of its tree one at a time.
InternFile(w) ==
  /\ At(w, "intern")
  /\ \/ \E f \in FilesOf[Op(w).hash] \ files :
          files' = files \cup {f} /\ UNCHANGED control
     \/ /\ FilesOf[Op(w).hash] \subseteq files
        /\ Advance(w, 1)
        /\ UNCHANGED files
  /\ UNCHANGED <<objects, records, builds, reuses, refs, history, hidden, litter, serials>>

\* LocalCopyContentSource::import_object looks once whether the object is in
\* the working store, then whether the repository has it.
LookupObject(w) ==
  LET h == Op(w).want IN
  /\ At(w, "lookup")
  /\ IF Present(h) \/ h \in Repository
       THEN /\ seen' = [seen EXCEPT ![w].target = objects[h]]
            /\ pos' = [pos EXCEPT ![w] = @ + 1]
            /\ UNCHANGED <<idx, todo, failed, crashes>>
       ELSE Return(w, TRUE)
  /\ UNCHANGED disk

\* ensure_fs_files: the files come before the object, or complete one that
\* was found; nothing is copied unless the repository has all of them.
FetchFiles(w) ==
  LET missing == FilesOf[Op(w).want] \ files IN
  /\ At(w, "fetch")
  /\ \/ missing \subseteq RepositoryFiles /\ (\E f \in missing : files' = files \cup {f})
          /\ UNCHANGED control
     \/ ~(missing \subseteq RepositoryFiles) /\ Return(w, FALSE) /\ UNCHANGED files
     \/ missing = {} /\ seen[w].target # None /\ Return(w, TRUE) /\ UNCHANGED files
     \/ missing = {} /\ seen[w].target = None /\ Advance(w, 1) /\ UNCHANGED files
  /\ UNCHANGED <<objects, records, builds, reuses, refs, history, hidden, litter, serials>>

\* A copy is hashed and refused unless it is what was asked for.
ExpectHash(w) ==
  /\ At(w, "expect")
  /\ IF Op(w).hash = Op(w).want THEN Advance(w, 1) ELSE Return(w, FALSE)
  /\ UNCHANGED disk

\* destination.exists(): the staged path is dropped, the object is reused.
ImportExists(w) ==
  /\ At(w, "import")
  /\ Advance(w, IF Present(Destination(w)) THEN 2 ELSE 1)
  /\ UNCHANGED disk

\* next_pending_import_path: the numbers of the process in order, until one
\* with which nothing was left behind.
Left(w, n) == \E l \in litter : l.by = w /\ l.n = n
NextPendingImport(w) ==
  \E n \in (serials[w] + 1)..(serials[w] + crashes + 1) :
    /\ ~Left(w, n)
    /\ \A i \in (serials[w] + 1)..(n - 1) : Left(w, i)
    /\ serials' = [serials EXCEPT ![w] = n]

\* publish_read_only_directory: first under that hidden name in objects/.
HideReadOnly(w) ==
  /\ At(w, "publish")
  /\ hidden[w] = None
  /\ Op(w).hash \in ReadOnly
  /\ NextPendingImport(w)
  /\ hidden' = [hidden EXCEPT ![w] = Op(w).hash]
  /\ UNCHANGED <<objects, files, records, builds, reuses, refs, history, litter, control>>

\* The move to the hidden name fails: an error whoever else published.
HideFails(w) ==
  /\ IoErrors
  /\ At(w, "publish")
  /\ hidden[w] = None
  /\ Op(w).hash \in ReadOnly
  /\ NextPendingImport(w)
  /\ Return(w, FALSE)
  /\ UNCHANGED <<objects, files, records, builds, reuses, refs, history, hidden, litter>>

CanPublish(w) == At(w, "publish") /\ (Op(w).hash \in ReadOnly => hidden[w] # None)

\* rename onto objects/<hash>.  A file replaces an equal file, a directory
\* that lost the race is removed: either way the path holds the content.
PublishObject(w) ==
  LET h == Op(w).hash IN
  /\ CanPublish(w)
  /\ objects' = [objects EXCEPT ![Destination(w)] = IF @ = None \/ h \notin ReadOnly THEN h ELSE @]
  /\ hidden' = [hidden EXCEPT ![w] = None]
  /\ Advance(w, 1)
  /\ UNCHANGED <<files, records, builds, reuses, refs, history, litter, serials>>

\* The rename fails.  If the destination exists by now that is a success;
\* otherwise the content is rolled back to where it was staged, as it is when
\* the mode of a hidden directory cannot be restored.  (The rollback itself
\* is taken to succeed.)
PublishFails(w) ==
  /\ IoErrors
  /\ CanPublish(w)
  /\ \/ Present(Destination(w)) /\ Advance(w, 1)
     \/ (~Present(Destination(w)) \/ hidden[w] # None) /\ Return(w, FALSE)
  /\ hidden' = [hidden EXCEPT ![w] = None]
  /\ UNCHANGED <<objects, files, records, builds, reuses, refs, history, litter, serials>>

----------------------------------------------------------------------------
(* Records, mappings and the decisions before them.                        *)

\* import_source_object: a mismatch keeps the object and maps nothing.
VerifySource(w) ==
  /\ At(w, "verify")
  /\ IF Op(w).hash = Op(w).want THEN Advance(w, 1) ELSE Return(w, FALSE)
  /\ UNCHANGED disk

\* record_existing_source_object: an absent object is not an error.
SourcePresent(w) ==
  /\ At(w, "present")
  /\ IF Present(Op(w).want) THEN Advance(w, 1) ELSE Return(w, TRUE)
  /\ UNCHANGED disk

\* publish_existing_build refuses incomplete content.
CheckComplete(w) ==
  /\ At(w, "check")
  /\ IF Complete(Op(w).hash) THEN Advance(w, 1) ELSE Return(w, FALSE)
  /\ UNCHANGED disk

\* Faulty variant: presence of the object path is taken for completeness.
RecordExistsPresence(w) ==
  /\ At(w, "record")
  /\ \/ ~Present(Subject(w)) /\ Return(w, FALSE)
     \/ Present(Subject(w)) /\ Advance(w, IF records[Subject(w)] = None THEN 1 ELSE 2)
  /\ UNCHANGED disk

\* Faulty variant: what has a record is taken to have been published before.
RecordExistsPublished(w) ==
  /\ At(w, "record")
  /\ \/ Op(w).op # "build" /\ ~Complete(Subject(w)) /\ Return(w, FALSE)
     \/ /\ Op(w).op = "build" \/ Complete(Subject(w))
        /\ IF records[Subject(w)] = None THEN Advance(w, 1) ELSE Return(w, TRUE)
  /\ UNCHANGED disk

\* record_existing_object insists on complete content; import_build has just
\* imported it.  store_object_record first looks for an existing record.
RecordExists(w) ==
  /\ At(w, "record")
  /\ \/ Op(w).op # "build" /\ ~Complete(Subject(w)) /\ Return(w, FALSE)
     \/ /\ Op(w).op = "build" \/ Complete(Subject(w))
        /\ Advance(w, IF records[Subject(w)] = None THEN 1 ELSE 2)
  /\ UNCHANGED disk

\* write_atomic: a temporary file renamed over the record.  Content that was
\* found in the store is recorded under its neutral build key.
RecordWrite(w) ==
  LET h == Subject(w) IN
  /\ At(w, "write")
  /\ records' = [records EXCEPT ![h] = IF Op(w).op = "build" THEN Op(w).key ELSE SourceKey[h]]
  /\ Advance(w, 1)
  /\ UNCHANGED <<objects, files, builds, reuses, refs, history, hidden, litter, serials>>

StoreReuseRef(w) ==
  /\ At(w, "reuse")
  /\ \/ \E k \in todo[w] :
          /\ reuses' = [reuses EXCEPT ![k] = Subject(w)]
          /\ todo' = [todo EXCEPT ![w] = @ \ {k}]
          /\ UNCHANGED <<idx, pos, seen, failed, crashes>>
     \/ todo[w] = {} /\ Advance(w, 1) /\ UNCHANGED reuses
  /\ UNCHANGED <<objects, files, records, builds, refs, history, hidden, litter, serials>>

StoreBuildRef(w) ==
  /\ At(w, "map")
  /\ builds' = [builds EXCEPT ![Key(w)] = Subject(w)]
  /\ Advance(w, 1)
  /\ UNCHANGED <<objects, files, records, reuses, refs, history, hidden, litter, serials>>

----------------------------------------------------------------------------
(* update_object_ref.                                                      *)

\* lstat and readlink of the current ref; the same target ends the update.
ReadRef(w) ==
  LET cur == refs[Op(w).name] IN
  /\ At(w, "read")
  /\ IF cur = Subject(w)
       THEN Return(w, TRUE)
       ELSE /\ seen' = [seen EXCEPT ![w] = [target |-> cur, n |-> 0]]
            /\ pos' = [pos EXCEPT ![w] = @ + (IF cur = None THEN 3 ELSE 1)]
            /\ UNCHANGED <<idx, todo, failed, crashes>>
  /\ UNCHANGED disk

Generation(w, k) == [name |-> Op(w).name, n |-> k]
Taken(g) == \E e \in history : e.gen = g

\* allocate_generation_name: the first free .<mtime>[.<n>] suffix, or an
\* error when there is none.  All rotations fall in one second, the case in
\* which the counter decides.
AllocateGeneration(w) ==
  /\ At(w, "alloc")
  /\ \/ \E k \in 1..MaxGenerations :
          /\ ~Taken(Generation(w, k))
          /\ \A i \in 1..(k - 1) : Taken(Generation(w, i))
          /\ seen' = [seen EXCEPT ![w].n = k]
          /\ pos' = [pos EXCEPT ![w] = @ + 1]
          /\ UNCHANGED <<idx, todo, failed, crashes>>
     \/ /\ \A k \in 1..MaxGenerations : Taken(Generation(w, k))
        /\ Return(w, FALSE)
  /\ UNCHANGED disk

\* Faulty variant: the generation ref gets the new target.
RotateRefNewTarget(w) ==
  LET g == Generation(w, seen[w].n) IN
  /\ At(w, "rotate")
  /\ history' = {e \in history : e.gen # g} \cup {[gen |-> g, target |-> Subject(w)]}
  /\ Advance(w, 1)
  /\ UNCHANGED <<objects, files, records, builds, reuses, refs, hidden, litter, serials>>

\* create_generation_ref replaces whatever has the name by now.
RotateRef(w) ==
  LET g == Generation(w, seen[w].n) IN
  /\ At(w, "rotate")
  /\ history' = {e \in history : e.gen # g} \cup {[gen |-> g, target |-> seen[w].target]}
  /\ Advance(w, 1)
  /\ UNCHANGED <<objects, files, records, builds, reuses, refs, hidden, litter, serials>>

ReplaceRef(w) ==
  /\ At(w, "replace")
  /\ refs' = [refs EXCEPT ![Op(w).name] = Subject(w)]
  /\ Advance(w, 1)
  /\ UNCHANGED <<objects, files, records, builds, reuses, history, hidden, litter, serials>>

----------------------------------------------------------------------------
Work(w) ==
  \/ InternFile(w) \/ LookupObject(w) \/ FetchFiles(w) \/ ExpectHash(w)
  \/ ImportExists(w) \/ HideReadOnly(w) \/ PublishObject(w)
  \/ VerifySource(w) \/ SourcePresent(w) \/ CheckComplete(w)
  \/ RecordExists(w) \/ RecordWrite(w) \/ StoreReuseRef(w)
  \/ StoreBuildRef(w) \/ ReadRef(w) \/ AllocateGeneration(w) \/ RotateRef(w) \/ ReplaceRef(w)

IoError(w) == HideFails(w) \/ PublishFails(w)

\* update_object_ref takes no lock: two writers may be between reading a ref
\* and replacing it at once.
InUpdate(w, n) == (At(w, "alloc") \/ At(w, "rotate") \/ At(w, "replace")) /\ Op(w).name = n
Overlapping == {n \in RefNames : \E v, w \in Writers : v # w /\ InUpdate(v, n) /\ InUpdate(w, n)}

Next ==
  /\ \E w \in Writers : Work(w) \/ IoError(w) \/ Crash(w)
  /\ raced' = raced \cup Overlapping'

Spec == Init /\ [][Next]_vars

----------------------------------------------------------------------------
(* Properties.                                                             *)

\* Every variable holds a value of its type.
TypeOK ==
  /\ objects \in [Hashes -> Hashes \cup {None}]
  /\ files \subseteq FsFiles
  /\ records \in [Hashes -> BuildKeys \cup {None}]
  /\ builds \in [BuildKeys -> Hashes \cup {None}]
  /\ reuses \in [ReuseKeys -> Hashes \cup {None}]
  /\ refs \in [RefNames -> Hashes \cup {None}]
  /\ \A e \in history : e.target \in Hashes /\ e.gen.name \in RefNames /\ e.gen.n >= 1
  /\ hidden \in [Writers -> Hashes \cup {None}]
  /\ litter \subseteq [by : Writers, n : Nat, content : Hashes]
  /\ serials \in [Writers -> Nat]
  /\ \A w \in Writers : idx[w] \in 1..(Len(Script[w]) + 1)
  /\ \A w \in Writers : pos[w] \in 1..11
  /\ crashes \in 0..MaxCrashes
  /\ raced \subseteq RefNames

Mapped ==
  {builds[k] : k \in BuildKeys} \cup {reuses[k] : k \in ReuseKeys}
    \cup {refs[n] : n \in RefNames} \cup {e.target : e \in history}

\* What is on disk is consistent after every step, crash and race.  Mappings
\* and refs, current or rotated, name complete content (STORE.md: "Publication
\* creates these mappings only after the target object is complete in the
\* store") and the object behind a mapping has its record; <hash> holds content
\* with that hash, whoever raced for the path and whatever bytes a repository
\* served; a hidden import name exists only while its writer publishes, or
\* because of a crash, and is never one that a crash left taken, which would
\* be in the way of every replay; and a source whose origin produced something else fails,
\* even when somebody else has brought the declared object.
MappingsComplete ==
  /\ \A h \in Mapped \ {None} : Complete(h)
  /\ \A h \in {builds[k] : k \in BuildKeys} \cup {reuses[k] : k \in ReuseKeys} :
       h # None => records[h] # None
ContentAddressed ==
  /\ \A h \in Hashes : Present(h) => objects[h] = h
  /\ \A w \in Writers : hidden[w] # None => At(w, "publish") /\ ~Left(w, serials[w])
  /\ litter # {} => crashes > 0
MismatchReported ==
  \A w \in Writers : \A i \in 1..(idx[w] - 1) :
    Script[w][i].op = "source" /\ Script[w][i].hash # Script[w][i].want => <<w, i>> \in failed
StoreConsistent == MappingsComplete /\ ContentAddressed /\ MismatchReported

\* Nothing is lost: no publication, crash or replay removes an object or an
\* fs-file or changes what a hash stands for.  And no rotated ref is overwritten,
\* and a ref that is replaced is found in the history of its name, even when
\* rotations meet in one second or a writer dies between rotation and
\* replacement, unless two updates of that very name have overlapped.
ContentKept ==
  /\ files \subseteq files'
  /\ \A h \in Hashes : Present(h) => objects'[h] = objects[h]
HistoryKept ==
  \A n \in RefNames \ raced :
    /\ \A e \in history : e.gen.name = n => e \in history'
    /\ refs[n] # None /\ refs'[n] # refs[n] =>
         \E e \in history' : e.gen.name = n /\ e.target = refs[n]
NothingLost == [][ContentKept /\ HistoryKept]_vars

\* What an operation that returned success did is there from then on, though
\* it died at any step and was run again over what it had left half done, and
\* whatever others did to the same object, keys and names since: the content
\* with all of its files, its record, the mappings of all its keys and its ref;
\* and a copy of what the repository has is complete.
SubjectOf(o) == IF o.op = "source" THEN o.want ELSE o.hash
KeyOf(o) == IF o.op = "source" THEN SourceKey[o.want] ELSE o.key
Effects(o) ==
  /\ Complete(SubjectOf(o)) /\ records[SubjectOf(o)] # None
  /\ builds[KeyOf(o)] # None
  /\ o.op # "source" => \A k \in o.reuse : reuses[k] # None
  /\ o.op \in {"build", "existing", "source"} => refs[o.name] # None
SuccessMeansDone ==
  \A w \in Writers : \A i \in 1..(idx[w] - 1) :
    LET o == Script[w][i] IN
    <<w, i>> \notin failed =>
      /\ o.op \notin {"sourceHit", "copy"} => Effects(o)
      /\ o.op = "copy" /\ o.want \in Repository => Complete(o.want)

\* The working store implements the abstract content store.
StoreNames == ({"build"} \X BuildKeys) \cup ({"reuse"} \X ReuseKeys) \cup ({"ref"} \X RefNames)
Bindings ==
  [n \in StoreNames |-> CASE n[1] = "build" -> builds[n[2]]
                          [] n[1] = "reuse" -> reuses[n[2]]
                          [] n[1] = "ref"   -> refs[n[2]]]
CompleteContents == {h \in Hashes : Complete(h)}
Content == INSTANCE ContentStore WITH
  Contents <- Hashes, Names <- StoreNames, NoContent <- None,
  complete <- CompleteContents, binding <- Bindings
ImplementsContentStore == Content!ContentSpec
=============================================================================
