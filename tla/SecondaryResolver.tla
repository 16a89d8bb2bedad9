------------------------- MODULE SecondaryResolver -------------------------
(***************************************************************************)
(* The secondary resolver (crate bobr-source) over its providers: trusted  *)
(* mappings are asked of all mapping providers at once, content is located *)
(* at all content sources at once, and imported from one source after the  *)
(* other, fs-files before the manifest that needs them.  Remote sources    *)
(* share one staged download per object under a lock; local ones link or   *)
(* copy.  Several calls run at a time and other writers use the store.     *)
(*                                                                         *)
(* Content is its hash, a manifest the sequence of fs-files it names.      *)
(* fault says, once per behaviour, which lookups, fetches and imports      *)
(* fail: the transport of a run remembers failures, so they do not change. *)
(***************************************************************************)
EXTENDS Naturals, Sequences, FiniteSets, SequencesExt

CONSTANTS
  Calls, Request,        \* concurrent calls, and what each of them asks for
  FilesOf,               \* per object hash, the fs-files of its manifest
  Mappers, Answer,       \* mapping providers in order; per provider and key, hashes
  Sources, Mode, Has,    \* content sources in order, how they transfer, what they have
  BatchSize,             \* FS_FILE_IMPORT_BATCH_SIZE
  FaultPoints,           \* lookups, fetches and imports that may fail, and how
  MaxFaults,             \* bound: so many of them fail in one behaviour
  StoredObjects, StoredFiles,  \* what the working store has at first
  OtherObjects,          \* objects other writers may publish meanwhile
  None

ASSUME BatchAssumption == BatchSize \in Nat \ {0}
ASSUME RequestAssumption == \A c \in Calls : Request[c].op \in {"ensure", "builds", "reuses"}

VARIABLES
  fault,      \* per fault point: "ok", "down" (transport, disk), "corrupt" or "gone"
  objects,    \* objects of the working store
  files,      \* fs-files of the working store
  mapped,     \* published mappings, pairs of key and object
  foreign,    \* objects that other writers published
  lock,       \* the staging locks that are held: pairs of source and object, by call
  staged,     \* pairs of source and object with a staged download
  downloads,  \* history: pairs of which a download succeeded and was not lost since
  repeated,   \* history: pairs that were downloaded again
  call        \* per call, where it is and what it has found out

store == <<objects, files, mapped, foreign>>
staging == <<lock, staged, downloads, repeated>>
vars == <<fault, store, staging, call>>

Fault(p) == IF p \in DOMAIN FaultPoints THEN fault[p] ELSE "ok"
Complete(h) == h \in objects /\ ToSet(FilesOf[h]) \subseteq files

\* unique_in_order
Unique(s) == SelectSeq([i \in DOMAIN s |-> <<i, s[i]>>],
                       LAMBDA e : \A j \in 1 .. (e[1] - 1) : s[j] # e[2])
UniqueInOrder(s) == [i \in DOMAIN Unique(s) |-> Unique(s)[i][2]]

\* The key a provider is asked for: a reuse query is a build key with a reuse key.
Asked(c, k) == IF Request[c].op = "reuses" THEN k[2] ELSE k

Fresh == [pc |-> "start", waiting |-> {}, arrived |-> <<>>, groups |-> <<>>, avail |-> <<>>,
          g |-> 1, k |-> 1, s |-> 1, after |-> "none", need |-> <<>>, left |-> {},
          todo |-> <<>>, from |-> 1, report |-> {}, outcome |-> "none"]

Init ==
  /\ fault \in {f \in [DOMAIN FaultPoints -> {"ok", "down", "corrupt", "gone"}] :
                   /\ \A p \in DOMAIN FaultPoints : f[p] = "ok" \/ f[p] \in FaultPoints[p]
                   /\ Cardinality({p \in DOMAIN FaultPoints : f[p] # "ok"}) <= MaxFaults}
  /\ objects = StoredObjects
  /\ files = StoredFiles
  /\ mapped = {}
  /\ foreign = {}
  /\ lock = {}
  /\ staged = {}
  /\ downloads = {}
  /\ repeated = {}
  /\ call = [c \in Calls |-> Fresh]

At(c, pc) == call[c].pc = pc
Group(c) == call[c].groups[call[c].g]
Hash(c) == Group(c).candidates[call[c].k]
Pair(c) == <<call[c].s, Hash(c)>>
Remote(c) == Mode[Sources[call[c].s]] = "Download"

\* The call goes on at pc; the rest of its record stays.
Goto(c, pc) == call' = [call EXCEPT ![c].pc = pc]
Fail(c) == call' = [call EXCEPT ![c].pc = "done", ![c].outcome = "error"]

----------------------------------------------------------------------------
(* Mapping providers.                                                      *)

\* Known objects need no mapping; keys are looked up by all providers at once.
Start(c) ==
  /\ At(c, "start")
  /\ LET keys == UniqueInOrder(Request[c].keys) IN
     IF Request[c].op = "ensure"
     THEN call' = [call EXCEPT ![c].pc = "plan",
                               ![c].groups = [i \in DOMAIN keys |->
                                               [key |-> keys[i], candidates |-> <<keys[i]>>]]]
     ELSE call' = [call EXCEPT ![c].pc = "ask", ![c].waiting = DOMAIN Mappers,
                               ![c].groups = [i \in DOMAIN keys |->
                                               [key |-> keys[i], candidates |-> <<>>]]]
  /\ UNCHANGED <<fault, store, staging>>

MapperAnswers(c) ==
  /\ At(c, "ask")
  /\ \E m \in call[c].waiting :
       call' = [call EXCEPT ![c].waiting = @ \ {m}, ![c].arrived = Append(@, m)]
  /\ UNCHANGED <<fault, store, staging>>

\* What provider m says about key k: resources it cannot reach are left out,
\* invalid metadata is an error (resolve_builds, available_resource).
MapperAnswer(m, k) == IF Fault(<<"map", m, k>>) = "ok" THEN Answer[m][k] ELSE <<>>
MapperBroken(c) ==
  \E m \in DOMAIN Mappers, i \in DOMAIN call[c].groups :
    Fault(<<"map", m, Asked(c, call[c].groups[i].key)>>) = "corrupt"

\* group_answers: the distinct hashes of all answers, providers in the given order.
Candidates(k, order) ==
  UniqueInOrder(FlattenSeq([i \in DOMAIN order |-> MapperAnswer(order[i], k)]))

\* Faulty variant: answers are merged as they arrive.
CollectAnswersAsTheyCome(c) ==
  /\ At(c, "ask")
  /\ call[c].waiting = {}
  /\ call' = [call EXCEPT ![c].pc = "plan",
                     ![c].groups = [i \in DOMAIN call[c].groups |->
                       [key |-> call[c].groups[i].key,
                        candidates |-> Candidates(Asked(c, call[c].groups[i].key), call[c].arrived)]]]
  /\ UNCHANGED <<fault, store, staging>>

\* collect_ordered_provider_tasks and combine_index_results: the answers are put
\* in the order of the configuration.
CollectAnswers(c) ==
  /\ At(c, "ask")
  /\ call[c].waiting = {}
  /\ IF MapperBroken(c)
     THEN Fail(c)
     ELSE call' = [call EXCEPT ![c].pc = "plan",
                     ![c].groups = [i \in DOMAIN call[c].groups |->
                       [key |-> call[c].groups[i].key,
                        candidates |-> Candidates(Asked(c, call[c].groups[i].key),
                                                  [m \in DOMAIN Mappers |-> m])]]]
  /\ UNCHANGED <<fault, store, staging>>

----------------------------------------------------------------------------
(* Locating content.                                                       *)

\* locate_candidate_objects: groups that have a complete candidate already are
\* not asked for.
Wanted(c) ==
  UNION {ToSet(g.candidates) : g \in {x \in ToSet(call[c].groups) :
                                        \A h \in ToSet(x.candidates) : ~Complete(h)}}
Plan(c) ==
  /\ At(c, "plan")
  /\ IF Wanted(c) = {}
     THEN call' = [call EXCEPT ![c].pc = "group", ![c].avail = [s \in DOMAIN Sources |-> {}]]
     ELSE call' = [call EXCEPT ![c].pc = "locate", ![c].left = Wanted(c)]
  /\ UNCHANGED <<fault, store, staging>>

Located(s, items) == {x \in items \cap Has[Sources[s]] : Fault(<<"look", s, x>>) = "ok"}
LookupBroken(items) == \E s \in DOMAIN Sources, x \in items : Fault(<<"look", s, x>>) = "corrupt"

\* All sources have answered; each has its place in the result, so the order
\* in which they did makes no difference.
CollectLocated(c) ==
  /\ At(c, "locate")
  /\ IF LookupBroken(call[c].left)
     THEN Fail(c)
     ELSE call' = [call EXCEPT ![c].pc = "group",
                               ![c].avail = [s \in DOMAIN Sources |-> Located(s, call[c].left)]]
  /\ UNCHANGED <<fault, store, staging>>

----------------------------------------------------------------------------
(* One group after the other, one candidate after the other.               *)

NextGroup(c, hash, how) ==
  call' = [call EXCEPT ![c].pc = "group", ![c].g = @ + 1, ![c].k = 1,
                       ![c].report = @ \cup {[key |-> Group(c).key, hash |-> hash, how |-> how]}]

\* promote_build and promote_reuse, or the record of a known object.
Published(c, h) ==
  CASE Request[c].op = "ensure" -> {}
    [] Request[c].op = "builds" -> {<<Group(c).key, h>>}
    [] Request[c].op = "reuses" -> {<<Group(c).key[1], h>>, <<Group(c).key[2], h>>}

\* resolve_group: a candidate that is complete in the working store comes first.
ResolveGroup(c) ==
  /\ At(c, "group")
  /\ IF call[c].g > Len(call[c].groups)
     THEN call' = [call EXCEPT ![c].pc = "done", ![c].outcome = "ok"] /\ UNCHANGED mapped
     ELSE LET all == Group(c).candidates IN
          \/ \E i \in DOMAIN all :
               /\ Complete(all[i]) /\ \A j \in 1 .. (i - 1) : ~Complete(all[j])
               /\ mapped' = mapped \cup Published(c, all[i])
               /\ NextGroup(c, all[i], "present")
          \/ /\ \A i \in DOMAIN all : ~Complete(all[i])
             /\ Goto(c, "candidate") /\ UNCHANGED mapped
  /\ UNCHANGED <<fault, objects, files, foreign, staging>>

\* acquire_candidate: a manifest that is there already only needs its fs-files.
AcquireCandidate(c) ==
  /\ At(c, "candidate")
  /\ \/ call[c].k > Len(Group(c).candidates) /\ NextGroup(c, None, "miss")
     \/ /\ call[c].k <= Len(Group(c).candidates)
        /\ IF Hash(c) \in objects
           THEN call' = [call EXCEPT ![c].pc = "closure", ![c].after = "promote"]
           ELSE call' = [call EXCEPT ![c].pc = "source", ![c].s = 1, ![c].after = "import"]
  /\ UNCHANGED <<fault, store, staging>>

NextCandidate(c) == call' = [call EXCEPT ![c].pc = "candidate", ![c].k = @ + 1]
NextSource(c) == call' = [call EXCEPT ![c].pc = "source", ![c].s = @ + 1]

\* Only sources that advertise the object are tried.
TrySource(c) ==
  /\ At(c, "source")
  /\ IF call[c].s > Len(Sources)
     THEN NextCandidate(c)
     ELSE IF Hash(c) \in call[c].avail[call[c].s] THEN Goto(c, "manifest") ELSE NextSource(c)
  /\ UNCHANGED <<fault, store, staging>>

\* Promotion insists on complete content (ensure_promotable).
Promote(c) ==
  /\ At(c, "promote")
  /\ IF Complete(Hash(c))
     THEN mapped' = mapped \cup Published(c, Hash(c)) /\ NextGroup(c, Hash(c), "acquired")
     ELSE Fail(c) /\ UNCHANGED mapped
  /\ UNCHANGED <<fault, objects, files, foreign, staging>>

----------------------------------------------------------------------------
(* The manifest: local sources read it, remote ones stage the object.      *)

LocalManifest(c) ==
  /\ At(c, "manifest")
  /\ ~Remote(c)
  /\ IF Fault(<<"fetch", call[c].s, Hash(c)>>) = "ok" THEN Goto(c, "closure") ELSE Fail(c)
  /\ UNCHANGED <<fault, store, staging>>

\* ensure_staged_locked downloads unless a staged copy waits.
NeedsDownload(c) == Pair(c) \notin staged

\* RemoteContentProvider::object_manifest and import_object begin alike: the
\* working store is looked at, before and after the lock is taken.
RemoteBegin(c, pc, next, wait) ==
  /\ At(c, pc)
  /\ Remote(c)
  /\ Goto(c, IF Hash(c) \in objects THEN next ELSE wait)
  /\ UNCHANGED <<fault, store, staging>>

LockStaging(c, pc, locked) ==
  /\ At(c, pc)
  /\ \A l \in lock : l[1] # Pair(c)
  /\ lock' = lock \cup {<<Pair(c), c>>}
  /\ Goto(c, locked)
  /\ UNCHANGED <<fault, store, staged, downloads, repeated>>

Unlock(c) == lock' = lock \ {<<Pair(c), c>>}

Recheck(c, pc, next, fetch, have) ==
  /\ At(c, pc)
  /\ IF Hash(c) \in objects
     THEN Unlock(c) /\ Goto(c, next)
     ELSE UNCHANGED lock /\ Goto(c, IF NeedsDownload(c) THEN fetch ELSE have)
  /\ UNCHANGED <<fault, store, staged, downloads, repeated>>

\* Faulty variant: a failed download keeps the lock.
DownloadKeepsLock(c, pc, have) ==
  /\ At(c, pc)
  /\ IF Fault(<<"fetch", call[c].s, Hash(c)>>) = "ok"
     THEN /\ staged' = staged \cup {Pair(c)}
          /\ downloads' = downloads \cup {Pair(c)}
          /\ repeated' = repeated \cup ({Pair(c)} \cap downloads)
          /\ Goto(c, have)
     ELSE NextSource(c) /\ UNCHANGED <<staged, downloads, repeated>>
  /\ UNCHANGED <<fault, store, lock>>

\* The download is verified; what cannot be had is left to the next source.
Download(c, pc, have) ==
  /\ At(c, pc)
  /\ IF Fault(<<"fetch", call[c].s, Hash(c)>>) = "ok"
     THEN /\ staged' = staged \cup {Pair(c)}
          /\ downloads' = downloads \cup {Pair(c)}
          /\ repeated' = repeated \cup ({Pair(c)} \cap downloads)
          /\ Goto(c, have)
          /\ UNCHANGED lock
     ELSE Unlock(c) /\ NextSource(c) /\ UNCHANGED <<staged, downloads, repeated>>
  /\ UNCHANGED <<fault, store>>

ObjectManifest(c) ==
  \/ RemoteBegin(c, "manifest", "closure", "manifestLock")
  \/ LockStaging(c, "manifestLock", "manifestLocked")
  \/ Recheck(c, "manifestLocked", "closure", "manifestFetch", "manifestRead")
  \/ Download(c, "manifestFetch", "manifestRead")
  \/ /\ At(c, "manifestRead")
     /\ Unlock(c)
     /\ Goto(c, "closure")
     /\ UNCHANGED <<fault, store, staged, downloads, repeated>>

----------------------------------------------------------------------------
(* ensure_manifest_closure: the missing fs-files, from whoever has them.   *)

Missing(h) == ToSet(FilesOf[h]) \ files

\* Faulty variant: a manifest is enough.
ClosureSkipped(c) ==
  /\ At(c, "closure")
  /\ Goto(c, call[c].after)
  /\ UNCHANGED <<fault, store, staging>>

Closure(c) ==
  /\ At(c, "closure")
  /\ IF Missing(Hash(c)) = {}
     THEN Goto(c, call[c].after)
     ELSE call' = [call EXCEPT ![c].pc = "locateFiles", ![c].left = Missing(Hash(c)),
                     ![c].need = SelectSeq(UniqueInOrder(FilesOf[Hash(c)]), LAMBDA f : f \in Missing(Hash(c)))]
  /\ UNCHANGED <<fault, store, staging>>

CollectFiles(c) ==
  /\ At(c, "locateFiles")
  /\ IF LookupBroken(call[c].left)
     THEN Fail(c)
     ELSE call' = [call EXCEPT ![c].pc = "files", ![c].from = 1]
  /\ UNCHANGED <<fault, store, staging>>

\* Of the files still unresolved, those the next source has.
TryFileSource(c) ==
  LET from == call[c].from
      here == SelectSeq(call[c].need, LAMBDA f : f \in call[c].left /\ f \in Located(from, ToSet(call[c].need)))
  IN
  /\ At(c, "files")
  /\ IF from > Len(Sources)
     THEN IF call[c].left = {} THEN Goto(c, call[c].after)
          ELSE IF call[c].after = "import" THEN NextSource(c) ELSE NextCandidate(c)
     ELSE IF here = <<>> THEN call' = [call EXCEPT ![c].from = @ + 1]
          ELSE call' = [call EXCEPT ![c].todo = here,
                          ![c].pc = IF Mode[Sources[from]] = "Download" THEN "fetchFiles" ELSE "copyFiles"]
  /\ UNCHANGED <<fault, store, staging>>

FileFault(c, f) == Fault(<<"fetch", call[c].from, f>>)
\* The import from one source is over; whatever has arrived is resolved.
FilesDone(c, present) ==
  call' = [call EXCEPT ![c].pc = "files", ![c].from = @ + 1, ![c].left = @ \ present]

\* hardlink_fs_files and copy_fs_files take one file after the other and verify
\* it; an error of a local store ends the call.
CopyFile(c) ==
  LET f == Head(call[c].todo) IN
  /\ At(c, "copyFiles")
  /\ IF f \notin files /\ FileFault(c, f) # "ok"
     THEN Fail(c) /\ UNCHANGED files
     ELSE /\ files' = files \cup {f}
          /\ IF Len(call[c].todo) = 1
             THEN FilesDone(c, files')
             ELSE call' = [call EXCEPT ![c].todo = Tail(@)]
  /\ UNCHANGED <<fault, objects, mapped, foreign, staging>>

InBatch(c) == SubSeq(call[c].todo, 1, IF Len(call[c].todo) < BatchSize THEN Len(call[c].todo) ELSE BatchSize)

\* All representations of a batch are fetched before any is published.
FetchBatch(c) ==
  /\ At(c, "fetchFiles")
  /\ IF \E f \in ToSet(InBatch(c)) : FileFault(c, f) = "down"
     THEN FilesDone(c, files)
     ELSE call' = [call EXCEPT ![c].pc = "publishFiles", ![c].waiting = ToSet(InBatch(c))]
  /\ UNCHANGED <<fault, store, staging>>

\* publish_fs_files: in order, verified, never over a file that is there; a
\* corrupt representation ends the import from this source.
PublishFile(c) ==
  LET f == Head(call[c].todo)
      rest == Tail(call[c].todo) IN
  /\ At(c, "publishFiles")
  /\ IF f \notin files /\ FileFault(c, f) = "corrupt"
     THEN FilesDone(c, files) /\ UNCHANGED files
     ELSE /\ files' = files \cup {f}
          /\ IF rest = <<>>
             THEN FilesDone(c, files')
             ELSE call' = [call EXCEPT ![c].todo = rest, ![c].waiting = @ \ {f},
                             ![c].pc = IF call[c].waiting = {f} THEN "fetchFiles" ELSE @]
  /\ UNCHANGED <<fault, objects, mapped, foreign, staging>>

----------------------------------------------------------------------------
(* Import of the object itself.                                            *)

ImportFault(c) == Fault(<<"import", call[c].s, Hash(c)>>)

\* The copy is verified before it is renamed to its name.  An object that left
\* the source meanwhile is asked of the next one, an error ends the call.
LocalImport(c) ==
  /\ At(c, "import")
  /\ ~Remote(c)
  /\ \/ /\ Hash(c) \in objects \/ ImportFault(c) = "ok"
        /\ objects' = objects \cup {Hash(c)}
        /\ Goto(c, "promote")
     \/ /\ Hash(c) \notin objects /\ ImportFault(c) # "ok"
        /\ IF ImportFault(c) = "gone" THEN NextSource(c) ELSE Fail(c)
        /\ UNCHANGED objects
  /\ UNCHANGED <<fault, files, mapped, foreign, staging>>

\* The staged download is used up, also when it cannot be published: one that
\* is not what it should be is left to the next source, an error of the store
\* ends the call (remote_store_validation_error, content_item_failure).
PublishStaged(c) ==
  /\ At(c, "importPublish")
  /\ Unlock(c)
  /\ \/ /\ ImportFault(c) = "ok"
        /\ objects' = objects \cup {Hash(c)}
        /\ Goto(c, "promote")
        /\ UNCHANGED downloads
     \/ /\ ImportFault(c) # "ok"
        /\ IF ImportFault(c) = "corrupt" THEN NextSource(c) ELSE Fail(c)
        /\ downloads' = downloads \ {Pair(c)}
        /\ UNCHANGED objects
  /\ UNCHANGED <<fault, files, mapped, foreign, staged, repeated>>

\* The staged download is taken out before it is published.
TakeStaged(c) ==
  /\ At(c, "importTake")
  /\ staged' = staged \ {Pair(c)}
  /\ Goto(c, "importPublish")
  /\ UNCHANGED <<fault, store, lock, downloads, repeated>>

ImportObject(c) ==
  \/ RemoteBegin(c, "import", "promote", "importLock")
  \/ LockStaging(c, "importLock", "importLocked")
  \/ Recheck(c, "importLocked", "promote", "importFetch", "importTake")
  \/ Download(c, "importFetch", "importTake")
  \/ TakeStaged(c)
  \/ PublishStaged(c)

----------------------------------------------------------------------------
\* Another writer publishes an object, with or without its files.
OtherWriter ==
  /\ \E h \in OtherObjects \ objects :
       objects' = objects \cup {h} /\ foreign' = foreign \cup {h}
  /\ UNCHANGED <<fault, files, mapped, staging, call>>

Step(c) ==
  \/ Start(c) \/ MapperAnswers(c) \/ CollectAnswers(c) \/ Plan(c)
  \/ CollectLocated(c) \/ ResolveGroup(c) \/ AcquireCandidate(c) \/ TrySource(c) \/ Promote(c)
  \/ LocalManifest(c) \/ ObjectManifest(c) \/ Closure(c) \/ CollectFiles(c) \/ TryFileSource(c)
  \/ CopyFile(c) \/ FetchBatch(c) \/ PublishFile(c) \/ LocalImport(c) \/ ImportObject(c)

Next == (\E c \in Calls : Step(c)) \/ OtherWriter

\* Some call goes on as long as one can: tasks are polled and providers answer
\* (with an error if need be).  No order among the calls is assumed.
Steps == \E c \in Calls : Step(c)
Spec == Init /\ [][Next]_vars /\ WF_vars(Steps)

----------------------------------------------------------------------------
(* Properties.                                                             *)

\* What the resolver publishes is complete when it becomes visible: no manifest
\* before its fs-files, no mapping and no report of an object that lacks some,
\* whatever fails at a source and whoever else brings a bare manifest meanwhile
\* (acquire_candidate, ensure_manifest_closure, ensure_promotable).
PublishedComplete ==
  /\ \A h \in objects \ (foreign \cup StoredObjects) : Complete(h)
  /\ \A m \in mapped : Complete(m[2])
  /\ \A c \in Calls : \A r \in call[c].report : r.hash # None => Complete(r.hash)

\* A source without a failing fs-file of h; one that fails spoils its batch.
Reliable(s, h) == \A f \in ToSet(FilesOf[h]) \cap Has[Sources[s]] : Fault(<<"fetch", s, f>>) = "ok"
Obtainable(h) ==
  /\ h \in StoredObjects \/ (\E s \in DOMAIN Sources :
                               /\ h \in Located(s, {h})
                               /\ Fault(<<"fetch", s, h>>) = "ok" /\ Fault(<<"import", s, h>>) = "ok")
  /\ \A f \in ToSet(FilesOf[h]) \ StoredFiles :
       \E s \in DOMAIN Sources : f \in Located(s, {f}) /\ Reliable(s, h)
InConfiguredOrder(c, k) ==
  IF Request[c].op = "ensure" THEN <<k>> ELSE Candidates(Asked(c, k), [m \in DOMAIN Mappers |-> m])

\* The choice is justified: a candidate is passed over, and a miss reported,
\* only when no combination of working sources has the object and its files;
\* only complete content of the working store goes before the configured order
\* of the providers (resolve_group; the order of arrival does not matter).
ChoiceJustified ==
  \A c \in Calls : \A r \in call[c].report :
    LET order == InConfiguredOrder(c, r.key) IN
    /\ r.hash # None => r.hash \in ToSet(order)
    /\ r.how # "present" =>
         \A i \in DOMAIN order :
           (\A j \in 1 .. i : order[j] # r.hash) => ~Obtainable(order[i])

\* An object is downloaded from a source once, however many calls ask for its
\* manifest and its content at a time; only a download that could not be
\* published is made again (staged_object, ensure_staged_locked).
DownloadedOnce == repeated = {}

\* What is acquired is acquired whole and once.
AcquiredWhole == PublishedComplete /\ DownloadedOnce

\* Every call returns: no lock, failing source or answer that is missing for
\* good holds it up.
CallsReturn == <>(\A c \in Calls : call[c].pc = "done")
=============================================================================
