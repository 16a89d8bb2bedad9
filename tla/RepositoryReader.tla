-------------------------- MODULE RepositoryReader --------------------------
(***************************************************************************)
(* Readers of a remote repository that share one metadata cache directory  *)
(* (crate bobr-repo: reader.rs and cache.rs).                              *)
(*                                                                         *)
(* A reader is a process that revalidates the master with the cached ETag, *)
(* takes the master's current slots, newest first, and looks a key up in   *)
(* their indexes, each of which it reads through the cache.  The cache is  *)
(* a directory: the master, its ETag and every index are separate files,   *)
(* each replaced or removed atomically and by itself.  A version number    *)
(* stands for the bytes of a master and for its ETag.                      *)
(***************************************************************************)
EXTENDS Integers, Sequences, SequencesExt

CONSTANTS
  Readers,
  MaxVersion,  \* bound on the masters published
  Slots,       \* per version, the indexes of its current slots, newest first
  Indexes,
  Candidates,  \* per index, the candidates it has for the key
  Answers,     \* per index, how its download may end: "ok", "transport" or "missing"
  CacheMay,    \* states of a cached index at the start: "absent", "valid", "corrupt"
  Etags,       \* whether the origin may send an ETag, or none: subset of BOOLEAN
  Kills        \* whether a reader may be killed

VARIABLES
  origin,         \* version of the authoritative master
  master, etag,   \* files master.cose and master.etag of the cache: a version or 0
  file,           \* per index, its file in the cache
  reader,         \* per reader, its state
  overlapped      \* history: a run has begun while another was under way

vars == <<origin, master, etag, file, reader, overlapped>>

\* from and version: the authoritative version when the reader began, and the one it uses;
\* slot: place in the walk; read: indexes read; unavailable: one was not; found: candidates.
Start == [pc |-> "idle", from |-> 0, sent |-> 0, version |-> 0, tagged |-> FALSE, slot |-> 0,
          read |-> {}, unavailable |-> FALSE, found |-> <<>>, result |-> "none"]

Init ==
  /\ origin = 1 /\ master = 0 /\ etag = 0
  /\ file \in [Indexes -> CacheMay]
  /\ reader = [p \in Readers |-> Start]
  /\ overlapped = FALSE

At(p, pc) == reader[p].pc = pc
Set(p, rec) == reader' = [reader EXCEPT ![p] = rec]
Goto(p, pc) == Set(p, [reader[p] EXCEPT !.pc = pc])
Finish(p, result) == Set(p, [reader[p] EXCEPT !.pc = "done", !.result = result])

Publish ==
  /\ origin < MaxVersion
  /\ origin' = origin + 1
  /\ UNCHANGED <<overlapped, master, etag, file, reader>>

----------------------------------------------------------------------------
(* fetch_master *)

ReadEtag(p) ==
  /\ At(p, "idle")
  /\ Set(p, [Start EXCEPT !.pc = "revalidate", !.from = origin, !.sent = etag])
  /\ overlapped' = (overlapped \/ \E q \in Readers : ~ At(q, "idle") /\ ~ At(q, "done"))
  /\ UNCHANGED <<origin, master, etag, file>>

\* 304 if the ETag sent is the authoritative one, the master's bytes otherwise, or a failure.
Revalidate(p) ==
  /\ At(p, "revalidate")
  /\ \/ reader[p].sent = origin /\ Goto(p, "reuse")
     \/ /\ reader[p].sent # origin
        /\ \E t \in Etags : Set(p, [reader[p] EXCEPT !.pc = "persist", !.version = origin, !.tagged = t])
     \/ Finish(p, "failed")
  /\ UNCHANGED <<overlapped, origin, master, etag, file>>

PersistOnce(p) ==
  /\ At(p, "persist")
  /\ master' = IF master = 0 THEN reader[p].version ELSE master
  /\ Goto(p, "tag")
  /\ UNCHANGED <<overlapped, origin, etag, file>>

PersistMaster(p) ==
  /\ At(p, "persist")
  /\ master' = reader[p].version
  /\ Goto(p, "tag")
  /\ UNCHANGED <<overlapped, origin, etag, file>>

\* RepositoryReader::snapshot begins the walk of the slots once the master is there.
PersistEtag(p) ==
  /\ At(p, "tag")
  /\ etag' = IF reader[p].tagged THEN reader[p].version ELSE 0
  /\ Set(p, [reader[p] EXCEPT !.pc = "cell", !.slot = 1])
  /\ UNCHANGED <<overlapped, origin, master, file>>

ReuseCached(p) ==
  /\ At(p, "reuse")
  /\ IF master = 0 THEN Finish(p, "failed")
     ELSE Set(p, [reader[p] EXCEPT !.pc = "cell", !.version = master, !.slot = 1])
  /\ UNCHANGED <<overlapped, origin, master, etag, file>>

----------------------------------------------------------------------------
(* build_candidates: the slots in order, each index through fetch_metadata *)

Walk(p) == Slots[reader[p].version]
Index(p) == Walk(p)[reader[p].slot]
Unique(found, more) == found \o SelectSeq(more, LAMBDA o : o \notin ToSet(found))

\* A cached file that validates is used, any other is removed and fetched.
LookInCache(p) ==
  /\ At(p, "cell") /\ reader[p].slot <= Len(Walk(p))
  /\ Goto(p, IF file[Index(p)] = "valid" THEN "open" ELSE "remove")
  /\ UNCHANGED <<overlapped, origin, master, etag, file>>

RemoveCached(p) ==
  /\ At(p, "remove")
  /\ file' = [file EXCEPT ![Index(p)] = "absent"]
  /\ Goto(p, "fetch")
  /\ UNCHANGED <<overlapped, origin, master, etag>>

NextSlot(p, found, unavailable, read) ==
  Set(p, [reader[p] EXCEPT !.pc = "cell", !.slot = @ + 1, !.found = found,
                      !.unavailable = unavailable, !.read = read])

NextSlotUnavailable(p) == NextSlot(p, reader[p].found, TRUE, reader[p].read)

\* A transport failure is remembered and the walk goes on (available_metadata); a missing index is fatal.
FetchIndex(p) ==
  /\ At(p, "fetch")
  /\ \E a \in Answers[Index(p)] :
       CASE a = "ok"        -> Goto(p, "store")
         [] a = "transport" -> NextSlotUnavailable(p)
         [] a = "missing"   -> Finish(p, "failed")
  /\ UNCHANGED <<overlapped, origin, master, etag, file>>

\* persist_noclobber leaves a file that has appeared meanwhile; it is validated either way.
StoreIndex(p) ==
  /\ At(p, "store")
  /\ file' = [file EXCEPT ![Index(p)] = IF @ = "absent" THEN "valid" ELSE @]
  /\ Goto(p, "validate")
  /\ UNCHANGED <<overlapped, origin, master, etag>>

ValidateIndex(p) ==
  /\ At(p, "validate")
  /\ IF file[Index(p)] = "valid" THEN Goto(p, "open") ELSE Finish(p, "local error")
  /\ UNCHANGED <<overlapped, origin, master, etag, file>>

\* BuildIndex::open reads the file by its path once more.
OpenIndex(p) ==
  /\ At(p, "open")
  /\ IF file[Index(p)] = "valid"
     THEN NextSlot(p, Unique(reader[p].found, Candidates[Index(p)]), reader[p].unavailable, reader[p].read \cup {Index(p)})
     ELSE Finish(p, "local error")
  /\ UNCHANGED <<overlapped, origin, master, etag, file>>

\* finish_lookup: nothing found and something unread is an error, not a miss.
FinishLookup(p) ==
  /\ At(p, "cell") /\ reader[p].slot > Len(Walk(p))
  /\ Finish(p, IF reader[p].found # <<>> THEN "hit" ELSE IF reader[p].unavailable THEN "failed" ELSE "miss")
  /\ UNCHANGED <<overlapped, origin, master, etag, file>>

\* A run has ended; the next one begins with nothing but the cache.
Again(p) ==
  /\ At(p, "done")
  /\ Set(p, Start)
  /\ UNCHANGED <<overlapped, origin, master, etag, file>>

Kill(p) ==
  /\ Kills /\ ~ At(p, "idle") /\ ~ At(p, "done")
  /\ Set(p, Start)
  /\ UNCHANGED <<overlapped, origin, master, etag, file>>

Next ==
  \/ Publish
  \/ \E p \in Readers :
       \/ ReadEtag(p) \/ Revalidate(p) \/ PersistMaster(p) \/ PersistEtag(p) \/ ReuseCached(p)
       \/ LookInCache(p) \/ RemoveCached(p) \/ FetchIndex(p) \/ StoreIndex(p) \/ ValidateIndex(p)
       \/ OpenIndex(p) \/ FinishLookup(p)
       \/ Again(p) \/ Kill(p)

Spec == Init /\ [][Next]_vars

----------------------------------------------------------------------------
(* Properties *)

\* Types of the variables; the cache has no ETag without a master.
PCs == {"idle", "revalidate", "persist", "tag", "reuse", "cell", "remove", "fetch", "store",
        "validate", "open", "done"}
TypeOK ==
  /\ origin \in 1 .. MaxVersion /\ overlapped \in BOOLEAN /\ {master, etag} \subseteq 0 .. origin
  /\ etag # 0 => master # 0
  /\ file \in [Indexes -> {"absent", "valid", "corrupt"}]
  /\ \A p \in Readers :
       /\ reader[p].pc \in PCs /\ reader[p].version \in 0 .. origin /\ reader[p].from \in 0 .. origin
       /\ reader[p].read \subseteq Indexes

\* A lookup says that there is no candidate only if it has read the index of every
\* current slot (finish_lookup).  Otherwise its answer has every candidate of the
\* indexes that were read, once, and prefers newer slots, whatever could not be
\* read in between.
MissIsCertain(p) ==
  /\ reader[p].read = ToSet(Walk(p))
  /\ \A h \in ToSet(Walk(p)) : Candidates[h] = <<>>
Rank(p, o) ==
  LET slots == {i \in DOMAIN Walk(p) : Walk(p)[i] \in reader[p].read /\ o \in ToSet(Candidates[Walk(p)[i]])}
  IN  CHOOSE i \in slots : \A j \in slots : i <= j
HitIsOrdered(p) ==
  LET found == reader[p].found
  IN  /\ ToSet(found) = UNION {ToSet(Candidates[h]) : h \in reader[p].read}
      /\ \A i, j \in DOMAIN found : i < j => found[i] # found[j] /\ Rank(p, found[i]) <= Rank(p, found[j])
LookupsSound ==
  \A p \in Readers :
    /\ reader[p].result = "miss" => MissIsCertain(p)
    /\ reader[p].result = "hit" => HitIsOrdered(p)

\* As long as runs have used the cache one after another, killed ones included, it
\* does no harm: a run works from a master that was authoritative at some moment
\* since it began, a cached one being reused only after revalidation
\* (fetch_master), and no lookup is ended by an error of the local cache, as what
\* it finds there is used or fetched again (fetch_metadata).  Runs that overlap
\* have neither guarantee: master and ETag are two files, and one run may remove
\* what the other has just stored.
CacheHarmless ==
  ~ overlapped => \A p \in Readers :
    /\ reader[p].slot # 0 => reader[p].version >= reader[p].from
    /\ reader[p].result # "local error"
=============================================================================
