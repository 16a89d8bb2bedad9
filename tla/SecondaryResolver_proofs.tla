---------------------- MODULE SecondaryResolver_proofs ----------------------
(***************************************************************************)
(* What the resolver acquires is whole and downloaded once, for any number  *)
(* of calls, sources, objects and files, whatever fails.  AcquiredWhole     *)
(* speaks of the store and of what was reported; the invariant adds what a  *)
(* call on its way there may rely on: the files it no longer looks for are   *)
(* in the store (FilesKnown), it holds the lock of the download it handles   *)
(* (Held) and nobody else does (OneHolder), what was downloaded is staged,   *)
(* in the store or in the hands of the call that publishes it (Accounted),   *)
(* and what is being fetched has not been downloaded before (Fetching).      *)
(***************************************************************************)
EXTENDS SecondaryResolver, TLAPS

Fields == {"pc", "waiting", "arrived", "groups", "avail", "g", "k", "s", "after", "need", "left", "todo", "from",
           "report", "outcome"}
\* A call is a record, whatever it has found out so far.
Shape ==
  /\ call = [c \in Calls |-> call[c]]
  /\ \A c \in Calls : DOMAIN call[c] = Fields /\ call[c] = [f \in Fields |-> call[c][f]]

FileSteps == {"locateFiles", "files", "copyFiles", "fetchFiles", "publishFiles"}
ManifestSteps == {"manifest", "manifestLock", "manifestLocked", "manifestFetch", "manifestRead"}
ImportSteps == {"import", "importLock", "importLocked", "importFetch", "importTake", "importPublish"}
Locked == {"manifestLocked", "manifestFetch", "manifestRead", "importLocked", "importFetch", "importTake", "importPublish"}

Manifest(c) == ToSet(FilesOf[Hash(c)])
\* The files a call has done with are in the store.
FilesKnown(c) ==
  /\ call[c].pc \in {"source", "closure"} \cup ManifestSteps \cup FileSteps \cup ImportSteps => call[c].after \in {"import", "promote"}
  /\ call[c].pc \in FileSteps => Manifest(c) \subseteq files \cup call[c].left
  /\ call[c].pc \in ImportSteps => Manifest(c) \subseteq files
Held(c) == call[c].pc \in Locked => <<Pair(c), c>> \in lock
Fetching(c) == call[c].pc \in {"manifestFetch", "importFetch"} => Pair(c) \notin downloads
CallOK(c) == FilesKnown(c) /\ Held(c) /\ Fetching(c)

OneHolder == \A l, m \in lock : l[1] = m[1] => l = m
Publishing(p) == \E c \in Calls : At(c, "importPublish") /\ Pair(c) = p
Accounted == \A p \in downloads : p \in staged \/ p[2] \in objects \/ Publishing(p)

ResolverInv ==
  /\ Shape /\ PublishedComplete /\ DownloadedOnce /\ OneHolder /\ Accounted
  /\ \A c \in Calls : CallOK(c)

----------------------------------------------------------------------------
(* Steps as changes of one call.                                           *)

Only(c) == \A d \in Calls : d # c => call'[d] = call[d]
\* The candidate a call works on stays, ...
SameHash(c) == call'[c].groups = call[c].groups /\ call'[c].g = call[c].g /\ call'[c].k = call[c].k
\* ... and all the rest the proofs need to know of it.
Stays(c) ==
  /\ SameHash(c) /\ call'[c].s = call[c].s /\ call'[c].after = call[c].after /\ call'[c].left = call[c].left
  /\ call'[c].report = call[c].report

LEMMA SamePlaces ==
  ASSUME NEW c
  PROVE  /\ SameHash(c) => Hash(c)' = Hash(c) /\ Manifest(c)' = Manifest(c)
         /\ SameHash(c) /\ call'[c].s = call[c].s => Pair(c)' = Pair(c)
         /\ call'[c] = call[c] => Hash(c)' = Hash(c) /\ Manifest(c)' = Manifest(c) /\ Pair(c)' = Pair(c)
  BY DEF SameHash, Hash, Group, Pair, Manifest

LEMMA Going ==
  ASSUME Shape, NEW c \in Calls, NEW p, Goto(c, p)
  PROVE  Shape' /\ Only(c) /\ call'[c].pc = p /\ Stays(c)
<1>1. DOMAIN call[c] = Fields
  BY DEF Shape
<1>2. call' = [call EXCEPT ![c].pc = p]
  BY DEF Goto
<1>3. call'[c].pc = p /\ Stays(c)
  BY <1>1, <1>2 DEF Fields, Shape, Stays, SameHash
<1>4. Only(c)
  BY <1>2 DEF Shape, Only
<1>5. Shape'
  BY <1>1, <1>2 DEF Shape, Fields
<1> QED
  BY <1>3, <1>4, <1>5

LEMMA Failing ==
  ASSUME Shape, NEW c \in Calls, Fail(c)
  PROVE  Shape' /\ Only(c) /\ call'[c].pc = "done" /\ call'[c].report = call[c].report
<1>1. DOMAIN call[c] = Fields
  BY DEF Shape
<1>2. call' = [call EXCEPT ![c].pc = "done", ![c].outcome = "error"]
  BY DEF Fail
<1>3. call'[c].pc = "done" /\ call'[c].report = call[c].report
  BY <1>1, <1>2 DEF Fields, Shape
<1>4. Only(c)
  BY <1>2 DEF Shape, Only
<1>5. Shape'
  BY <1>1, <1>2 DEF Shape, Fields
<1> QED
  BY <1>3, <1>4, <1>5

LEMMA Grouping ==
  ASSUME Shape, NEW c \in Calls, NEW h, NEW how, NextGroup(c, h, how)
  PROVE  /\ Shape' /\ Only(c) /\ call'[c].pc = "group"
         /\ \A r \in call'[c].report : r \in call[c].report \/ r.hash = h
<1>1. DOMAIN call[c] = Fields
  BY DEF Shape
<1> DEFINE r == [key |-> Group(c).key, hash |-> h, how |-> how]
<1>2. call' = [call EXCEPT ![c].pc = "group", ![c].g = @ + 1, ![c].k = 1, ![c].report = @ \cup {r}]
  BY DEF NextGroup
<1>3. r.hash = h
  OBVIOUS
<1> HIDE DEF r
<1>4. call'[c].pc = "group" /\ call'[c].report = call[c].report \cup {r}
  BY <1>1, <1>2 DEF Fields, Shape
<1>5. Only(c)
  BY <1>2 DEF Shape, Only
<1>6. Shape'
  BY <1>1, <1>2 DEF Shape, Fields
<1> QED
  BY <1>3, <1>4, <1>5, <1>6

LEMMA Candidating ==
  ASSUME Shape, NEW c \in Calls, NextCandidate(c)
  PROVE  Shape' /\ Only(c) /\ call'[c].pc = "candidate" /\ call'[c].report = call[c].report
<1>1. DOMAIN call[c] = Fields
  BY DEF Shape
<1>2. call' = [call EXCEPT ![c].pc = "candidate", ![c].k = @ + 1]
  BY DEF NextCandidate
<1>3. call'[c].pc = "candidate" /\ call'[c].report = call[c].report
  BY <1>1, <1>2 DEF Fields, Shape
<1>4. Only(c)
  BY <1>2 DEF Shape, Only
<1>5. Shape'
  BY <1>1, <1>2 DEF Shape, Fields
<1> QED
  BY <1>3, <1>4, <1>5

LEMMA Sourcing ==
  ASSUME Shape, NEW c \in Calls, NextSource(c)
  PROVE  /\ Shape' /\ Only(c) /\ call'[c].pc = "source" /\ call'[c].report = call[c].report
         /\ call'[c].after = call[c].after
<1>1. DOMAIN call[c] = Fields
  BY DEF Shape
<1>2. call' = [call EXCEPT ![c].pc = "source", ![c].s = @ + 1]
  BY DEF NextSource
<1>3. call'[c].pc = "source" /\ call'[c].report = call[c].report /\ call'[c].after = call[c].after
  BY <1>1, <1>2 DEF Fields, Shape
<1>4. Only(c)
  BY <1>2 DEF Shape, Only
<1>5. Shape'
  BY <1>1, <1>2 DEF Shape, Fields
<1> QED
  BY <1>3, <1>4, <1>5

\* The import from one source is over.
LEMMA FilesGone ==
  ASSUME Shape, NEW c \in Calls, NEW present, FilesDone(c, present)
  PROVE  /\ Shape' /\ Only(c) /\ call'[c].pc = "files" /\ SameHash(c) /\ call'[c].report = call[c].report
         /\ call'[c].after = call[c].after /\ call'[c].left = call[c].left \ present
<1>1. DOMAIN call[c] = Fields
  BY DEF Shape
<1>2. call' = [call EXCEPT ![c].pc = "files", ![c].from = @ + 1, ![c].left = @ \ present]
  BY DEF FilesDone
<1>3. /\ call'[c].pc = "files" /\ SameHash(c) /\ call'[c].report = call[c].report
      /\ call'[c].after = call[c].after /\ call'[c].left = call[c].left \ present
  BY <1>1, <1>2 DEF Fields, Shape, SameHash
<1>4. Only(c)
  BY <1>2 DEF Shape, Only
<1>5. Shape'
  BY <1>1, <1>2 DEF Shape, Fields
<1> QED
  BY <1>3, <1>4, <1>5

----------------------------------------------------------------------------
(* What a step leaves alone.                                               *)

Grown == objects \subseteq objects' /\ files \subseteq files'

LEMMA StaysComplete ==
  ASSUME Grown
  PROVE  \A h : Complete(h) => Complete(h)'
  BY DEF Grown, Complete

LEMMA OthersKeep ==
  ASSUME NEW d \in Calls, CallOK(d), call'[d] = call[d], Grown, <<Pair(d), d>> \in lock => <<Pair(d), d>> \in lock',
         Fetching(d)'
  PROVE  CallOK(d)'
<1>1. Manifest(d)' = Manifest(d) /\ Pair(d)' = Pair(d)
  BY SamePlaces
<1>2. FilesKnown(d)'
  BY <1>1 DEF CallOK, FilesKnown, Grown
<1>3. Held(d)'
  BY <1>1 DEF CallOK, Held
<1> QED
  BY <1>2, <1>3 DEF CallOK

\* Where a call need not know anything.
Free == {"start", "ask", "plan", "locate", "group", "candidate", "promote", "done"}
LEMMA FreeCall ==
  ASSUME NEW c \in Calls, call[c].pc \in Free
  PROVE  CallOK(c)
  BY DEF Free, CallOK, FilesKnown, Held, Fetching, FileSteps, ManifestSteps, ImportSteps, Locked

\* The reports of the other calls are as before.
LEMMA ReportsKept ==
  ASSUME ResolverInv, NEW c \in Calls, Only(c), Grown,
         \A r \in call'[c].report : r \in call[c].report \/ r.hash = None \/ Complete(r.hash)'
  PROVE  (\A d \in Calls : \A r \in call[d].report : r.hash # None => Complete(r.hash))'
<1> SUFFICES ASSUME NEW d \in Calls, NEW r \in call'[d].report, r.hash # None
             PROVE  Complete(r.hash)'
  OBVIOUS
<1>1. r \in call[d].report => Complete(r.hash)'
  BY StaysComplete DEF ResolverInv, PublishedComplete
<1>2. CASE d = c
  BY <1>1, <1>2
<1>3. CASE d # c
  BY <1>1, <1>3 DEF Only
<1> QED
  BY <1>2, <1>3

\* A publishing call other than the one that moves still publishes.
LEMMA PublishingKept ==
  ASSUME NEW c \in Calls, Only(c), ~At(c, "importPublish"), NEW p, Publishing(p)
  PROVE  Publishing(p)'
<1>1. PICK d \in Calls : At(d, "importPublish") /\ Pair(d) = p
  BY DEF Publishing
<1>2. d # c /\ call'[d] = call[d]
  BY <1>1 DEF Only
<1>3. At(d, "importPublish")' /\ Pair(d)' = p
  BY <1>1, <1>2, SamePlaces DEF At
<1> QED
  BY <1>3 DEF Publishing

\* A step that changes a call and neither the store nor the staging area.
LEMMA QuietStep ==
  ASSUME ResolverInv, NEW c \in Calls, UNCHANGED <<store, staging>>, Shape', Only(c), ~At(c, "importPublish"),
         \A r \in call'[c].report : r \in call[c].report \/ r.hash = None, CallOK(c)'
  PROVE  ResolverInv'
<1>1. UNCHANGED <<objects, files, mapped, foreign, lock, staged, downloads, repeated>> /\ Grown
  BY DEF store, staging, Grown
<1>2. PublishedComplete'
  <2>1. (\A d \in Calls : \A r \in call[d].report : r.hash # None => Complete(r.hash))'
    BY <1>1, ReportsKept
  <2>2. (\A h \in objects \ (foreign \cup StoredObjects) : Complete(h))' /\ (\A m \in mapped : Complete(m[2]))'
    BY <1>1, StaysComplete DEF ResolverInv, PublishedComplete
  <2> QED BY <2>1, <2>2 DEF PublishedComplete
<1>3. DownloadedOnce' /\ OneHolder'
  BY <1>1 DEF ResolverInv, DownloadedOnce, OneHolder
<1>4. Accounted'
  BY <1>1, PublishingKept DEF ResolverInv, Accounted
<1>5. ASSUME NEW d \in Calls PROVE CallOK(d)'
  <2>1. CASE d = c
    BY <2>1
  <2>2. CASE d # c
    <3>1. call'[d] = call[d] /\ CallOK(d)
      BY <2>2 DEF Only, ResolverInv
    <3>2. Fetching(d)'
      BY <1>1, <3>1, SamePlaces DEF CallOK, Fetching
    <3> QED BY <1>1, <3>1, <3>2, OthersKeep
  <2> QED BY <2>1, <2>2
<1> QED
  BY <1>2, <1>3, <1>4, <1>5 DEF ResolverInv

\* Quiet steps to a place where a call need not know anything.
LEMMA FreeStep ==
  ASSUME ResolverInv, NEW c \in Calls, UNCHANGED <<store, staging>>, Shape', Only(c), ~At(c, "importPublish"),
         \A r \in call'[c].report : r \in call[c].report \/ r.hash = None, call'[c].pc \in Free
  PROVE  ResolverInv'
<1>1. CallOK(c)'
  BY DEF Free, CallOK, FilesKnown, Held, Fetching, FileSteps, ManifestSteps, ImportSteps, Locked
<1> QED
  BY <1>1, QuietStep

----------------------------------------------------------------------------
(* The steps that only look.                                               *)

LEMMA StartKeeps ==
  ASSUME ResolverInv, NEW c \in Calls, Start(c)
  PROVE  ResolverInv'
<1>1. Shape /\ DOMAIN call[c] = Fields /\ ~At(c, "importPublish") /\ UNCHANGED <<store, staging>>
  BY DEF ResolverInv, Shape, Start, At
<1>2. PICK gs : \/ call' = [call EXCEPT ![c].pc = "plan", ![c].groups = gs]
                \/ call' = [call EXCEPT ![c].pc = "ask", ![c].waiting = DOMAIN Mappers, ![c].groups = gs]
  BY Zenon DEF Start
<1>3. call'[c].pc \in Free /\ call'[c].report = call[c].report
  BY <1>1, <1>2 DEF Shape, Fields, Free
<1>4. Shape' /\ Only(c)
  BY <1>1, <1>2 DEF Shape, Fields, Only
<1> QED
  BY <1>1, <1>3, <1>4, FreeStep

LEMMA MapperAnswersKeeps ==
  ASSUME ResolverInv, NEW c \in Calls, MapperAnswers(c)
  PROVE  ResolverInv'
<1>1. Shape /\ DOMAIN call[c] = Fields /\ call[c].pc = "ask" /\ UNCHANGED <<store, staging>>
  BY DEF ResolverInv, Shape, MapperAnswers, At
<1>2. PICK m : call' = [call EXCEPT ![c].waiting = @ \ {m}, ![c].arrived = Append(@, m)]
  BY DEF MapperAnswers
<1>3. call'[c].pc \in Free /\ call'[c].report = call[c].report /\ ~At(c, "importPublish")
  BY <1>1, <1>2 DEF Shape, Fields, Free, At
<1>4. Shape' /\ Only(c)
  BY <1>1, <1>2 DEF Shape, Fields, Only
<1> QED
  BY <1>1, <1>3, <1>4, FreeStep

LEMMA CollectAnswersKeeps ==
  ASSUME ResolverInv, NEW c \in Calls, CollectAnswers(c)
  PROVE  ResolverInv'
<1>1. Shape /\ DOMAIN call[c] = Fields /\ ~At(c, "importPublish") /\ UNCHANGED <<store, staging>>
  BY DEF ResolverInv, Shape, CollectAnswers, At
<1>2. CASE Fail(c)
  <2>1. Shape' /\ Only(c) /\ call'[c].pc \in Free /\ call'[c].report = call[c].report
    BY <1>1, <1>2, Failing DEF Free
  <2> QED BY <1>1, <2>1, FreeStep
<1>3. CASE ~Fail(c)
  <2>1. PICK gs : call' = [call EXCEPT ![c].pc = "plan", ![c].groups = gs]
    BY <1>3, Zenon DEF CollectAnswers
  <2>2. call'[c].pc \in Free /\ call'[c].report = call[c].report
    BY <1>1, <2>1 DEF Shape, Fields, Free
  <2>3. Shape' /\ Only(c)
    BY <1>1, <2>1 DEF Shape, Fields, Only
  <2> QED BY <1>1, <2>2, <2>3, FreeStep
<1> QED
  BY <1>2, <1>3

LEMMA PlanKeeps ==
  ASSUME ResolverInv, NEW c \in Calls, Plan(c)
  PROVE  ResolverInv'
<1>1. Shape /\ DOMAIN call[c] = Fields /\ ~At(c, "importPublish") /\ UNCHANGED <<store, staging>>
  BY DEF ResolverInv, Shape, Plan, At
<1>2. PICK x : \/ call' = [call EXCEPT ![c].pc = "group", ![c].avail = x]
               \/ call' = [call EXCEPT ![c].pc = "locate", ![c].left = x]
  BY Zenon DEF Plan
<1>3. call'[c].pc \in Free /\ call'[c].report = call[c].report
  BY <1>1, <1>2 DEF Shape, Fields, Free
<1>4. Shape' /\ Only(c)
  BY <1>1, <1>2 DEF Shape, Fields, Only
<1> QED
  BY <1>1, <1>3, <1>4, FreeStep

LEMMA CollectLocatedKeeps ==
  ASSUME ResolverInv, NEW c \in Calls, CollectLocated(c)
  PROVE  ResolverInv'
<1>1. Shape /\ DOMAIN call[c] = Fields /\ ~At(c, "importPublish") /\ UNCHANGED <<store, staging>>
  BY DEF ResolverInv, Shape, CollectLocated, At
<1>2. CASE Fail(c)
  <2>1. Shape' /\ Only(c) /\ call'[c].pc \in Free /\ call'[c].report = call[c].report
    BY <1>1, <1>2, Failing DEF Free
  <2> QED BY <1>1, <2>1, FreeStep
<1>3. CASE ~Fail(c)
  <2>1. PICK x : call' = [call EXCEPT ![c].pc = "group", ![c].avail = x]
    BY <1>3, Zenon DEF CollectLocated
  <2>2. call'[c].pc \in Free /\ call'[c].report = call[c].report
    BY <1>1, <2>1 DEF Shape, Fields, Free
  <2>3. Shape' /\ Only(c)
    BY <1>1, <2>1 DEF Shape, Fields, Only
  <2> QED BY <1>1, <2>2, <2>3, FreeStep
<1> QED
  BY <1>2, <1>3

LEMMA AcquireCandidateKeeps ==
  ASSUME ResolverInv, NEW c \in Calls, AcquireCandidate(c)
  PROVE  ResolverInv'
<1>1. Shape /\ DOMAIN call[c] = Fields /\ ~At(c, "importPublish") /\ UNCHANGED <<store, staging>>
  BY DEF ResolverInv, Shape, AcquireCandidate, At
<1>2. CASE NextGroup(c, None, "miss")
  <2>1. /\ Shape' /\ Only(c) /\ call'[c].pc \in Free
        /\ \A r \in call'[c].report : r \in call[c].report \/ r.hash = None
    BY <1>1, <1>2, Grouping DEF Free
  <2> QED BY <1>1, <2>1, FreeStep
<1>3. CASE \/ call' = [call EXCEPT ![c].pc = "closure", ![c].after = "promote"]
           \/ call' = [call EXCEPT ![c].pc = "source", ![c].s = 1, ![c].after = "import"]
  <2>1. call'[c].pc \in {"closure", "source"} /\ call'[c].after \in {"promote", "import"} /\ call'[c].report = call[c].report
    <3>1. CASE call' = [call EXCEPT ![c].pc = "closure", ![c].after = "promote"]
      <4>1. call'[c].pc = "closure" /\ call'[c].after = "promote" /\ call'[c].report = call[c].report
        BY <1>1, <3>1 DEF Shape, Fields
      <4> QED BY <4>1
    <3>2. CASE call' = [call EXCEPT ![c].pc = "source", ![c].s = 1, ![c].after = "import"]
      <4>1. call'[c].pc = "source" /\ call'[c].after = "import" /\ call'[c].report = call[c].report
        BY <1>1, <3>2 DEF Shape, Fields
      <4> QED BY <4>1
    <3> QED BY <1>3, <3>1, <3>2
  <2>2. Shape' /\ Only(c)
    BY <1>1, <1>3 DEF Shape, Fields, Only
  <2>3. CallOK(c)'
    <3>1. call'[c].pc \notin FileSteps \cup ImportSteps \cup Locked \cup {"manifestFetch", "importFetch"}
      BY <2>1 DEF FileSteps, ImportSteps, Locked
    <3> QED BY <2>1, <3>1 DEF CallOK, FilesKnown, Held, Fetching
  <2> QED BY <1>1, <2>1, <2>2, <2>3, QuietStep
<1> QED
  BY <1>2, <1>3, Zenon DEF AcquireCandidate

\* To the next source, with the same purpose.
LEMMA SourceStep ==
  ASSUME ResolverInv, NEW c \in Calls, UNCHANGED <<store, staging>>, NextSource(c), ~At(c, "importPublish"),
         call[c].after \in {"import", "promote"}
  PROVE  ResolverInv'
<1>1. /\ Shape' /\ Only(c) /\ call'[c].pc = "source" /\ call'[c].report = call[c].report
      /\ call'[c].after = call[c].after
  BY Sourcing DEF ResolverInv
<1>2. call'[c].pc \notin FileSteps \cup ImportSteps \cup Locked \cup {"manifestFetch", "importFetch"}
  BY <1>1 DEF FileSteps, ImportSteps, Locked
<1>3. CallOK(c)'
  BY <1>1, <1>2 DEF CallOK, FilesKnown, Held, Fetching
<1> QED
  BY <1>1, <1>3, QuietStep

\* To a place where nothing is known but what comes after the files.
LEMMA ManifestStep ==
  ASSUME ResolverInv, NEW c \in Calls, UNCHANGED <<store, staging>>, ~At(c, "importPublish"),
         NEW p \in {"closure", "manifest", "manifestLock"}, Goto(c, p), call[c].after \in {"import", "promote"}
  PROVE  ResolverInv'
<1>1. Shape' /\ Only(c) /\ call'[c].pc = p /\ Stays(c)
  BY Going DEF ResolverInv
<1>2. call'[c].pc \notin FileSteps \cup ImportSteps \cup Locked \cup {"manifestFetch", "importFetch"}
  BY <1>1 DEF FileSteps, ImportSteps, Locked
<1>3. CallOK(c)'
  BY <1>1, <1>2 DEF CallOK, FilesKnown, Held, Fetching, Stays
<1> QED
  BY <1>1, <1>3, QuietStep DEF Stays

\* With all files there, to the import or the promotion they were needed for.
LEMMA ImportStep ==
  ASSUME ResolverInv, NEW c \in Calls, UNCHANGED <<store, staging>>, ~At(c, "importPublish"),
         NEW p \in {"import", "importLock", "promote"}, Goto(c, p), Manifest(c) \subseteq files,
         call[c].after \in {"import", "promote"}
  PROVE  ResolverInv'
<1>1. Shape' /\ Only(c) /\ call'[c].pc = p /\ Stays(c)
  BY Going DEF ResolverInv
<1>2. call'[c].pc \notin FileSteps \cup Locked \cup {"manifestFetch", "importFetch"}
  BY <1>1 DEF FileSteps, Locked
<1>3. Manifest(c)' = Manifest(c) /\ files' = files
  BY <1>1, SamePlaces DEF Stays, store
<1>4. CallOK(c)'
  BY <1>1, <1>2, <1>3 DEF CallOK, FilesKnown, Held, Fetching, Stays
<1> QED
  BY <1>1, <1>4, QuietStep DEF Stays

LEMMA KnownAfter ==
  ASSUME ResolverInv, NEW c \in Calls, call[c].pc \in {"source", "closure"} \cup ManifestSteps \cup FileSteps \cup ImportSteps
  PROVE  call[c].after \in {"import", "promote"}
  BY DEF ResolverInv, CallOK, FilesKnown

LEMMA TrySourceKeeps ==
  ASSUME ResolverInv, NEW c \in Calls, TrySource(c)
  PROVE  ResolverInv'
<1>1. call[c].pc = "source" /\ Shape /\ UNCHANGED <<store, staging>>
  BY DEF TrySource, At, ResolverInv
<1>2. call[c].after \in {"import", "promote"} /\ ~At(c, "importPublish")
  BY <1>1, KnownAfter DEF At
<1>3. CASE NextCandidate(c)
  <2>1. Shape' /\ Only(c) /\ call'[c].pc \in Free /\ call'[c].report = call[c].report
    BY <1>1, <1>3, Candidating DEF Free
  <2> QED BY <1>1, <1>2, <2>1, FreeStep
<1>4. CASE Goto(c, "manifest")
  BY <1>1, <1>2, <1>4, ManifestStep
<1>5. CASE NextSource(c)
  BY <1>1, <1>2, <1>5, SourceStep
<1> QED
  BY <1>3, <1>4, <1>5 DEF TrySource

LEMMA LocalManifestKeeps ==
  ASSUME ResolverInv, NEW c \in Calls, LocalManifest(c)
  PROVE  ResolverInv'
<1>1. call[c].pc = "manifest" /\ Shape /\ UNCHANGED <<store, staging>>
  BY DEF LocalManifest, At, ResolverInv
<1>2. call[c].after \in {"import", "promote"} /\ ~At(c, "importPublish")
  BY <1>1, KnownAfter DEF At, ManifestSteps
<1>3. CASE Fail(c)
  <2>1. Shape' /\ Only(c) /\ call'[c].pc \in Free /\ call'[c].report = call[c].report
    BY <1>1, <1>3, Failing DEF Free
  <2> QED BY <1>1, <1>2, <2>1, FreeStep
<1>4. CASE Goto(c, "closure")
  BY <1>1, <1>2, <1>4, ManifestStep
<1> QED
  BY <1>3, <1>4 DEF LocalManifest

LEMMA ManifestBeginKeeps ==
  ASSUME ResolverInv, NEW c \in Calls, RemoteBegin(c, "manifest", "closure", "manifestLock")
  PROVE  ResolverInv'
<1>1. call[c].pc = "manifest" /\ UNCHANGED <<store, staging>>
  BY DEF RemoteBegin, At
<1>2. call[c].after \in {"import", "promote"} /\ ~At(c, "importPublish")
  BY <1>1, KnownAfter DEF At, ManifestSteps
<1>3. Goto(c, "closure") \/ Goto(c, "manifestLock")
  BY Zenon DEF RemoteBegin
<1> QED
  BY <1>1, <1>2, <1>3, ManifestStep

LEMMA ImportBeginKeeps ==
  ASSUME ResolverInv, NEW c \in Calls, RemoteBegin(c, "import", "promote", "importLock")
  PROVE  ResolverInv'
<1>1. call[c].pc = "import" /\ UNCHANGED <<store, staging>>
  BY DEF RemoteBegin, At
<1>2. Manifest(c) \subseteq files /\ ~At(c, "importPublish") /\ call[c].after \in {"import", "promote"}
  BY <1>1 DEF At, ImportSteps, ResolverInv, CallOK, FilesKnown
<1>3. Goto(c, "promote") \/ Goto(c, "importLock")
  BY Zenon DEF RemoteBegin
<1> QED
  BY <1>1, <1>2, <1>3, ImportStep

\* A quiet step to or among the steps that look for files.
LEMMA FilesStep ==
  ASSUME ResolverInv, NEW c \in Calls, UNCHANGED <<store, staging>>, ~At(c, "importPublish"), Shape', Only(c),
         call'[c].pc \in FileSteps, call'[c].report = call[c].report, SameHash(c),
         call'[c].after \in {"import", "promote"}, Manifest(c) \subseteq files \cup call'[c].left
  PROVE  ResolverInv'
<1>1. call'[c].pc \notin ImportSteps \cup Locked \cup {"manifestFetch", "importFetch"}
  BY DEF FileSteps, ImportSteps, Locked
<1>2. Manifest(c)' = Manifest(c) /\ files' = files
  BY SamePlaces DEF store
<1>3. CallOK(c)'
  BY <1>1, <1>2 DEF CallOK, FilesKnown, Held, Fetching
<1> QED
  BY <1>3, QuietStep

LEMMA ClosureKeeps ==
  ASSUME ResolverInv, NEW c \in Calls, Closure(c)
  PROVE  ResolverInv'
<1>1. call[c].pc = "closure" /\ Shape /\ DOMAIN call[c] = Fields /\ UNCHANGED <<store, staging>>
  BY DEF Closure, At, ResolverInv, Shape
<1>2. call[c].after \in {"import", "promote"} /\ ~At(c, "importPublish")
  BY <1>1, KnownAfter DEF At
<1>3. CASE Missing(Hash(c)) = {}
  <2>1. Goto(c, call[c].after) /\ Manifest(c) \subseteq files
    BY <1>3 DEF Closure, Missing, Manifest
  <2>2. call[c].after \in {"import", "importLock", "promote"}
    BY <1>2
  <2> QED BY <1>1, <1>2, <2>1, <2>2, ImportStep
<1>4. CASE Missing(Hash(c)) # {}
  <2>1. PICK n : call' = [call EXCEPT ![c].pc = "locateFiles", ![c].left = Missing(Hash(c)), ![c].need = n]
    BY <1>4, Zenon DEF Closure
  <2>2. PICK left : left = Missing(Hash(c))
    OBVIOUS
  <2>3. call' = [call EXCEPT ![c].pc = "locateFiles", ![c].left = left, ![c].need = n]
    BY <2>1, <2>2, Zenon
  <2>4. /\ call'[c].pc = "locateFiles" /\ call'[c].left = left /\ call'[c].report = call[c].report
        /\ call'[c].after = call[c].after /\ SameHash(c)
    BY <1>1, <2>3 DEF Shape, Fields, SameHash
  <2>5. Shape' /\ Only(c)
    BY <1>1, <2>3 DEF Shape, Fields, Only
  <2>6. call'[c].pc \in FileSteps /\ Manifest(c) \subseteq files \cup call'[c].left
    BY <2>2, <2>4 DEF FileSteps, Missing, Manifest
  <2> QED BY <1>1, <1>2, <2>4, <2>5, <2>6, FilesStep
<1> QED
  BY <1>3, <1>4

LEMMA InFiles ==
  ASSUME ResolverInv, NEW c \in Calls, call[c].pc \in FileSteps
  PROVE  /\ Shape /\ DOMAIN call[c] = Fields /\ ~At(c, "importPublish") /\ call[c].after \in {"import", "promote"}
         /\ Manifest(c) \subseteq files \cup call[c].left
  BY DEF ResolverInv, Shape, CallOK, FilesKnown, FileSteps, At

LEMMA CollectFilesKeeps ==
  ASSUME ResolverInv, NEW c \in Calls, CollectFiles(c)
  PROVE  ResolverInv'
<1>1. call[c].pc \in FileSteps /\ UNCHANGED <<store, staging>>
  BY DEF CollectFiles, At, FileSteps
<1>2. CASE Fail(c)
  <2>1. Shape' /\ Only(c) /\ call'[c].pc \in Free /\ call'[c].report = call[c].report
    BY <1>1, <1>2, InFiles, Failing DEF Free
  <2> QED BY <1>1, <2>1, InFiles, FreeStep
<1>3. CASE call' = [call EXCEPT ![c].pc = "files", ![c].from = 1]
  <2>1. /\ call'[c].pc = "files" /\ call'[c].left = call[c].left /\ call'[c].report = call[c].report
        /\ call'[c].after = call[c].after /\ SameHash(c)
    BY <1>1, <1>3, InFiles DEF Shape, Fields, SameHash
  <2>2. Shape' /\ Only(c)
    BY <1>1, <1>3, InFiles DEF Shape, Fields, Only
  <2>3. call'[c].pc \in FileSteps
    BY <2>1 DEF FileSteps
  <2> QED BY <1>1, <2>1, <2>2, <2>3, InFiles, FilesStep
<1> QED
  BY <1>2, <1>3 DEF CollectFiles

LEMMA TryFileSourceKeeps ==
  ASSUME ResolverInv, NEW c \in Calls, TryFileSource(c)
  PROVE  ResolverInv'
<1>1. call[c].pc \in FileSteps /\ UNCHANGED <<store, staging>>
  BY DEF TryFileSource, At, FileSteps
<1>2. CASE call[c].left = {} /\ Goto(c, call[c].after)
  <2>1. call[c].after \in {"import", "importLock", "promote"} /\ Manifest(c) \subseteq files
    BY <1>1, <1>2, InFiles
  <2> QED BY <1>1, <1>2, <2>1, InFiles, ImportStep
<1>3. CASE NextSource(c)
  BY <1>1, <1>3, InFiles, SourceStep
<1>4. CASE NextCandidate(c)
  <2>1. Shape' /\ Only(c) /\ call'[c].pc \in Free /\ call'[c].report = call[c].report
    BY <1>1, <1>4, InFiles, Candidating DEF Free
  <2> QED BY <1>1, <2>1, InFiles, FreeStep
<1>5. CASE call' = [call EXCEPT ![c].from = @ + 1]
  <2>1. /\ call'[c].pc = call[c].pc /\ call'[c].left = call[c].left /\ call'[c].report = call[c].report
        /\ call'[c].after = call[c].after /\ SameHash(c)
    BY <1>1, <1>5, InFiles DEF Shape, Fields, SameHash
  <2>2. Shape' /\ Only(c)
    BY <1>1, <1>5, InFiles DEF Shape, Fields, Only
  <2> QED BY <1>1, <2>1, <2>2, InFiles, FilesStep
<1>6. CASE \E todo, p : p \in {"fetchFiles", "copyFiles"} /\ call' = [call EXCEPT ![c].todo = todo, ![c].pc = p]
  <2>1. PICK todo, p : p \in {"fetchFiles", "copyFiles"} /\ call' = [call EXCEPT ![c].todo = todo, ![c].pc = p]
    BY <1>6
  <2>2. /\ call'[c].pc = p /\ call'[c].left = call[c].left /\ call'[c].report = call[c].report
        /\ call'[c].after = call[c].after /\ SameHash(c)
    BY <1>1, <2>1, InFiles DEF Shape, Fields, SameHash
  <2>3. Shape' /\ Only(c)
    BY <1>1, <2>1, InFiles DEF Shape, Fields, Only
  <2>4. call'[c].pc \in FileSteps
    BY <2>1, <2>2 DEF FileSteps
  <2> QED BY <1>1, <2>2, <2>3, <2>4, InFiles, FilesStep
<1>7. QED
  <2>1. ASSUME NEW b, NEW todo, call' = [call EXCEPT ![c].todo = todo, ![c].pc = IF b THEN "fetchFiles" ELSE "copyFiles"]
        PROVE  \E t, p : p \in {"fetchFiles", "copyFiles"} /\ call' = [call EXCEPT ![c].todo = t, ![c].pc = p]
    <3>1. (IF b THEN "fetchFiles" ELSE "copyFiles") \in {"fetchFiles", "copyFiles"}
      OBVIOUS
    <3> QED BY <2>1, <3>1, Zenon
  <2> QED BY <1>2, <1>3, <1>4, <1>5, <1>6, <2>1, Zenon DEF TryFileSource

\* After a step that brings a file the store has all it had, and what it has
\* is complete as before.
LEMMA FileArrives ==
  ASSUME ResolverInv, NEW c \in Calls, UNCHANGED <<objects, mapped, foreign, staging>>, files \subseteq files',
         Shape', Only(c), call[c].pc \in FileSteps, call'[c].pc \in FileSteps, call'[c].report = call[c].report,
         SameHash(c), call'[c].after = call[c].after, Manifest(c) \subseteq files' \cup call'[c].left
  PROVE  ResolverInv'
<1>1. Grown /\ UNCHANGED <<objects, mapped, foreign, lock, staged, downloads, repeated>> /\ ~At(c, "importPublish")
  BY DEF Grown, staging, FileSteps, At
<1>2. PublishedComplete'
  <2>1. (\A d \in Calls : \A r \in call[d].report : r.hash # None => Complete(r.hash))'
    BY <1>1, ReportsKept
  <2>2. (\A h \in objects \ (foreign \cup StoredObjects) : Complete(h))' /\ (\A m \in mapped : Complete(m[2]))'
    BY <1>1, StaysComplete DEF ResolverInv, PublishedComplete
  <2> QED BY <2>1, <2>2 DEF PublishedComplete
<1>3. DownloadedOnce' /\ OneHolder'
  BY <1>1 DEF ResolverInv, DownloadedOnce, OneHolder
<1>4. Accounted'
  BY <1>1, PublishingKept DEF ResolverInv, Accounted
<1>5. ASSUME NEW d \in Calls PROVE CallOK(d)'
  <2>1. CASE d = c
    <3>1. call'[c].pc \notin ImportSteps \cup Locked \cup {"manifestFetch", "importFetch"}
      BY DEF FileSteps, ImportSteps, Locked
    <3>2. Manifest(c)' = Manifest(c) /\ call'[c].after \in {"import", "promote"}
      BY SamePlaces, InFiles
    <3> QED BY <2>1, <3>1, <3>2 DEF CallOK, FilesKnown, Held, Fetching
  <2>2. CASE d # c
    <3>1. call'[d] = call[d] /\ CallOK(d)
      BY <2>2 DEF Only, ResolverInv
    <3>2. Fetching(d)'
      BY <1>1, <3>1, SamePlaces DEF CallOK, Fetching
    <3> QED BY <1>1, <3>1, <3>2, OthersKeep
  <2> QED BY <2>1, <2>2
<1> QED
  BY <1>2, <1>3, <1>4, <1>5 DEF ResolverInv

\* The import from a source ends; what has arrived is no longer looked for.
LEMMA FilesOver ==
  ASSUME ResolverInv, NEW c \in Calls, UNCHANGED <<objects, mapped, foreign, staging>>, files \subseteq files',
         call[c].pc \in FileSteps, FilesDone(c, files')
  PROVE  ResolverInv'
<1>1. /\ Shape' /\ Only(c) /\ call'[c].pc = "files" /\ SameHash(c) /\ call'[c].report = call[c].report
      /\ call'[c].after = call[c].after /\ call'[c].left = call[c].left \ files'
  BY FilesGone DEF ResolverInv
<1>2. call'[c].pc \in FileSteps /\ Manifest(c) \subseteq files' \cup call'[c].left
  BY <1>1, InFiles DEF FileSteps
<1> QED
  BY <1>1, <1>2, FileArrives

LEMMA CopyFileKeeps ==
  ASSUME ResolverInv, NEW c \in Calls, CopyFile(c)
  PROVE  ResolverInv'
<1>1. call[c].pc = "copyFiles" /\ call[c].pc \in FileSteps /\ UNCHANGED <<objects, mapped, foreign, staging>>
  BY DEF CopyFile, At, FileSteps
<1>2. CASE Fail(c) /\ UNCHANGED files
  <2>1. Shape' /\ Only(c) /\ call'[c].pc \in Free /\ call'[c].report = call[c].report
    BY <1>1, <1>2, InFiles, Failing DEF Free
  <2>2. UNCHANGED <<store, staging>>
    BY <1>1, <1>2 DEF store
  <2> QED BY <1>1, <2>1, <2>2, InFiles, FreeStep
<1>3. CASE files \subseteq files' /\ FilesDone(c, files')
  BY <1>1, <1>3, FilesOver
<1>4. CASE files \subseteq files' /\ call' = [call EXCEPT ![c].todo = Tail(@)]
  <2>1. /\ call'[c].pc = call[c].pc /\ call'[c].left = call[c].left /\ call'[c].report = call[c].report
        /\ call'[c].after = call[c].after /\ SameHash(c)
    BY <1>1, <1>4, InFiles DEF Shape, Fields, SameHash
  <2>2. Shape' /\ Only(c)
    BY <1>1, <1>4, InFiles DEF Shape, Fields, Only
  <2>3. Manifest(c) \subseteq files' \cup call'[c].left
    BY <1>1, <1>4, <2>1, InFiles
  <2> QED BY <1>1, <1>4, <2>1, <2>2, <2>3, FileArrives
<1> QED
  <2>1. (Fail(c) /\ UNCHANGED files) \/ (files' = files \cup {Head(call[c].todo)} /\
          (FilesDone(c, files') \/ call' = [call EXCEPT ![c].todo = Tail(@)]))
    BY Zenon DEF CopyFile
  <2>2. files' = files \cup {Head(call[c].todo)} => files \subseteq files'
    OBVIOUS
  <2> QED BY <1>2, <1>3, <1>4, <2>1, <2>2, Zenon

LEMMA FetchBatchKeeps ==
  ASSUME ResolverInv, NEW c \in Calls, FetchBatch(c)
  PROVE  ResolverInv'
<1>1. call[c].pc \in FileSteps /\ UNCHANGED <<store, staging>>
  BY DEF FetchBatch, At, FileSteps
<1>2. CASE FilesDone(c, files)
  <2>1. files' = files /\ UNCHANGED <<objects, mapped, foreign, staging>>
    BY <1>1 DEF store
  <2>2. FilesDone(c, files') /\ files \subseteq files'
    BY <1>2, <2>1
  <2> QED BY <1>1, <2>1, <2>2, FilesOver
<1>3. CASE call' = [call EXCEPT ![c].pc = "publishFiles", ![c].waiting = ToSet(InBatch(c))]
  <2>1. PICK x : call' = [call EXCEPT ![c].pc = "publishFiles", ![c].waiting = x]
    BY <1>3, Zenon
  <2>2. /\ call'[c].pc = "publishFiles" /\ call'[c].left = call[c].left /\ call'[c].report = call[c].report
        /\ call'[c].after = call[c].after /\ SameHash(c)
    BY <1>1, <2>1, InFiles DEF Shape, Fields, SameHash
  <2>3. Shape' /\ Only(c)
    BY <1>1, <2>1, InFiles DEF Shape, Fields, Only
  <2>4. call'[c].pc \in FileSteps
    BY <2>2 DEF FileSteps
  <2> QED BY <1>1, <2>2, <2>3, <2>4, InFiles, FilesStep
<1> QED
  BY <1>2, <1>3, Zenon DEF FetchBatch

LEMMA PublishFileKeeps ==
  ASSUME ResolverInv, NEW c \in Calls, PublishFile(c)
  PROVE  ResolverInv'
<1> DEFINE f == Head(call[c].todo)
<1>1. call[c].pc = "publishFiles" /\ call[c].pc \in FileSteps /\ UNCHANGED <<objects, mapped, foreign, staging>>
  BY DEF PublishFile, At, FileSteps
<1>2. CASE files' = files /\ FilesDone(c, files)
  <2>1. FilesDone(c, files') /\ files \subseteq files'
    BY <1>2
  <2> QED BY <1>1, <2>1, FilesOver
<1>3. CASE files \subseteq files' /\ FilesDone(c, files')
  BY <1>1, <1>3, FilesOver
<1>4. CASE /\ files \subseteq files'
           /\ \E t, x, p : p \in {"fetchFiles", call[c].pc}
                /\ call' = [call EXCEPT ![c].todo = t, ![c].waiting = @ \ {x}, ![c].pc = p]
  <2>1. PICK t, x, p : p \in {"fetchFiles", call[c].pc}
                /\ call' = [call EXCEPT ![c].todo = t, ![c].waiting = @ \ {x}, ![c].pc = p]
    BY <1>4
  <2>2. /\ call'[c].pc = p /\ call'[c].left = call[c].left /\ call'[c].report = call[c].report
        /\ call'[c].after = call[c].after /\ SameHash(c)
    BY <1>1, <2>1, InFiles DEF Shape, Fields, SameHash
  <2>3. Shape' /\ Only(c)
    BY <1>1, <2>1, InFiles DEF Shape, Fields, Only
  <2>4. call'[c].pc \in FileSteps /\ Manifest(c) \subseteq files' \cup call'[c].left
    BY <1>1, <1>4, <2>1, <2>2, InFiles DEF FileSteps
  <2> QED BY <1>1, <1>4, <2>2, <2>3, <2>4, FileArrives
<1>5. QED
  <2>1. ASSUME NEW b, NEW t, NEW x,
               call' = [call EXCEPT ![c].todo = t, ![c].waiting = @ \ {x}, ![c].pc = IF b THEN "fetchFiles" ELSE @]
        PROVE  \E u, y, p : p \in {"fetchFiles", call[c].pc}
                 /\ call' = [call EXCEPT ![c].todo = u, ![c].waiting = @ \ {y}, ![c].pc = p]
    <3>1. PICK p : p = IF b THEN "fetchFiles" ELSE call[c].pc
      OBVIOUS
    <3>2. p \in {"fetchFiles", call[c].pc}
      BY <3>1
    <3>3. call' = [call EXCEPT ![c].todo = t, ![c].waiting = @ \ {x}, ![c].pc = p]
      <4>1. CASE b
        BY <2>1, <3>1, <4>1
      <4>2. CASE ~b
        <5>1. call' = [call EXCEPT ![c].todo = t, ![c].waiting = @ \ {x}, ![c].pc = @]
          BY <2>1, <4>2
        <5>2. p = call[c].pc
          BY <3>1, <4>2
        <5> QED BY <1>1, <5>1, <5>2, InFiles DEF Shape, Fields
      <4> QED BY <4>1, <4>2
    <3> QED BY <3>2, <3>3, Zenon
  <2>2. files' = files \cup {f} => files \subseteq files'
    OBVIOUS
  <2> QED BY <1>2, <1>3, <1>4, <2>1, <2>2, Zenon DEF PublishFile

----------------------------------------------------------------------------
(* The steps that publish mappings.                                        *)

LEMMA PublishedHash ==
  ASSUME NEW c \in Calls, NEW h, NEW m \in Published(c, h)
  PROVE  m[2] = h
<1>1. CASE Request[c].op = "ensure"
  <2>1. Published(c, h) = {}
    BY <1>1 DEF Published
  <2> QED BY <2>1
<1>2. CASE Request[c].op = "builds"
  <2>1. Published(c, h) = {<<Group(c).key, h>>}
    BY <1>2 DEF Published
  <2> QED BY <2>1
<1>3. CASE Request[c].op = "reuses"
  <2>1. Published(c, h) = {<<Group(c).key[1], h>>, <<Group(c).key[2], h>>}
    BY <1>3 DEF Published
  <2> QED BY <2>1
<1> QED
  BY <1>1, <1>2, <1>3, RequestAssumption

\* A complete candidate is published and reported, and the next group begins.
LEMMA GroupResolved ==
  ASSUME ResolverInv, NEW c \in Calls, NEW h, Complete(h), NEW how, NextGroup(c, h, how), ~At(c, "importPublish"),
         mapped' = mapped \cup Published(c, h), UNCHANGED <<objects, files, foreign, staging>>
  PROVE  ResolverInv'
<1>1. /\ Shape' /\ Only(c) /\ call'[c].pc = "group"
      /\ \A r \in call'[c].report : r \in call[c].report \/ r.hash = h
  BY Grouping DEF ResolverInv
<1>2. UNCHANGED <<objects, files, foreign, lock, staged, downloads, repeated>> /\ Grown
  BY DEF staging, Grown
<1>3. PublishedComplete'
  <2>1. (\A d \in Calls : \A r \in call[d].report : r.hash # None => Complete(r.hash))'
    BY <1>1, <1>2, StaysComplete, ReportsKept
  <2>2. (\A x \in objects \ (foreign \cup StoredObjects) : Complete(x))'
    BY <1>2, StaysComplete DEF ResolverInv, PublishedComplete
  <2>3. \A m \in mapped' : Complete(m[2])'
    <3> SUFFICES ASSUME NEW m \in mapped' PROVE Complete(m[2])'
      OBVIOUS
    <3>1. CASE m \in mapped
      BY <1>2, <3>1, StaysComplete DEF ResolverInv, PublishedComplete
    <3>2. CASE m \in Published(c, h)
      BY <1>2, <3>2, PublishedHash, StaysComplete
    <3> QED BY <3>1, <3>2
  <2> QED BY <2>1, <2>2, <2>3 DEF PublishedComplete
<1>4. DownloadedOnce' /\ OneHolder'
  BY <1>2 DEF ResolverInv, DownloadedOnce, OneHolder
<1>5. Accounted'
  BY <1>1, <1>2, PublishingKept DEF ResolverInv, Accounted
<1>6. ASSUME NEW d \in Calls PROVE CallOK(d)'
  <2>1. CASE d = c
    <3>1. call'[c].pc \notin {"source", "closure", "manifestFetch", "importFetch"} \cup ManifestSteps \cup FileSteps \cup ImportSteps \cup Locked
      BY <1>1 DEF ManifestSteps, FileSteps, ImportSteps, Locked
    <3> QED BY <2>1, <3>1 DEF CallOK, FilesKnown, Held, Fetching
  <2>2. CASE d # c
    <3>1. call'[d] = call[d] /\ CallOK(d)
      BY <1>1, <2>2 DEF Only, ResolverInv
    <3>2. Fetching(d)'
      BY <1>2, <3>1, SamePlaces DEF CallOK, Fetching
    <3> QED BY <1>2, <3>1, <3>2, OthersKeep
  <2> QED BY <2>1, <2>2
<1> QED
  BY <1>1, <1>3, <1>4, <1>5, <1>6 DEF ResolverInv

LEMMA ResolveGroupKeeps ==
  ASSUME ResolverInv, NEW c \in Calls, ResolveGroup(c)
  PROVE  ResolverInv'
<1>1. Shape /\ DOMAIN call[c] = Fields /\ ~At(c, "importPublish") /\ UNCHANGED <<objects, files, foreign, staging>>
  BY DEF ResolverInv, Shape, ResolveGroup, At
<1>2. CASE call' = [call EXCEPT ![c].pc = "done", ![c].outcome = "ok"] /\ UNCHANGED mapped
  <2>1. call'[c].pc \in Free /\ call'[c].report = call[c].report
    BY <1>1, <1>2 DEF Shape, Fields, Free
  <2>2. Shape' /\ Only(c) /\ UNCHANGED <<store, staging>>
    BY <1>1, <1>2 DEF Shape, Fields, Only, store
  <2> QED BY <1>1, <2>1, <2>2, FreeStep
<1>3. CASE \E h : Complete(h) /\ mapped' = mapped \cup Published(c, h) /\ NextGroup(c, h, "present")
  BY <1>1, <1>3, GroupResolved
<1>4. CASE Goto(c, "candidate") /\ UNCHANGED mapped
  <2>1. Shape' /\ Only(c) /\ call'[c].pc \in Free /\ Stays(c) /\ UNCHANGED <<store, staging>>
    BY <1>1, <1>4, Going DEF Free, store
  <2> QED BY <1>1, <2>1, FreeStep DEF Stays
<1> QED
  BY <1>2, <1>3, <1>4, Zenon DEF ResolveGroup

LEMMA PromoteKeeps ==
  ASSUME ResolverInv, NEW c \in Calls, Promote(c)
  PROVE  ResolverInv'
<1>1. Shape /\ ~At(c, "importPublish") /\ UNCHANGED <<objects, files, foreign, staging>>
  BY DEF ResolverInv, Promote, At
<1>2. CASE Complete(Hash(c)) /\ mapped' = mapped \cup Published(c, Hash(c)) /\ NextGroup(c, Hash(c), "acquired")
  BY <1>1, <1>2, GroupResolved
<1>3. CASE Fail(c) /\ UNCHANGED mapped
  <2>1. Shape' /\ Only(c) /\ call'[c].pc \in Free /\ call'[c].report = call[c].report /\ UNCHANGED <<store, staging>>
    BY <1>1, <1>3, Failing DEF Free, store
  <2> QED BY <1>1, <2>1, FreeStep
<1> QED
  BY <1>2, <1>3, Zenon DEF Promote

----------------------------------------------------------------------------
(* The steps that use the staging area.                                    *)

\* The lock a call is about to take, holds or gives back is the only one of
\* its pair, so what it does there is nobody else's.
LEMMA HoldersApart ==
  ASSUME ResolverInv, NEW c \in Calls, NEW d \in Calls, d # c, call[d].pc \in Locked,
         <<Pair(c), c>> \in lock \/ \A l \in lock : l[1] # Pair(c)
  PROVE  Pair(d) # Pair(c)
<1>1. <<Pair(d), d>> \in lock
  BY DEF ResolverInv, CallOK, Held
<1>2. <<Pair(d), d>>[1] = Pair(d) /\ <<Pair(c), c>>[1] = Pair(c)
  OBVIOUS
<1>3. <<Pair(d), d>> # <<Pair(c), c>>
  OBVIOUS
<1> QED
  BY <1>1, <1>2, <1>3 DEF ResolverInv, OneHolder

\* A step at the staging area: what is left to show is about this call, and
\* about what was downloaded.
LEMMA StagingStep ==
  ASSUME ResolverInv, NEW c \in Calls, UNCHANGED store, Shape', Only(c), call'[c].report = call[c].report,
         \A l \in lock : l # <<Pair(c), c>> => l \in lock', OneHolder', DownloadedOnce', Accounted',
         \A d \in Calls : d # c => Fetching(d)', CallOK(c)'
  PROVE  ResolverInv'
<1>1. UNCHANGED <<objects, files, mapped, foreign>> /\ Grown
  BY DEF store, Grown
<1>2. PublishedComplete'
  <2>1. (\A d \in Calls : \A r \in call[d].report : r.hash # None => Complete(r.hash))'
    BY <1>1, ReportsKept
  <2>2. (\A h \in objects \ (foreign \cup StoredObjects) : Complete(h))' /\ (\A m \in mapped : Complete(m[2]))'
    BY <1>1, StaysComplete DEF ResolverInv, PublishedComplete
  <2> QED BY <2>1, <2>2 DEF PublishedComplete
<1>3. ASSUME NEW d \in Calls, d # c PROVE CallOK(d)'
  <2>1. call'[d] = call[d] /\ CallOK(d)
    BY <1>3 DEF Only, ResolverInv
  <2>2. <<Pair(d), d>> # <<Pair(c), c>>
    BY <1>3
  <2> QED BY <1>1, <1>3, <2>1, <2>2, OthersKeep
<1> QED
  BY <1>2, <1>3 DEF ResolverInv

\* What others fetch stays theirs when nothing is downloaded.
LEMMA FetchingKept ==
  ASSUME ResolverInv, NEW c \in Calls, Only(c), UNCHANGED downloads
  PROVE  \A d \in Calls : d # c => Fetching(d)'
<1> SUFFICES ASSUME NEW d \in Calls, d # c PROVE Fetching(d)'
  OBVIOUS
<1>1. call'[d] = call[d] /\ CallOK(d)
  BY DEF Only, ResolverInv
<1> QED
  BY <1>1, SamePlaces DEF CallOK, Fetching

LEMMA LockTaken ==
  ASSUME ResolverInv, NEW c \in Calls, NEW q, NEW p, LockStaging(c, q, p), ~At(c, "importPublish")
  PROVE  /\ call'[c].pc = p /\ Stays(c) /\ <<Pair(c), c>> \in lock' /\ files' = files
         /\ (CallOK(c)' => ResolverInv')
<1>1. Shape' /\ Only(c) /\ call'[c].pc = p /\ Stays(c)
  BY Going DEF LockStaging, ResolverInv
<1>2. /\ \A l \in lock : l[1] # Pair(c)
      /\ lock' = lock \cup {<<Pair(c), c>>} /\ UNCHANGED <<store, staged, downloads, repeated>>
  BY DEF LockStaging
<1>3. OneHolder'
  <2>1. <<Pair(c), c>>[1] = Pair(c)
    OBVIOUS
  <2> QED BY <1>2, <2>1 DEF ResolverInv, OneHolder
<1>4. objects' = objects /\ files' = files
  BY <1>2 DEF store
<1>5. Accounted'
  BY <1>1, <1>2, <1>4, PublishingKept DEF ResolverInv, Accounted
<1>6. DownloadedOnce'
  BY <1>2 DEF ResolverInv, DownloadedOnce
<1>7. \A d \in Calls : d # c => Fetching(d)'
  BY <1>1, <1>2, FetchingKept
<1> QED
  BY <1>1, <1>2, <1>3, <1>4, <1>5, <1>6, <1>7, StagingStep DEF Stays

LEMMA ManifestLockKeeps ==
  ASSUME ResolverInv, NEW c \in Calls, LockStaging(c, "manifestLock", "manifestLocked")
  PROVE  ResolverInv'
<1>1. call[c].pc = "manifestLock" /\ ~At(c, "importPublish")
  BY DEF LockStaging, At
<1>2. call[c].after \in {"import", "promote"}
  BY <1>1, KnownAfter DEF ManifestSteps
<1>3. /\ call'[c].pc = "manifestLocked" /\ Stays(c) /\ <<Pair(c), c>> \in lock' /\ files' = files
      /\ (CallOK(c)' => ResolverInv')
  BY <1>1, LockTaken
<1>4. Pair(c)' = Pair(c)
  BY <1>3, SamePlaces DEF Stays
<1>5. call'[c].pc \notin FileSteps \cup ImportSteps \cup {"manifestFetch", "importFetch"}
  BY <1>3 DEF FileSteps, ImportSteps
<1>6. CallOK(c)'
  BY <1>2, <1>3, <1>4, <1>5 DEF CallOK, FilesKnown, Held, Fetching, Stays
<1> QED
  BY <1>3, <1>6

LEMMA ImportLockKeeps ==
  ASSUME ResolverInv, NEW c \in Calls, LockStaging(c, "importLock", "importLocked")
  PROVE  ResolverInv'
<1>1. call[c].pc = "importLock" /\ ~At(c, "importPublish")
  BY DEF LockStaging, At
<1>2. Manifest(c) \subseteq files /\ call[c].after \in {"import", "promote"}
  BY <1>1 DEF ResolverInv, CallOK, FilesKnown, ImportSteps
<1>3. /\ call'[c].pc = "importLocked" /\ Stays(c) /\ <<Pair(c), c>> \in lock' /\ files' = files
      /\ (CallOK(c)' => ResolverInv')
  BY <1>1, LockTaken
<1>4. Pair(c)' = Pair(c) /\ Manifest(c)' = Manifest(c)
  BY <1>3, SamePlaces DEF Stays
<1>5. call'[c].pc \notin FileSteps \cup {"manifestFetch", "importFetch"}
  BY <1>3 DEF FileSteps
<1>6. CallOK(c)'
  BY <1>2, <1>3, <1>4, <1>5 DEF CallOK, FilesKnown, Held, Fetching, Stays
<1> QED
  BY <1>3, <1>6

\* A lock is given back and nothing else happens at the staging area.
LEMMA LockGiven ==
  ASSUME ResolverInv, NEW c \in Calls, Unlock(c), UNCHANGED <<store, staged, downloads, repeated>>, Shape', Only(c),
         ~At(c, "importPublish"), call'[c].report = call[c].report, CallOK(c)'
  PROVE  ResolverInv'
<1>1. lock' = lock \ {<<Pair(c), c>>}
  BY DEF Unlock
<1>2. OneHolder' /\ \A l \in lock : l # <<Pair(c), c>> => l \in lock'
  BY <1>1 DEF ResolverInv, OneHolder
<1>3. objects' = objects
  BY DEF store
<1>4. Accounted'
  BY <1>3, PublishingKept DEF ResolverInv, Accounted
<1>5. DownloadedOnce'
  BY DEF ResolverInv, DownloadedOnce
<1>6. \A d \in Calls : d # c => Fetching(d)'
  BY FetchingKept
<1> QED
  BY <1>2, <1>4, <1>5, <1>6, StagingStep

\* Under the lock, what is neither staged nor in the store has not been
\* downloaded.
LEMMA NotDownloaded ==
  ASSUME ResolverInv, NEW c \in Calls, call[c].pc \in Locked, ~At(c, "importPublish"), Hash(c) \notin objects,
         NeedsDownload(c)
  PROVE  Pair(c) \notin downloads
<1> SUFFICES ASSUME Pair(c) \in downloads PROVE FALSE
  OBVIOUS
<1>1. Pair(c)[2] = Hash(c)
  BY DEF Pair
<1>2. Publishing(Pair(c))
  BY <1>1 DEF ResolverInv, Accounted, NeedsDownload
<1>3. PICK d \in Calls : At(d, "importPublish") /\ Pair(d) = Pair(c)
  BY <1>2 DEF Publishing
<1>4. d # c /\ call[d].pc \in Locked
  BY <1>3 DEF At, Locked
<1>5. <<Pair(c), c>> \in lock
  BY DEF ResolverInv, CallOK, Held
<1> QED
  BY <1>3, <1>4, <1>5, HoldersApart

\* A call that keeps its lock and goes on under it.
LEMMA UnderLock ==
  ASSUME ResolverInv, NEW c \in Calls, NEW p, Goto(c, p), UNCHANGED <<store, staging>>, ~At(c, "importPublish"), CallOK(c)'
  PROVE  ResolverInv'
<1>1. Shape' /\ Only(c) /\ Stays(c)
  BY Going DEF ResolverInv
<1> QED
  BY <1>1, QuietStep DEF Stays

LEMMA ManifestRecheckKeeps ==
  ASSUME ResolverInv, NEW c \in Calls, Recheck(c, "manifestLocked", "closure", "manifestFetch", "manifestRead")
  PROVE  ResolverInv'
<1>1. call[c].pc = "manifestLocked" /\ ~At(c, "importPublish") /\ UNCHANGED <<store, staged, downloads, repeated>>
  BY DEF Recheck, At
<1>2. call[c].after \in {"import", "promote"} /\ call[c].pc \in Locked /\ <<Pair(c), c>> \in lock
  <2>1. call[c].pc \in Locked
    BY <1>1 DEF Locked
  <2> QED BY <1>1, <2>1, KnownAfter DEF ManifestSteps, ResolverInv, CallOK, Held
<1>3. CASE Hash(c) \in objects
  <2>1. Unlock(c) /\ Goto(c, "closure")
    BY <1>3 DEF Recheck
  <2>2. Shape' /\ Only(c) /\ call'[c].pc = "closure" /\ Stays(c)
    BY <2>1, Going DEF ResolverInv
  <2>3. call'[c].pc \notin FileSteps \cup ImportSteps \cup Locked \cup {"manifestFetch", "importFetch"}
    BY <2>2 DEF FileSteps, ImportSteps, Locked
  <2>4. CallOK(c)'
    BY <1>2, <2>2, <2>3 DEF CallOK, FilesKnown, Held, Fetching, Stays
  <2> QED BY <1>1, <2>1, <2>2, <2>4, LockGiven DEF Stays
<1>4. CASE Hash(c) \notin objects
  <2>1. PICK p \in {"manifestFetch", "manifestRead"} : Goto(c, p) /\ (NeedsDownload(c) \/ p = "manifestRead")
    BY <1>4, Zenon DEF Recheck
  <2>2. UNCHANGED <<store, staging>>
    BY <1>1, <1>4 DEF Recheck, staging
  <2>3. call'[c].pc = p /\ Stays(c)
    BY <2>1, Going DEF ResolverInv
  <2>4. Pair(c)' = Pair(c) /\ lock' = lock /\ downloads' = downloads
    BY <2>2, <2>3, SamePlaces DEF Stays, staging
  <2>5. call'[c].pc \notin FileSteps \cup ImportSteps
    BY <2>3 DEF FileSteps, ImportSteps
  <2>6. call'[c].pc \in {"manifestFetch", "importFetch"} => Pair(c) \notin downloads
    BY <1>1, <1>2, <1>4, <2>1, <2>3, NotDownloaded
  <2>7. CallOK(c)'
    BY <1>2, <2>3, <2>4, <2>5, <2>6 DEF CallOK, FilesKnown, Held, Fetching, Stays
  <2> QED BY <1>1, <2>1, <2>2, <2>7, UnderLock
<1> QED
  BY <1>3, <1>4

LEMMA ImportRecheckKeeps ==
  ASSUME ResolverInv, NEW c \in Calls, Recheck(c, "importLocked", "promote", "importFetch", "importTake")
  PROVE  ResolverInv'
<1>1. call[c].pc = "importLocked" /\ ~At(c, "importPublish") /\ UNCHANGED <<store, staged, downloads, repeated>>
  BY DEF Recheck, At
<1>2. /\ Manifest(c) \subseteq files /\ call[c].after \in {"import", "promote"}
      /\ call[c].pc \in Locked /\ <<Pair(c), c>> \in lock
  <2>1. call[c].pc \in Locked /\ call[c].pc \in ImportSteps
    BY <1>1 DEF Locked, ImportSteps
  <2> QED BY <2>1 DEF ResolverInv, CallOK, Held, FilesKnown
<1>3. CASE Hash(c) \in objects
  <2>1. Unlock(c) /\ Goto(c, "promote")
    BY <1>3 DEF Recheck
  <2>2. Shape' /\ Only(c) /\ call'[c].pc = "promote" /\ Stays(c)
    BY <2>1, Going DEF ResolverInv
  <2>3. call'[c].pc \notin {"source", "closure", "manifestFetch", "importFetch"} \cup ManifestSteps \cup FileSteps \cup ImportSteps \cup Locked
    BY <2>2 DEF FileSteps, ImportSteps, Locked, ManifestSteps
  <2>4. CallOK(c)'
    BY <2>3 DEF CallOK, FilesKnown, Held, Fetching
  <2> QED BY <1>1, <2>1, <2>2, <2>4, LockGiven DEF Stays
<1>4. CASE Hash(c) \notin objects
  <2>1. PICK p \in {"importFetch", "importTake"} : Goto(c, p) /\ (NeedsDownload(c) \/ p = "importTake")
    BY <1>4, Zenon DEF Recheck
  <2>2. UNCHANGED <<store, staging>>
    BY <1>1, <1>4 DEF Recheck, staging
  <2>3. call'[c].pc = p /\ Stays(c)
    BY <2>1, Going DEF ResolverInv
  <2>4. Pair(c)' = Pair(c) /\ Manifest(c)' = Manifest(c) /\ lock' = lock /\ downloads' = downloads /\ files' = files
    BY <2>2, <2>3, SamePlaces DEF Stays, staging, store
  <2>5. call'[c].pc \notin FileSteps
    BY <2>3 DEF FileSteps
  <2>6. call'[c].pc \in {"manifestFetch", "importFetch"} => Pair(c) \notin downloads
    BY <1>1, <1>2, <1>4, <2>1, <2>3, NotDownloaded
  <2>7. CallOK(c)'
    BY <1>2, <2>3, <2>4, <2>5, <2>6 DEF CallOK, FilesKnown, Held, Fetching, Stays
  <2> QED BY <1>1, <2>1, <2>2, <2>7, UnderLock
<1> QED
  BY <1>3, <1>4

\* A download under the lock is the first one of its pair.
LEMMA FirstDownload ==
  ASSUME ResolverInv, NEW c \in Calls, call[c].pc \in {"manifestFetch", "importFetch"}, NEW p, Goto(c, p),
         staged' = staged \cup {Pair(c)}, downloads' = downloads \cup {Pair(c)},
         repeated' = repeated \cup ({Pair(c)} \cap downloads), UNCHANGED lock, UNCHANGED store, CallOK(c)'
  PROVE  ResolverInv'
<1>1. Shape' /\ Only(c) /\ call'[c].pc = p /\ Stays(c)
  BY Going DEF ResolverInv
<1>2. call[c].pc \in Locked /\ ~At(c, "importPublish")
  BY DEF Locked, At
<1>3. <<Pair(c), c>> \in lock /\ Pair(c) \notin downloads
  BY <1>2 DEF ResolverInv, CallOK, Held, Fetching
<1>4. DownloadedOnce'
  BY <1>3 DEF ResolverInv, DownloadedOnce
<1>5. objects' = objects
  BY DEF store
<1>6. Accounted'
  BY <1>1, <1>2, <1>5, PublishingKept DEF ResolverInv, Accounted
<1>7. ASSUME NEW d \in Calls, d # c PROVE Fetching(d)'
  <2>1. call'[d] = call[d] /\ CallOK(d)
    BY <1>1, <1>7 DEF Only, ResolverInv
  <2>2. Pair(d)' = Pair(d)
    BY <2>1, SamePlaces
  <2> SUFFICES ASSUME call[d].pc \in {"manifestFetch", "importFetch"}
               PROVE  Pair(d) \notin downloads'
    BY <2>1, <2>2 DEF Fetching
  <2>3. Pair(d) # Pair(c)
    <3>1. call[d].pc \in Locked
      BY DEF Locked
    <3> QED BY <1>3, <1>7, <3>1, HoldersApart
  <2> QED BY <2>1, <2>3 DEF CallOK, Fetching
<1>8. OneHolder' /\ \A l \in lock : l # <<Pair(c), c>> => l \in lock'
  BY DEF ResolverInv, OneHolder
<1> QED
  BY <1>1, <1>4, <1>6, <1>7, <1>8, StagingStep DEF Stays

\* A failed download gives the lock back and leaves the rest to the next source.
LEMMA DownloadFails ==
  ASSUME ResolverInv, NEW c \in Calls, call[c].pc \in {"manifestFetch", "importFetch"}, NextSource(c), Unlock(c),
         UNCHANGED <<store, staged, downloads, repeated>>
  PROVE  ResolverInv'
<1>1. call[c].after \in {"import", "promote"} /\ ~At(c, "importPublish")
  BY KnownAfter DEF ManifestSteps, ImportSteps, At
<1>2. /\ Shape' /\ Only(c) /\ call'[c].pc = "source" /\ call'[c].report = call[c].report
      /\ call'[c].after = call[c].after
  BY Sourcing DEF ResolverInv
<1>3. call'[c].pc \notin FileSteps \cup ImportSteps \cup Locked \cup {"manifestFetch", "importFetch"}
  BY <1>2 DEF FileSteps, ImportSteps, Locked
<1>4. CallOK(c)'
  BY <1>1, <1>2, <1>3 DEF CallOK, FilesKnown, Held, Fetching
<1> QED
  BY <1>1, <1>2, <1>4, LockGiven

LEMMA ManifestDownloadKeeps ==
  ASSUME ResolverInv, NEW c \in Calls, Download(c, "manifestFetch", "manifestRead")
  PROVE  ResolverInv'
<1>1. call[c].pc = "manifestFetch" /\ UNCHANGED store
  BY DEF Download, At, store
<1>2. call[c].pc \in {"manifestFetch", "importFetch"} /\ call[c].pc \in Locked /\ call[c].after \in {"import", "promote"}
  BY <1>1, KnownAfter DEF Locked, ManifestSteps
<1>3. CASE /\ staged' = staged \cup {Pair(c)} /\ downloads' = downloads \cup {Pair(c)}
           /\ repeated' = repeated \cup ({Pair(c)} \cap downloads)
           /\ Goto(c, "manifestRead") /\ UNCHANGED lock
  <2>1. call'[c].pc = "manifestRead" /\ Stays(c)
    BY <1>3, Going DEF ResolverInv
  <2>2. Pair(c)' = Pair(c) /\ <<Pair(c), c>> \in lock'
    BY <1>2, <1>3, <2>1, SamePlaces DEF Stays, ResolverInv, CallOK, Held
  <2>3. call'[c].pc \notin FileSteps \cup ImportSteps \cup {"manifestFetch", "importFetch"}
    BY <2>1 DEF FileSteps, ImportSteps
  <2>4. CallOK(c)'
    BY <1>2, <2>1, <2>2, <2>3 DEF CallOK, FilesKnown, Held, Fetching, Stays
  <2> QED BY <1>1, <1>2, <1>3, <2>4, FirstDownload
<1>4. CASE Unlock(c) /\ NextSource(c) /\ UNCHANGED <<staged, downloads, repeated>>
  BY <1>1, <1>2, <1>4, DownloadFails
<1> QED
  BY <1>3, <1>4, Zenon DEF Download

LEMMA ImportDownloadKeeps ==
  ASSUME ResolverInv, NEW c \in Calls, Download(c, "importFetch", "importTake")
  PROVE  ResolverInv'
<1>1. call[c].pc = "importFetch" /\ UNCHANGED store
  BY DEF Download, At, store
<1>2. /\ call[c].pc \in {"manifestFetch", "importFetch"} /\ call[c].pc \in Locked /\ call[c].after \in {"import", "promote"}
      /\ Manifest(c) \subseteq files
  BY <1>1, KnownAfter DEF Locked, ImportSteps, ResolverInv, CallOK, FilesKnown
<1>3. CASE /\ staged' = staged \cup {Pair(c)} /\ downloads' = downloads \cup {Pair(c)}
           /\ repeated' = repeated \cup ({Pair(c)} \cap downloads)
           /\ Goto(c, "importTake") /\ UNCHANGED lock
  <2>1. call'[c].pc = "importTake" /\ Stays(c)
    BY <1>3, Going DEF ResolverInv
  <2>2. Pair(c)' = Pair(c) /\ Manifest(c)' = Manifest(c) /\ <<Pair(c), c>> \in lock' /\ files' = files
    BY <1>1, <1>2, <1>3, <2>1, SamePlaces DEF Stays, ResolverInv, CallOK, Held, store
  <2>3. call'[c].pc \notin FileSteps \cup {"manifestFetch", "importFetch"}
    BY <2>1 DEF FileSteps
  <2>4. CallOK(c)'
    BY <1>2, <2>1, <2>2, <2>3 DEF CallOK, FilesKnown, Held, Fetching, Stays
  <2> QED BY <1>1, <1>2, <1>3, <2>4, FirstDownload
<1>4. CASE Unlock(c) /\ NextSource(c) /\ UNCHANGED <<staged, downloads, repeated>>
  BY <1>1, <1>2, <1>4, DownloadFails
<1> QED
  BY <1>3, <1>4, Zenon DEF Download

LEMMA ManifestReadKeeps ==
  ASSUME ResolverInv, NEW c \in Calls, At(c, "manifestRead"), Unlock(c), Goto(c, "closure"),
         UNCHANGED <<store, staged, downloads, repeated>>
  PROVE  ResolverInv'
<1>1. call[c].after \in {"import", "promote"} /\ ~At(c, "importPublish")
  BY KnownAfter DEF ManifestSteps, At
<1>2. Shape' /\ Only(c) /\ call'[c].pc = "closure" /\ Stays(c)
  BY Going DEF ResolverInv
<1>3. call'[c].pc \notin FileSteps \cup ImportSteps \cup Locked \cup {"manifestFetch", "importFetch"}
  BY <1>2 DEF FileSteps, ImportSteps, Locked
<1>4. CallOK(c)'
  BY <1>1, <1>2, <1>3 DEF CallOK, FilesKnown, Held, Fetching, Stays
<1> QED
  BY <1>1, <1>2, <1>4, LockGiven DEF Stays

LEMMA ObjectManifestKeeps ==
  ASSUME ResolverInv, NEW c \in Calls, ObjectManifest(c)
  PROVE  ResolverInv'
  BY ManifestBeginKeeps, ManifestLockKeeps, ManifestRecheckKeeps, ManifestDownloadKeeps, ManifestReadKeeps
     DEF ObjectManifest

\* The staged download leaves the staging area in the hands of its publisher.
LEMMA TakeStagedKeeps ==
  ASSUME ResolverInv, NEW c \in Calls, TakeStaged(c)
  PROVE  ResolverInv'
<1>1. /\ call[c].pc = "importTake" /\ staged' = staged \ {Pair(c)} /\ Goto(c, "importPublish")
      /\ UNCHANGED <<store, lock, downloads, repeated>>
  BY DEF TakeStaged, At
<1>2. /\ call[c].pc \in Locked /\ ~At(c, "importPublish") /\ Manifest(c) \subseteq files
      /\ call[c].after \in {"import", "promote"}
  BY <1>1, KnownAfter DEF Locked, At, ImportSteps, ResolverInv, CallOK, FilesKnown
<1>3. Shape' /\ Only(c) /\ call'[c].pc = "importPublish" /\ Stays(c)
  BY <1>1, Going DEF ResolverInv
<1>4. /\ Pair(c)' = Pair(c) /\ Manifest(c)' = Manifest(c) /\ files' = files /\ objects' = objects
      /\ <<Pair(c), c>> \in lock'
  BY <1>1, <1>2, <1>3, SamePlaces DEF Stays, store, ResolverInv, CallOK, Held
<1>5. call'[c].pc \notin FileSteps \cup {"manifestFetch", "importFetch"}
  BY <1>3 DEF FileSteps
<1>6. CallOK(c)'
  BY <1>2, <1>3, <1>4, <1>5 DEF CallOK, FilesKnown, Held, Fetching, Stays
<1>7. Publishing(Pair(c))'
  <2>1. At(c, "importPublish")' /\ Pair(c)' = Pair(c)
    BY <1>3, <1>4 DEF At
  <2>2. \E d \in Calls : At(d, "importPublish")' /\ Pair(d)' = Pair(c)
    BY <2>1
  <2> QED BY <1>4, <2>2 DEF Publishing
<1>8. Accounted'
  <2> SUFFICES ASSUME NEW p \in downloads PROVE p \in staged' \/ p[2] \in objects \/ Publishing(p)'
    BY <1>1, <1>4 DEF Accounted
  <2>1. CASE p = Pair(c)
    BY <1>4, <1>7, <2>1 DEF Publishing
  <2>2. CASE p # Pair(c)
    BY <1>1, <1>2, <1>3, <2>2, PublishingKept DEF ResolverInv, Accounted
  <2> QED BY <2>1, <2>2
<1>9. DownloadedOnce' /\ OneHolder'
  BY <1>1 DEF ResolverInv, DownloadedOnce, OneHolder
<1>10. \A d \in Calls : d # c => Fetching(d)'
  BY <1>1, <1>3, FetchingKept
<1> QED
  BY <1>1, <1>3, <1>6, <1>8, <1>9, <1>10, StagingStep DEF Stays

----------------------------------------------------------------------------
(* The steps that publish objects.                                         *)

\* The object whose files are all there is published and its call goes on.
LEMMA ObjectPublished ==
  ASSUME ResolverInv, NEW c \in Calls, call[c].pc \in ImportSteps, objects' = objects \cup {Hash(c)},
         Goto(c, "promote"), UNCHANGED <<files, mapped, foreign, staged, downloads, repeated>>,
         \A l \in lock : l # <<Pair(c), c>> => l \in lock', lock' \subseteq lock
  PROVE  ResolverInv'
<1>1. Shape' /\ Only(c) /\ call'[c].pc = "promote" /\ Stays(c)
  BY Going DEF ResolverInv
<1>2. Grown /\ Manifest(c) \subseteq files
  BY DEF Grown, ResolverInv, CallOK, FilesKnown
<1>3. PublishedComplete'
  <2>1. (\A d \in Calls : \A r \in call[d].report : r.hash # None => Complete(r.hash))'
    BY <1>1, <1>2, ReportsKept DEF Stays
  <2>2. (\A m \in mapped : Complete(m[2]))'
    BY <1>2, StaysComplete DEF ResolverInv, PublishedComplete
  <2>3. \A h \in objects' \ (foreign' \cup StoredObjects) : Complete(h)'
    <3> SUFFICES ASSUME NEW h \in objects' \ (foreign' \cup StoredObjects) PROVE Complete(h)'
      OBVIOUS
    <3>1. CASE h \in objects
      BY <1>2, <3>1, StaysComplete DEF ResolverInv, PublishedComplete
    <3>2. CASE h = Hash(c)
      <4>1. h \in objects' /\ ToSet(FilesOf[h]) \subseteq files'
        BY <1>2, <3>2 DEF Manifest
      <4> QED BY <4>1 DEF Complete
    <3> QED BY <3>1, <3>2
  <2> QED BY <2>1, <2>2, <2>3 DEF PublishedComplete
<1>4. DownloadedOnce' /\ OneHolder'
  BY DEF ResolverInv, DownloadedOnce, OneHolder
<1>5. Accounted'
  <2> SUFFICES ASSUME NEW p \in downloads PROVE p \in staged \/ p[2] \in objects' \/ Publishing(p)'
    BY DEF Accounted
  <2>1. CASE p \in staged \/ p[2] \in objects
    BY <2>1
  <2>2. CASE Publishing(p)
    <3>1. PICK d \in Calls : At(d, "importPublish") /\ Pair(d) = p
      BY <2>2 DEF Publishing
    <3>2. CASE d = c
      BY <3>1, <3>2 DEF Pair
    <3>3. CASE d # c
      <4>1. call'[d] = call[d]
        BY <1>1, <3>3 DEF Only
      <4>2. At(d, "importPublish")' /\ Pair(d)' = p
        BY <3>1, <4>1, SamePlaces DEF At
      <4> QED BY <4>2 DEF Publishing
    <3> QED BY <3>2, <3>3
  <2> QED BY <2>1, <2>2 DEF ResolverInv, Accounted
<1>6. ASSUME NEW d \in Calls PROVE CallOK(d)'
  <2>1. CASE d = c
    <3>1. call'[c].pc \notin {"source", "closure", "manifestFetch", "importFetch"} \cup ManifestSteps \cup FileSteps \cup ImportSteps \cup Locked
      BY <1>1 DEF ManifestSteps, FileSteps, ImportSteps, Locked
    <3> QED BY <2>1, <3>1 DEF CallOK, FilesKnown, Held, Fetching
  <2>2. CASE d # c
    <3>1. call'[d] = call[d] /\ CallOK(d) /\ <<Pair(d), d>> # <<Pair(c), c>>
      BY <1>1, <2>2 DEF Only, ResolverInv
    <3>2. Fetching(d)'
      BY <1>1, <2>2, FetchingKept
    <3> QED BY <1>2, <3>1, <3>2, OthersKeep
  <2> QED BY <2>1, <2>2
<1> QED
  BY <1>1, <1>3, <1>4, <1>5, <1>6 DEF ResolverInv

LEMMA LocalImportKeeps ==
  ASSUME ResolverInv, NEW c \in Calls, LocalImport(c)
  PROVE  ResolverInv'
<1>1. /\ call[c].pc = "import" /\ call[c].pc \in ImportSteps /\ ~At(c, "importPublish") /\ UNCHANGED staging
      /\ UNCHANGED <<files, mapped, foreign, lock, staged, downloads, repeated>>
  BY DEF LocalImport, At, ImportSteps, staging
<1>2. CASE objects' = objects \cup {Hash(c)} /\ Goto(c, "promote")
  BY <1>1, <1>2, ObjectPublished
<1>3. CASE Fail(c) /\ UNCHANGED objects
  <2>1. Shape' /\ Only(c) /\ call'[c].pc \in Free /\ call'[c].report = call[c].report
    BY <1>3, Failing DEF Free, ResolverInv
  <2>2. UNCHANGED <<store, staging>>
    BY <1>1, <1>3 DEF store
  <2> QED BY <1>1, <2>1, <2>2, FreeStep
<1>4. CASE NextSource(c) /\ UNCHANGED objects
  <2>1. /\ Shape' /\ Only(c) /\ call'[c].pc = "source" /\ call'[c].report = call[c].report
        /\ call'[c].after = call[c].after
    BY <1>4, Sourcing DEF ResolverInv
  <2>2. UNCHANGED <<store, staging>>
    BY <1>1, <1>4 DEF store
  <2>3. CallOK(c)'
    <3>1. call'[c].pc \notin FileSteps \cup ImportSteps \cup Locked \cup {"manifestFetch", "importFetch"}
      BY <2>1 DEF FileSteps, ImportSteps, Locked
    <3>2. call'[c].after \in {"import", "promote"}
      BY <1>1, <2>1, KnownAfter
    <3> QED BY <2>1, <3>1, <3>2 DEF CallOK, FilesKnown, Held, Fetching
  <2> QED BY <1>1, <2>1, <2>2, <2>3, QuietStep
<1> QED
  BY <1>2, <1>3, <1>4, Zenon DEF LocalImport

\* A download that cannot be published is lost and no longer counted.
LEMMA PublicationFails ==
  ASSUME ResolverInv, NEW c \in Calls, call[c].pc = "importPublish", Unlock(c), NextSource(c) \/ Fail(c),
         downloads' = downloads \ {Pair(c)}, UNCHANGED <<store, staged, repeated>>
  PROVE  ResolverInv'
<1>1. call[c].after \in {"import", "promote"} /\ lock' = lock \ {<<Pair(c), c>>} /\ objects' = objects
  BY KnownAfter DEF ImportSteps, Unlock, store
<1>2. /\ Shape' /\ Only(c) /\ call'[c].report = call[c].report
      /\ call'[c].pc = "done" \/ (call'[c].pc = "source" /\ call'[c].after = call[c].after)
  BY Sourcing, Failing DEF ResolverInv
<1>3. CallOK(c)'
  <2>1. call'[c].pc \notin {"closure", "manifestFetch", "importFetch"} \cup ManifestSteps \cup FileSteps \cup ImportSteps \cup Locked
    BY <1>2 DEF ManifestSteps, FileSteps, ImportSteps, Locked
  <2> QED BY <1>1, <1>2, <2>1 DEF CallOK, FilesKnown, Held, Fetching
<1>4. Accounted'
  <2> SUFFICES ASSUME NEW p \in downloads, p # Pair(c) PROVE p \in staged \/ p[2] \in objects \/ Publishing(p)'
    BY <1>1 DEF Accounted
  <2>1. CASE Publishing(p)
    <3>1. PICK d \in Calls : At(d, "importPublish") /\ Pair(d) = p
      BY <2>1 DEF Publishing
    <3>2. call'[d] = call[d]
      BY <1>2, <3>1 DEF Only
    <3>3. At(d, "importPublish")' /\ Pair(d)' = p
      BY <3>1, <3>2, SamePlaces DEF At
    <3> QED BY <3>3 DEF Publishing
  <2> QED BY <2>1 DEF ResolverInv, Accounted
<1>5. DownloadedOnce' /\ OneHolder' /\ \A l \in lock : l # <<Pair(c), c>> => l \in lock'
  BY <1>1 DEF ResolverInv, DownloadedOnce, OneHolder
<1>6. ASSUME NEW d \in Calls, d # c PROVE Fetching(d)'
  <2>1. call'[d] = call[d] /\ CallOK(d)
    BY <1>2, <1>6 DEF Only, ResolverInv
  <2> QED BY <2>1, SamePlaces DEF CallOK, Fetching
<1> QED
  BY <1>2, <1>3, <1>4, <1>5, <1>6, StagingStep

LEMMA PublishStagedKeeps ==
  ASSUME ResolverInv, NEW c \in Calls, PublishStaged(c)
  PROVE  ResolverInv'
<1>1. /\ call[c].pc = "importPublish" /\ call[c].pc \in ImportSteps /\ Unlock(c)
      /\ lock' = lock \ {<<Pair(c), c>>} /\ UNCHANGED <<files, mapped, foreign, staged, repeated>>
  BY DEF PublishStaged, At, ImportSteps, Unlock
<1>2. (\A l \in lock : l # <<Pair(c), c>> => l \in lock') /\ lock' \subseteq lock
  BY <1>1
<1>3. CASE objects' = objects \cup {Hash(c)} /\ Goto(c, "promote") /\ UNCHANGED downloads
  BY <1>1, <1>2, <1>3, ObjectPublished
<1>4. CASE (NextSource(c) \/ Fail(c)) /\ downloads' = downloads \ {Pair(c)} /\ UNCHANGED objects
  <2>1. UNCHANGED store
    BY <1>1, <1>4 DEF store
  <2> QED BY <1>1, <1>4, <2>1, PublicationFails
<1> QED
  BY <1>3, <1>4, Zenon DEF PublishStaged

LEMMA ImportObjectKeeps ==
  ASSUME ResolverInv, NEW c \in Calls, ImportObject(c)
  PROVE  ResolverInv'
  BY ImportBeginKeeps, ImportLockKeeps, ImportRecheckKeeps, ImportDownloadKeeps, TakeStagedKeeps, PublishStagedKeeps
     DEF ImportObject

LEMMA OtherWriterKeeps ==
  ASSUME ResolverInv, OtherWriter
  PROVE  ResolverInv'
<1>1. PICK h : objects' = objects \cup {h} /\ foreign' = foreign \cup {h}
  BY DEF OtherWriter
<1>2. UNCHANGED <<files, mapped, lock, staged, downloads, repeated, call>>
  BY DEF OtherWriter, staging
<1>3. Grown
  BY <1>1, <1>2 DEF Grown
<1>4. PublishedComplete'
  BY <1>1, <1>2, <1>3, StaysComplete DEF ResolverInv, PublishedComplete
<1>5. \A c : Pair(c)' = Pair(c) /\ Manifest(c)' = Manifest(c)
  BY <1>2 DEF Pair, Hash, Group, Manifest
<1>6. Accounted'
  BY <1>1, <1>2, <1>5 DEF ResolverInv, Accounted, Publishing, At
<1>7. Shape' /\ DownloadedOnce' /\ OneHolder'
  BY <1>2 DEF ResolverInv, Shape, DownloadedOnce, OneHolder
<1>8. \A c \in Calls : CallOK(c)'
  BY <1>2, <1>5 DEF ResolverInv, CallOK, FilesKnown, Held, Fetching
<1> QED
  BY <1>4, <1>6, <1>7, <1>8 DEF ResolverInv

----------------------------------------------------------------------------
LEMMA ResolverInit ==
  ASSUME Init
  PROVE  ResolverInv
<1>1. /\ objects = StoredObjects /\ mapped = {} /\ lock = {} /\ downloads = {} /\ repeated = {}
      /\ call = [c \in Calls |-> Fresh]
  BY DEF Init
<1>2. Fresh.pc = "start" /\ Fresh.report = {}
  BY DEF Fresh
<1>3. DOMAIN Fresh = Fields /\ Fresh = [f \in Fields |-> Fresh[f]]
  BY DEF Fresh, Fields
<1>4. Shape
  BY <1>1, <1>3 DEF Shape
<1>5. \A c \in Calls : CallOK(c)
  BY <1>1, <1>2, FreeCall DEF Free
<1>6. PublishedComplete
  BY <1>1, <1>2 DEF PublishedComplete
<1> QED
  BY <1>1, <1>4, <1>5, <1>6 DEF ResolverInv, DownloadedOnce, OneHolder, Accounted

LEMMA ResolverStep ==
  ASSUME ResolverInv, [Next]_vars
  PROVE  ResolverInv'
<1>1. CASE UNCHANGED vars
  <2>1. UNCHANGED <<objects, files, mapped, foreign, lock, staged, downloads, repeated, call>>
    BY <1>1 DEF vars, store, staging
  <2>2. \A c : Pair(c)' = Pair(c) /\ Manifest(c)' = Manifest(c)
    BY <2>1 DEF Pair, Hash, Group, Manifest
  <2>3. \A c \in Calls : CallOK(c)'
    BY <2>1, <2>2 DEF ResolverInv, CallOK, FilesKnown, Held, Fetching
  <2>4. PublishedComplete' /\ Accounted'
    BY <2>1, <2>2 DEF ResolverInv, PublishedComplete, Complete, Accounted, Publishing, At
  <2> QED BY <2>1, <2>3, <2>4 DEF ResolverInv, Shape, DownloadedOnce, OneHolder
<1>2. ASSUME NEW c \in Calls, Step(c) PROVE ResolverInv'
  <2>1. CASE Start(c) \/ MapperAnswers(c) \/ CollectAnswers(c) \/ Plan(c)
    BY <2>1, StartKeeps, MapperAnswersKeeps, CollectAnswersKeeps, PlanKeeps
  <2>2. CASE CollectLocated(c) \/ ResolveGroup(c) \/ AcquireCandidate(c) \/ TrySource(c) \/ Promote(c)
    BY <2>2, CollectLocatedKeeps, ResolveGroupKeeps, AcquireCandidateKeeps, TrySourceKeeps, PromoteKeeps
  <2>3. CASE LocalManifest(c) \/ ObjectManifest(c) \/ Closure(c) \/ CollectFiles(c) \/ TryFileSource(c)
    BY <2>3, LocalManifestKeeps, ObjectManifestKeeps, ClosureKeeps, CollectFilesKeeps, TryFileSourceKeeps
  <2>4. CASE CopyFile(c) \/ FetchBatch(c) \/ PublishFile(c) \/ LocalImport(c) \/ ImportObject(c)
    BY <2>4, CopyFileKeeps, FetchBatchKeeps, PublishFileKeeps, LocalImportKeeps, ImportObjectKeeps
  <2> QED BY <1>2, <2>1, <2>2, <2>3, <2>4 DEF Step
<1> QED
  BY <1>1, <1>2, OtherWriterKeeps DEF Next

\* Whatever the providers answer, wherever lookups and downloads fail, and
\* whatever other writers bring meanwhile: the resolver publishes and reports
\* complete content only, and downloads an object from a source again only when
\* the download before could not be published
\* (acquire_candidate, ensure_manifest_closure, ensure_staged_locked).
THEOREM AcquiresWhole == Spec => []AcquiredWhole
<1>1. Init => ResolverInv
  BY ResolverInit
<1>2. ResolverInv /\ [Next]_vars => ResolverInv'
  BY ResolverStep
<1>3. ResolverInv => AcquiredWhole
  BY DEF ResolverInv, AcquiredWhole
<1> QED
  BY <1>1, <1>2, <1>3, PTL DEF Spec
=============================================================================
