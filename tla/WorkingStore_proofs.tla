------------------------- MODULE WorkingStore_proofs -------------------------
(***************************************************************************)
(* Proofs about the working store, for any number of writers, any scripts  *)
(* of operations, any contents and any number of crashes: what is on disk  *)
(* is consistent after every step, nothing is lost, and the store          *)
(* implements the abstract content store.                                  *)
(*                                                                         *)
(* The inductive invariant says, of every writer in the middle of an       *)
(* operation, what the steps it has taken are worth now: content it has    *)
(* seen complete is complete still, a record it has seen is still there,   *)
(* a hash it has verified agrees.  This survives the other writers because *)
(* the store only grows (Grows), and it is what the writer needs when it   *)
(* makes the content visible under a name.                                 *)
(*                                                                         *)
(* The second half is about the trees materialized in the store.           *)
(***************************************************************************)
EXTENDS WorkingStore, TreeStore, TLAPS

----------------------------------------------------------------------------
(* The inductive invariant.                                                *)

\* From which step on an operation knows that its subject is complete, and
\* that it has a record; and where update_object_ref starts.
CompleteFrom ==
  [op \in OpKinds |-> CASE op = "build" -> 4 [] op = "source" -> 5 [] op = "sourceHit" -> 3
                        [] op = "copy" -> 6 [] OTHER -> 2]
RecordedFrom ==
  [op \in OpKinds |-> CASE op = "existing" -> 4 [] op = "sourceHit" -> 4
                        [] op = "mapping" -> 3 [] op = "reuseMapping" -> 3 [] OTHER -> 6]
RefFrom ==
  [op \in OpKinds |-> CASE op = "build" -> 8 [] op = "existing" -> 6 [] op = "source" -> 7
                        [] op = "sourceHit" -> 5 [] OTHER -> 12]

Generations == [gen : [name : RefNames, n : Nat], target : Hashes]

DiskType ==
  /\ objects \in [Hashes -> Hashes \cup {None}]
  /\ files \subseteq FsFiles
  /\ records \in [Hashes -> BuildKeys \cup {None}]
  /\ builds \in [BuildKeys -> Hashes \cup {None}]
  /\ reuses \in [ReuseKeys -> Hashes \cup {None}]
  /\ refs \in [RefNames -> Hashes \cup {None}]
  /\ history \subseteq Generations
  /\ hidden \in [Writers -> Hashes \cup {None}]
  /\ litter \subseteq [by : Writers, n : Nat, content : Hashes]
  /\ serials \in [Writers -> Nat]
ControlType ==
  /\ idx \in [Writers -> Nat \ {0}]
  /\ pos \in [Writers -> Nat \ {0}]
  /\ todo \in [Writers -> SUBSET ReuseKeys]
  /\ seen \in [Writers -> [target : Hashes \cup {None}, n : Nat]]
  /\ crashes \in Nat
TypeInv == DiskType /\ ControlType

\* What having come to step p is worth to the writer.
Knows(w, p) ==
  /\ Op(w).op = "build" /\ p >= 2 => FilesOf[Op(w).hash] \subseteq files
  /\ p >= CompleteFrom[Op(w).op] => Complete(Subject(w))
  /\ p >= RecordedFrom[Op(w).op] => records[Subject(w)] # None
  /\ Op(w).op \in {"source", "copy"} /\ p >= 4 => Op(w).hash = Op(w).want
SeenInv(w) ==
  /\ Op(w).op # "copy" /\ seen[w].target # None => Complete(seen[w].target)
  /\ pos[w] \in {RefFrom[Op(w).op] + 1, RefFrom[Op(w).op] + 2} => seen[w].target # None
WriterInv(w) ==
  Running(w) => pos[w] <= Len(Steps[Op(w).op]) /\ Knows(w, pos[w]) /\ SeenInv(w)

Inv ==
  /\ TypeInv
  /\ \A w \in Writers : WriterInv(w)
  /\ StoreConsistent

\* The operations that end with update_object_ref.
Naming == {"build", "existing", "source", "sourceHit"}

\* A writer that is updating a ref no two updates have met at knows the ref,
\* the generation it is going to rotate to is free, and what it is going to
\* replace has been rotated.
RefInv(w) ==
  Running(w) /\ Op(w).name \notin raced =>
    /\ pos[w] > RefFrom[Op(w).op] => refs[Op(w).name] = seen[w].target
    /\ At(w, "rotate") => ~Taken(Generation(w, seen[w].n))
    /\ At(w, "replace") /\ seen[w].target # None =>
         \E e \in history : e.gen.name = Op(w).name /\ e.target = seen[w].target

----------------------------------------------------------------------------
(* The operations, step by step.                                           *)

\* How many steps each operation has.
LEMMA Lengths ==
  /\ Len(Steps["build"]) = 11 /\ Len(Steps["existing"]) = 9 /\ Len(Steps["mapping"]) = 3
  /\ Len(Steps["reuseMapping"]) = 4 /\ Len(Steps["source"]) = 10
  /\ Len(Steps["sourceHit"]) = 8 /\ Len(Steps["copy"]) = 5
BY DEF Steps, OpKinds

LEMMA StepsNonempty == \A op \in OpKinds : 1 <= Len(Steps[op])
<1> SUFFICES ASSUME NEW op \in OpKinds PROVE 1 <= Len(Steps[op])
  OBVIOUS
<1>1. CASE op = "build"  BY <1>1, Lengths
<1>2. CASE op = "existing"  BY <1>2, Lengths
<1>3. CASE op = "mapping"  BY <1>3, Lengths
<1>4. CASE op = "reuseMapping"  BY <1>4, Lengths
<1>5. CASE op = "source"  BY <1>5, Lengths
<1>6. CASE op = "sourceHit"  BY <1>6, Lengths
<1>7. CASE op = "copy"  BY <1>7, Lengths
<1> QED  BY <1>1, <1>2, <1>3, <1>4, <1>5, <1>6, <1>7 DEF OpKinds

\* Where a step occurs.
Places(op, p, s) ==
  /\ s = "intern" => op = "build" /\ p = 1
  /\ s = "import" => \/ (op = "build" /\ p = 2)
                     \/ (op = "source" /\ p = 1)
                     \/ (op = "copy" /\ p = 4)
  /\ s = "publish" => \/ (op = "build" /\ p = 3)
                      \/ (op = "source" /\ p = 2)
                      \/ (op = "copy" /\ p = 5)
  /\ s = "record" => \/ (op = "build" /\ p = 4)
                     \/ (op = "existing" /\ p = 2)
                     \/ (op = "mapping" /\ p = 1)
                     \/ (op = "reuseMapping" /\ p = 1)
                     \/ (op = "source" /\ p = 4)
                     \/ (op = "sourceHit" /\ p = 2)
  /\ s = "write" => \/ (op = "build" /\ p = 5)
                    \/ (op = "existing" /\ p = 3)
                    \/ (op = "mapping" /\ p = 2)
                    \/ (op = "reuseMapping" /\ p = 2)
                    \/ (op = "source" /\ p = 5)
                    \/ (op = "sourceHit" /\ p = 3)
  /\ s = "reuse" => \/ (op = "build" /\ p = 6)
                    \/ (op = "existing" /\ p = 4)
                    \/ (op = "reuseMapping" /\ p = 3)
  /\ s = "map" => \/ (op = "build" /\ p = 7)
                  \/ (op = "existing" /\ p = 5)
                  \/ (op = "mapping" /\ p = 3)
                  \/ (op = "reuseMapping" /\ p = 4)
                  \/ (op = "source" /\ p = 6)
                  \/ (op = "sourceHit" /\ p = 4)
  /\ s = "check" => op = "existing" /\ p = 1
  /\ s = "verify" => op = "source" /\ p = 3
  /\ s = "present" => op = "sourceHit" /\ p = 1
  /\ s = "lookup" => op = "copy" /\ p = 1
  /\ s = "fetch" => op = "copy" /\ p = 2
  /\ s = "expect" => op = "copy" /\ p = 3
\* Where the steps of update_object_ref occur, and only there.
RefPlaces(op, p, s) ==
  /\ s \in {"read", "alloc", "rotate", "replace"} => op \in Naming
  /\ s = "read" <=> p = RefFrom[op]
  /\ s = "alloc" <=> p = RefFrom[op] + 1
  /\ s = "rotate" <=> p = RefFrom[op] + 2
  /\ s = "replace" <=> p = RefFrom[op] + 3
  /\ op \in Naming => Len(Steps[op]) = RefFrom[op] + 3

LEMMA Table ==
  ASSUME NEW op \in OpKinds, NEW p \in Nat \ {0}, p <= Len(Steps[op])
  PROVE  Places(op, p, Steps[op][p]) /\ RefPlaces(op, p, Steps[op][p])
<1>0. /\ RefFrom["build"] = 8 /\ RefFrom["existing"] = 6
      /\ RefFrom["source"] = 7 /\ RefFrom["sourceHit"] = 5
      /\ RefFrom["mapping"] = 12 /\ RefFrom["reuseMapping"] = 12 /\ RefFrom["copy"] = 12
  BY DEF RefFrom, OpKinds
<1>1. CASE op = "build"
  <2>1. Steps["build"] = <<"intern", "import", "publish", "record", "write", "reuse", "map",
                        "read", "alloc", "rotate", "replace">>
    BY DEF Steps, OpKinds
  <2>2. p \in 1..11
    BY <1>1, <2>1
  <2>3. Places("build", p, Steps["build"][p])
    BY <2>1, <2>2 DEF Places
  <2>4. RefPlaces("build", p, Steps["build"][p])
    BY <1>0, <2>1, <2>2 DEF RefPlaces, Naming
  <2> QED  BY <1>1, <2>3, <2>4
<1>2. CASE op = "existing"
  <2>1. Steps["existing"] = <<"check", "record", "write", "reuse", "map",
                        "read", "alloc", "rotate", "replace">>
    BY DEF Steps, OpKinds
  <2>2. p \in 1..9
    BY <1>2, <2>1
  <2>3. Places("existing", p, Steps["existing"][p])
    BY <2>1, <2>2 DEF Places
  <2>4. RefPlaces("existing", p, Steps["existing"][p])
    BY <1>0, <2>1, <2>2 DEF RefPlaces, Naming
  <2> QED  BY <1>2, <2>3, <2>4
<1>3. CASE op = "mapping"
  <2>1. Steps["mapping"] = <<"record", "write", "map">>
    BY DEF Steps, OpKinds
  <2>2. p \in 1..3
    BY <1>3, <2>1
  <2>3. Places("mapping", p, Steps["mapping"][p])
    BY <2>1, <2>2 DEF Places
  <2>4. RefPlaces("mapping", p, Steps["mapping"][p])
    BY <1>0, <2>1, <2>2 DEF RefPlaces, Naming
  <2> QED  BY <1>3, <2>3, <2>4
<1>4. CASE op = "reuseMapping"
  <2>1. Steps["reuseMapping"] = <<"record", "write", "reuse", "map">>
    BY DEF Steps, OpKinds
  <2>2. p \in 1..4
    BY <1>4, <2>1
  <2>3. Places("reuseMapping", p, Steps["reuseMapping"][p])
    BY <2>1, <2>2 DEF Places
  <2>4. RefPlaces("reuseMapping", p, Steps["reuseMapping"][p])
    BY <1>0, <2>1, <2>2 DEF RefPlaces, Naming
  <2> QED  BY <1>4, <2>3, <2>4
<1>5. CASE op = "source"
  <2>1. Steps["source"] = <<"import", "publish", "verify", "record", "write", "map",
                        "read", "alloc", "rotate", "replace">>
    BY DEF Steps, OpKinds
  <2>2. p \in 1..10
    BY <1>5, <2>1
  <2>3. Places("source", p, Steps["source"][p])
    BY <2>1, <2>2 DEF Places
  <2>4. RefPlaces("source", p, Steps["source"][p])
    BY <1>0, <2>1, <2>2 DEF RefPlaces, Naming
  <2> QED  BY <1>5, <2>3, <2>4
<1>6. CASE op = "sourceHit"
  <2>1. Steps["sourceHit"] = <<"present", "record", "write", "map",
                        "read", "alloc", "rotate", "replace">>
    BY DEF Steps, OpKinds
  <2>2. p \in 1..8
    BY <1>6, <2>1
  <2>3. Places("sourceHit", p, Steps["sourceHit"][p])
    BY <2>1, <2>2 DEF Places
  <2>4. RefPlaces("sourceHit", p, Steps["sourceHit"][p])
    BY <1>0, <2>1, <2>2 DEF RefPlaces, Naming
  <2> QED  BY <1>6, <2>3, <2>4
<1>7. CASE op = "copy"
  <2>1. Steps["copy"] = <<"lookup", "fetch", "expect", "import", "publish">>
    BY DEF Steps, OpKinds
  <2>2. p \in 1..5
    BY <1>7, <2>1
  <2>3. Places("copy", p, Steps["copy"][p])
    BY <2>1, <2>2 DEF Places
  <2>4. RefPlaces("copy", p, Steps["copy"][p])
    BY <1>0, <2>1, <2>2 DEF RefPlaces, Naming
  <2> QED  BY <1>7, <2>3, <2>4
<1> QED  BY <1>1, <1>2, <1>3, <1>4, <1>5, <1>6, <1>7 DEF OpKinds
LEMMA OpType ==
  ASSUME TypeInv, NEW w \in Writers, Running(w)
  PROVE  /\ idx[w] \in DOMAIN Script[w] /\ Op(w) \in Ops /\ Op(w).op \in OpKinds
         /\ Op(w).hash \in Hashes /\ Op(w).want \in Hashes /\ Op(w).name \in RefNames
         /\ Op(w).reuse \subseteq ReuseKeys /\ Op(w).key \in BuildKeys
         /\ Subject(w) \in Hashes /\ Destination(w) \in Hashes /\ Key(w) \in BuildKeys
<1>1. Script[w] \in Seq(Ops) /\ idx[w] \in Nat \ {0}
  BY ScriptAssumption DEF TypeInv, ControlType
<1>2. idx[w] \in 1..Len(Script[w])
  BY <1>1 DEF Running
<1>3. idx[w] \in DOMAIN Script[w] /\ Op(w) \in Ops
  BY <1>1, <1>2 DEF Op
<1>4. /\ Op(w).op \in OpKinds /\ Op(w).hash \in Hashes /\ Op(w).want \in Hashes
      /\ Op(w).name \in RefNames /\ Op(w).reuse \subseteq ReuseKeys /\ Op(w).key \in BuildKeys
  BY <1>3 DEF Ops
<1> QED  BY <1>3, <1>4, SourceKeyAssumption DEF Subject, Destination, Key

LEMMA OpKindType == \A w \in Writers : TypeInv /\ Running(w) => Op(w).op \in OpKinds
BY OpType

LEMMA OpKindTypeNext == \A w \in Writers : TypeInv' /\ Running(w)' => (Op(w).op)' \in OpKinds
<1>1. (\A w \in Writers : TypeInv /\ Running(w) => Op(w).op \in OpKinds)'
  BY OpKindType, PTL
<1> QED  BY <1>1

LEMMA ReuseKeysType ==
  ASSUME NEW w \in Writers, NEW i
  PROVE  ReuseKeysOf(w, i) \subseteq ReuseKeys
<1>1. CASE i \in DOMAIN Script[w]
  <2>1. Script[w][i] \in Ops
    BY <1>1, ScriptAssumption
  <2> QED  BY <1>1, <2>1 DEF ReuseKeysOf, Ops
<1>2. CASE i \notin DOMAIN Script[w]
  BY <1>2 DEF ReuseKeysOf
<1> QED  BY <1>1, <1>2

\* What the step a writer is at says about its operation and its position.
LEMMA Where ==
  ASSUME TypeInv, NEW w \in Writers, WriterInv(w), Running(w)
  PROVE  /\ Places(Op(w).op, pos[w], Steps[Op(w).op][pos[w]])
         /\ RefPlaces(Op(w).op, pos[w], Steps[Op(w).op][pos[w]])
<1>1. Op(w).op \in OpKinds
  BY OpType
<1>2. pos[w] \in Nat \ {0} /\ pos[w] <= Len(Steps[Op(w).op])
  BY DEF TypeInv, ControlType, WriterInv
<1> QED  BY <1>1, <1>2, Table

----------------------------------------------------------------------------
(* How control moves.                                                      *)

\* The other writers stand still.
Moved(w) ==
  /\ ControlType'
  /\ crashes' >= crashes
  /\ failed \subseteq failed'
  /\ \A v \in Writers \ {w} : idx'[v] = idx[v] /\ pos'[v] = pos[v] /\ seen'[v] = seen[v]
\* The operation has returned.
Ended(w) == idx'[w] = idx[w] + 1 /\ pos'[w] = 1 /\ seen'[w] = NothingSeen
\* The operation has gone on.
Gone(w, n) ==
  /\ idx'[w] = idx[w] /\ pos'[w] = pos[w] + n /\ pos[w] + n <= Len(Steps[Op(w).op])
  /\ seen'[w] = seen[w]

LEMMA ReturnStep ==
  ASSUME ControlType, NEW w \in Writers, NEW ok, Return(w, ok)
  PROVE  Moved(w) /\ Ended(w) /\ (~ok => <<w, idx[w]>> \in failed')
<1>1. idx' \in [Writers -> Nat \ {0}] /\ pos' \in [Writers -> Nat \ {0}]
  BY DEF Return, ControlType
<1>2. todo' \in [Writers -> SUBSET ReuseKeys]
  BY ReuseKeysType DEF Return, ControlType
<1>3. seen' \in [Writers -> [target : Hashes \cup {None}, n : Nat]]
  BY DEF Return, ControlType, NothingSeen
<1>4. crashes' \in Nat /\ crashes' >= crashes
  BY DEF Return, ControlType
<1>5. failed \subseteq failed' /\ (~ok => <<w, idx[w]>> \in failed')
  BY DEF Return
<1>6. \A v \in Writers \ {w} : idx'[v] = idx[v] /\ pos'[v] = pos[v] /\ seen'[v] = seen[v]
  BY DEF Return, ControlType
<1>7. Ended(w)
  BY DEF Return, ControlType, Ended
<1> QED  BY <1>1, <1>2, <1>3, <1>4, <1>5, <1>6, <1>7 DEF Moved, ControlType

LEMMA AdvanceStep ==
  ASSUME ControlType, NEW w \in Writers, NEW n \in {1, 2}, Advance(w, n)
  PROVE  /\ Moved(w)
         /\ \/ Gone(w, n)
            \/ Ended(w) /\ pos[w] + n > Len(Steps[Op(w).op])
<1>1. CASE pos[w] + n > Len(Steps[Op(w).op])
  <2>1. Return(w, TRUE)
    BY <1>1 DEF Advance
  <2> QED  BY <1>1, <2>1, ReturnStep
<1>2. CASE ~(pos[w] + n > Len(Steps[Op(w).op]))
  <2>1. pos' = [pos EXCEPT ![w] = @ + n] /\ UNCHANGED <<idx, todo, seen, failed, crashes>>
    BY <1>2 DEF Advance
  <2>2. pos' \in [Writers -> Nat \ {0}] /\ pos'[w] = pos[w] + n
    BY <2>1 DEF ControlType
  <2>3. ControlType'
    BY <2>1, <2>2 DEF ControlType
  <2>4. \A v \in Writers \ {w} : idx'[v] = idx[v] /\ pos'[v] = pos[v] /\ seen'[v] = seen[v]
    BY <2>1 DEF ControlType
  <2>5. Gone(w, n)
    BY <1>2, <2>1, <2>2 DEF Gone
  <2>6. crashes' >= crashes
    BY <2>1 DEF ControlType
  <2> QED  BY <2>1, <2>3, <2>4, <2>5, <2>6 DEF Moved
<1> QED  BY <1>1, <1>2
----------------------------------------------------------------------------
(* The store only grows, so what a writer knows stays true.                *)

RecordsKept == \A h \in Hashes : records[h] # None => records'[h] # None
Grows == ContentKept /\ RecordsKept

LEMMA CompleteKept ==
  ASSUME TypeInv, ContentKept, NEW h \in Hashes, Complete(h)
  PROVE  Complete(h)'
<1>1. objects[h] \in Hashes /\ objects'[h] = objects[h]
  BY DEF TypeInv, DiskType, ContentKept, Complete, Present
<1> QED  BY <1>1 DEF Complete, Present, ContentKept

\* At the beginning of an operation there is nothing to know.
LEMMA FreshWriter ==
  ASSUME TypeInv', NEW w \in Writers, pos'[w] = 1, seen'[w] = NothingSeen
  PROVE  WriterInv(w)'
<1> SUFFICES ASSUME Running(w)'
             PROVE  WriterInv(w)'
  BY DEF WriterInv
<1>1. (Op(w).op)' \in OpKinds
  BY OpKindTypeNext
<1>2. \A op \in OpKinds : 1 <= Len(Steps[op])
  BY StepsNonempty
<1>3. \A op \in OpKinds : CompleteFrom[op] >= 2 /\ RecordedFrom[op] >= 2 /\ RefFrom[op] >= 2
  BY DEF OpKinds, CompleteFrom, RecordedFrom, RefFrom
<1>4. \A op \in OpKinds : CompleteFrom[op] \in Nat /\ RecordedFrom[op] \in Nat /\ RefFrom[op] \in Nat
  BY DEF OpKinds, CompleteFrom, RecordedFrom, RefFrom
<1>5. seen'[w].target = None
  BY DEF NothingSeen
<1> QED  BY <1>1, <1>2, <1>3, <1>4, <1>5 DEF WriterInv, Knows, SeenInv

\* A step that binds no name keeps the names bound to complete content.
LEMMA NamesKept ==
  ASSUME TypeInv, MappingsComplete, Grows, UNCHANGED <<builds, reuses, refs, history>>
  PROVE  MappingsComplete'
<1>1. Mapped \ {None} \subseteq Hashes
  BY DEF TypeInv, DiskType, Mapped, Generations
<1>2. \A h \in Mapped \ {None} : Complete(h)'
  BY <1>1, CompleteKept DEF MappingsComplete, Grows
<1>3. Mapped' = Mapped
  BY DEF Mapped
<1>4. \A k \in BuildKeys : builds[k] # None => records'[builds[k]] # None
  BY DEF MappingsComplete, TypeInv, DiskType, Grows, RecordsKept
<1>5. \A k \in ReuseKeys : reuses[k] # None => records'[reuses[k]] # None
  BY DEF MappingsComplete, TypeInv, DiskType, Grows, RecordsKept
<1> QED  BY <1>2, <1>3, <1>4, <1>5 DEF MappingsComplete
\* A writer that goes on needs what the step it comes to is worth, and may
\* take it from the state before.
LEMMA GoneWriter ==
  ASSUME TypeInv, NEW w \in Writers, Running(w), WriterInv(w), Grows, NEW n \in {1, 2}, Gone(w, n),
         Knows(w, pos[w] + n) \/ Knows(w, pos[w])',
         seen[w].target = None => pos[w] + n \notin {RefFrom[Op(w).op] + 1, RefFrom[Op(w).op] + 2}
  PROVE  WriterInv(w)'
<1>1. idx'[w] = idx[w] /\ pos'[w] = pos[w] + n /\ seen'[w] = seen[w]
  BY DEF Gone
<1>2. Op(w)' = Op(w) /\ Subject(w)' = Subject(w)
  BY <1>1 DEF Op, Subject
<1>3. pos'[w] <= Len(Steps[Op(w).op])
  BY <1>1 DEF Gone
<1>4. Subject(w) \in Hashes
  BY OpType
<1>5. Knows(w, pos[w])'
  <2>1. CASE Knows(w, pos[w])'
    BY <2>1
  <2>2. CASE Knows(w, pos[w] + n)
    <3>1. ASSUME Complete(Subject(w)) PROVE Complete(Subject(w))'
      <4>1. objects'[Subject(w)'] # None /\ FilesOf[objects'[Subject(w)']] \subseteq files'
        BY <1>2, <1>4, <3>1 DEF TypeInv, DiskType, Grows, ContentKept, Complete, Present
      <4> QED  BY <4>1 DEF Complete, Present
    <3>2. records[Subject(w)] # None => records'[Subject(w)'] # None
      BY <1>2, <1>4 DEF Grows, RecordsKept
    <3> QED  BY <1>1, <1>2, <2>2, <3>1, <3>2 DEF Knows, Grows, ContentKept
  <2> QED  BY <2>1, <2>2
<1>6. SeenInv(w)'
  <2>1. seen[w].target \in Hashes \cup {None}
    BY DEF TypeInv, ControlType
  <2>2. ASSUME Op(w).op # "copy", seen[w].target # None
        PROVE  objects'[seen'[w].target] # None /\ FilesOf[objects'[seen'[w].target]] \subseteq files'
    BY <1>1, <2>1, <2>2 DEF TypeInv, DiskType, Grows, ContentKept, WriterInv, SeenInv, Complete, Present
  <2>3. pos'[w] \in {RefFrom[Op(w).op] + 1, RefFrom[Op(w).op] + 2} => seen'[w].target # None
    BY <1>1
  <2> QED  BY <1>2, <2>2, <2>3, <1>1 DEF SeenInv, Complete, Present
<1> QED  BY <1>2, <1>3, <1>5, <1>6 DEF WriterInv

\* A writer that stands still knows what it knew.
LEMMA Standing ==
  ASSUME TypeInv, Grows, NEW v \in Writers, idx'[v] = idx[v], pos'[v] = pos[v], seen'[v] = seen[v],
         WriterInv(v)
  PROVE  WriterInv(v)'
<1>2. Op(v)' = Op(v) /\ Running(v)' = Running(v) /\ Subject(v)' = Subject(v)
  BY DEF Op, Running, Subject
<1> SUFFICES ASSUME Running(v)
             PROVE  WriterInv(v)'
  BY <1>2 DEF WriterInv
<1>3. Subject(v) \in Hashes
  BY OpType
<1>4. Complete(Subject(v)) => Complete(Subject(v))'
  <2>1. ASSUME Complete(Subject(v)) PROVE objects'[Subject(v)'] # None /\ FilesOf[objects'[Subject(v)']] \subseteq files'
    BY <1>2, <1>3, <2>1 DEF TypeInv, DiskType, Grows, ContentKept, Complete, Present
  <2> QED  BY <2>1 DEF Complete, Present
<1>5. records[Subject(v)] # None => records'[Subject(v)'] # None
  BY <1>2, <1>3 DEF Grows, RecordsKept
<1>6. seen[v].target # None /\ Complete(seen[v].target) => Complete(seen[v].target)'
  <2>1. seen[v].target \in Hashes \cup {None}
    BY DEF TypeInv, ControlType
  <2>2. ASSUME seen[v].target # None, Complete(seen[v].target)
        PROVE  objects'[seen'[v].target] # None /\ FilesOf[objects'[seen'[v].target]] \subseteq files'
    BY <2>1, <2>2 DEF TypeInv, DiskType, Grows, ContentKept, Complete, Present
  <2> QED  BY <2>2 DEF Complete, Present
<1> QED  BY <1>2, <1>4, <1>5, <1>6 DEF WriterInv, Knows, SeenInv, Grows, ContentKept

LEMMA OthersKept ==
  ASSUME TypeInv, Grows, NEW w \in Writers, Moved(w), NEW v \in Writers \ {w}, WriterInv(v)
  PROVE  WriterInv(v)'
BY Standing DEF Moved

\* What a step of one writer must show to keep the invariant.
LEMMA Settle ==
  ASSUME Inv, NEW w \in Writers, Running(w), DiskType', Moved(w), Grows, MappingsComplete',
         \A h \in Hashes : objects'[h] # None => objects'[h] = h,
         litter' = litter \/ crashes' > 0, \A l \in litter' : l \in litter \/ l.by = w,
         \A v \in Writers \ {w} : hidden'[v] = hidden[v] /\ serials'[v] = serials[v],
         \/ /\ Ended(w)
            /\ hidden'[w] = None
            /\ Op(w).op = "source" /\ Op(w).hash # Op(w).want => <<w, idx[w]>> \in failed'
         \/ /\ idx'[w] = idx[w]
            /\ WriterInv(w)'
            /\ hidden'[w] # None => At(w, "publish")' /\ ~Left(w, serials[w])'
  PROVE  Inv'
<1>1. TypeInv'
  BY DEF TypeInv, Moved
<1>2. WriterInv(w)'
  <2>1. CASE Ended(w)
    BY <1>1, <2>1, FreshWriter DEF Ended
  <2> QED  BY <2>1
<1>3. \A v \in Writers : WriterInv(v)'
  BY <1>2, OthersKept DEF Inv
<1>4. \A v \in Writers : hidden'[v] # None => At(v, "publish")' /\ ~Left(v, serials[v])'
  <2> SUFFICES ASSUME NEW v \in Writers, hidden'[v] # None PROVE At(v, "publish")' /\ ~Left(v, serials[v])'
    OBVIOUS
  <2>1. CASE v = w
    BY <2>1
  <2>2. CASE v # w
    <3>1. idx'[v] = idx[v] /\ pos'[v] = pos[v] /\ hidden[v] # None
      BY <2>2 DEF Moved
    <3>2. At(v, "publish") /\ ~Left(v, serials[v])
      BY <3>1 DEF Inv, StoreConsistent, ContentAddressed
    <3>3. At(v, "publish")'
      BY <3>1, <3>2 DEF At, Running, Op
    <3>4. ~Left(v, serials[v])'
      BY <2>2, <3>2 DEF Left
    <3> QED  BY <3>3, <3>4
  <2> QED  BY <2>1, <2>2
<1>5. litter' # {} => crashes' > 0
  BY DEF Moved, Inv, TypeInv, ControlType, StoreConsistent, ContentAddressed
<1>6. ContentAddressed'
  BY <1>4, <1>5 DEF ContentAddressed, Present
<1>7. MismatchReported'
  <2> SUFFICES ASSUME NEW v \in Writers, NEW i \in 1..(idx'[v] - 1),
                      Script[v][i].op = "source", Script[v][i].hash # Script[v][i].want
               PROVE  <<v, i>> \in failed'
    BY DEF MismatchReported
  <2>1. idx[v] \in Nat /\ idx'[v] \in Nat /\ failed \subseteq failed'
    BY DEF Inv, TypeInv, ControlType, Moved
  <2>2. CASE i \in 1..(idx[v] - 1)
    BY <2>1, <2>2 DEF Inv, StoreConsistent, MismatchReported
  <2>3. CASE i \notin 1..(idx[v] - 1)
    <3>1. v = w /\ Ended(w)
      BY <2>1, <2>3 DEF Moved
    <3>2. i = idx[w]
      BY <2>1, <2>3, <3>1 DEF Ended
    <3> QED  BY <3>1, <3>2, <2>1 DEF Op, Ended
  <2> QED  BY <2>2, <2>3
<1> QED  BY <1>1, <1>3, <1>6, <1>7 DEF Inv, StoreConsistent

\* A writer that is not publishing holds nothing under a hidden name.
LEMMA NotHidden ==
  ASSUME Inv, NEW w \in Writers, NEW s, At(w, s), s # "publish"
  PROVE  hidden[w] = None
BY DEF Inv, StoreConsistent, ContentAddressed, At

\* A step that leaves the disk alone.
LEMMA QuietStep ==
  ASSUME Inv, NEW w \in Writers, Running(w), UNCHANGED disk, Moved(w), hidden[w] = None,
         \/ Ended(w) /\ (Op(w).op = "source" /\ Op(w).hash # Op(w).want => <<w, idx[w]>> \in failed')
         \/ idx'[w] = idx[w] /\ WriterInv(w)'
  PROVE  Inv'
<1>1. DiskType'
  BY DEF Inv, TypeInv, DiskType, disk
<1>2. Grows
  BY DEF disk, Grows, ContentKept, RecordsKept
<1>3. MappingsComplete'
  BY <1>2, NamesKept DEF disk, Inv, StoreConsistent
<1>4. \A h \in Hashes : objects'[h] # None => objects'[h] = h
  BY DEF disk, Inv, StoreConsistent, ContentAddressed, Present
<1>5. hidden' = hidden /\ litter' = litter /\ serials' = serials
  BY DEF disk
<1> QED  BY <1>1, <1>2, <1>3, <1>4, <1>5, Settle
LEMMA Froms ==
  /\ CompleteFrom["build"] = 4 /\ RecordedFrom["build"] = 6 /\ RefFrom["build"] = 8
  /\ CompleteFrom["existing"] = 2 /\ RecordedFrom["existing"] = 4 /\ RefFrom["existing"] = 6
  /\ CompleteFrom["mapping"] = 2 /\ RecordedFrom["mapping"] = 3 /\ RefFrom["mapping"] = 12
  /\ CompleteFrom["reuseMapping"] = 2 /\ RecordedFrom["reuseMapping"] = 3
  /\ RefFrom["reuseMapping"] = 12
  /\ CompleteFrom["source"] = 5 /\ RecordedFrom["source"] = 6 /\ RefFrom["source"] = 7
  /\ CompleteFrom["sourceHit"] = 3 /\ RecordedFrom["sourceHit"] = 4 /\ RefFrom["sourceHit"] = 5
  /\ CompleteFrom["copy"] = 6 /\ RecordedFrom["copy"] = 6 /\ RefFrom["copy"] = 12
BY DEF CompleteFrom, RecordedFrom, RefFrom, OpKinds

LEMMA QuietReturn ==
  ASSUME Inv, NEW w \in Writers, NEW s, At(w, s), hidden[w] = None, UNCHANGED disk, NEW ok \in BOOLEAN,
         Return(w, ok), ok => Op(w).op # "source" \/ Op(w).hash = Op(w).want
  PROVE  Inv'
<1>1. Running(w) /\ ControlType
  BY DEF At, Inv, TypeInv
<1>2. Moved(w) /\ Ended(w) /\ (~ok => <<w, idx[w]>> \in failed')
  BY <1>1, ReturnStep
<1> QED  BY <1>1, <1>2, QuietStep

LEMMA QuietAdvance ==
  ASSUME Inv, NEW w \in Writers, NEW s, At(w, s), hidden[w] = None, UNCHANGED disk, NEW n \in {1, 2},
         Advance(w, n), Op(w).op = "source" => pos[w] + n <= 10,
         \/ pos[w] + n > Len(Steps[Op(w).op])
         \/ Knows(w, pos[w] + n) /\ pos[w] + n <= RefFrom[Op(w).op]
  PROVE  Inv'
<1>1. Running(w) /\ ControlType /\ TypeInv /\ WriterInv(w)
  BY DEF At, Inv, TypeInv
<1>2. Moved(w) /\ (Gone(w, n) \/ (Ended(w) /\ pos[w] + n > Len(Steps[Op(w).op])))
  BY <1>1, AdvanceStep
<1>3. Op(w).op \in OpKinds /\ pos[w] \in Nat
  BY <1>1, OpType DEF ControlType
<1>4. CASE Gone(w, n)
  <2>1. Len(Steps[Op(w).op]) \in Nat /\ RefFrom[Op(w).op] \in Nat
    BY <1>3, Froms, Lengths DEF OpKinds
  <2>2. Knows(w, pos[w] + n) /\ pos[w] + n <= RefFrom[Op(w).op]
    BY <1>3, <1>4, <2>1 DEF Gone
  <2>3. pos[w] + n \notin {RefFrom[Op(w).op] + 1, RefFrom[Op(w).op] + 2}
    BY <1>3, <2>1, <2>2
  <2>4. Grows
    BY DEF disk, Grows, ContentKept, RecordsKept
  <2>5. WriterInv(w)'
    BY <1>1, <1>4, <2>2, <2>3, <2>4, GoneWriter
  <2> QED  BY <1>1, <1>2, <1>4, <2>5, QuietStep DEF Gone
<1>5. CASE Ended(w) /\ pos[w] + n > Len(Steps[Op(w).op])
  <2>1. ASSUME Op(w).op = "source" PROVE FALSE
    <3>1. Len(Steps[Op(w).op]) = 10
      BY <2>1, Lengths
    <3> QED  BY <1>3, <1>5, <2>1, <3>1
  <2> QED  BY <1>1, <1>2, <1>5, <2>1, QuietStep
<1> QED  BY <1>2, <1>4, <1>5

\* The facts every step starts from.
LEMMA Facts ==
  ASSUME Inv, NEW w \in Writers, NEW s, At(w, s)
  PROVE  /\ Running(w) /\ Places(Op(w).op, pos[w], s) /\ RefPlaces(Op(w).op, pos[w], s)
         /\ Knows(w, pos[w]) /\ SeenInv(w) /\ Op(w).op \in OpKinds /\ pos[w] \in Nat
         /\ s # "publish" => hidden[w] = None
<1>1. Running(w) /\ TypeInv /\ WriterInv(w) /\ Steps[Op(w).op][pos[w]] = s
  BY DEF At, Inv
<1>2. Places(Op(w).op, pos[w], s) /\ RefPlaces(Op(w).op, pos[w], s)
  BY <1>1, Where
<1>3. Op(w).op \in OpKinds /\ pos[w] \in Nat
  BY <1>1, OpType DEF TypeInv, ControlType
<1> QED  BY <1>1, <1>2, <1>3, NotHidden DEF WriterInv

----------------------------------------------------------------------------
(* The actions.                                                            *)

LEMMA ExpectHashStep ==
  ASSUME Inv, NEW w \in Writers, ExpectHash(w)
  PROVE  Inv'
<1>1. At(w, "expect") /\ UNCHANGED disk
  BY DEF ExpectHash
<1>2. Op(w).op = "copy" /\ pos[w] = 3 /\ hidden[w] = None
  BY <1>1, Facts DEF Places
<1>3. CASE Op(w).hash = Op(w).want
  <2>1. Advance(w, 1)
    BY <1>3 DEF ExpectHash
  <2>2. Knows(w, pos[w] + 1) /\ pos[w] + 1 <= RefFrom[Op(w).op]
    BY <1>2, <1>3, Froms DEF Knows
  <2> QED  BY <1>1, <1>2, <2>1, <2>2, QuietAdvance
<1>4. CASE Op(w).hash # Op(w).want
  BY <1>1, <1>2, <1>4, QuietReturn DEF ExpectHash
<1> QED  BY <1>3, <1>4

LEMMA VerifySourceStep ==
  ASSUME Inv, NEW w \in Writers, VerifySource(w)
  PROVE  Inv'
<1>1. At(w, "verify") /\ UNCHANGED disk
  BY DEF VerifySource
<1>2. Op(w).op = "source" /\ pos[w] = 3 /\ hidden[w] = None
  BY <1>1, Facts DEF Places
<1>3. CASE Op(w).hash = Op(w).want
  <2>1. Advance(w, 1)
    BY <1>3 DEF VerifySource
  <2>2. Knows(w, pos[w] + 1) /\ pos[w] + 1 <= RefFrom[Op(w).op]
    BY <1>2, <1>3, Froms DEF Knows
  <2> QED  BY <1>1, <1>2, <2>1, <2>2, QuietAdvance
<1>4. CASE Op(w).hash # Op(w).want
  BY <1>1, <1>2, <1>4, QuietReturn DEF VerifySource
<1> QED  BY <1>3, <1>4

LEMMA SourcePresentStep ==
  ASSUME Inv, NEW w \in Writers, SourcePresent(w)
  PROVE  Inv'
<1>1. At(w, "present") /\ UNCHANGED disk
  BY DEF SourcePresent
<1>2. Op(w).op = "sourceHit" /\ pos[w] = 1 /\ hidden[w] = None
  BY <1>1, Facts DEF Places
<1>3. CASE Present(Op(w).want)
  <2>1. Advance(w, 1)
    BY <1>3 DEF SourcePresent
  <2>2. Knows(w, pos[w] + 1) /\ pos[w] + 1 <= RefFrom[Op(w).op]
    BY <1>2, Froms DEF Knows
  <2> QED  BY <1>1, <1>2, <2>1, <2>2, QuietAdvance
<1>4. CASE ~Present(Op(w).want)
  BY <1>1, <1>2, <1>4, QuietReturn DEF SourcePresent
<1> QED  BY <1>3, <1>4

LEMMA CheckCompleteStep ==
  ASSUME Inv, NEW w \in Writers, CheckComplete(w)
  PROVE  Inv'
<1>1. At(w, "check") /\ UNCHANGED disk
  BY DEF CheckComplete
<1>2. Op(w).op = "existing" /\ pos[w] = 1 /\ hidden[w] = None
  BY <1>1, Facts DEF Places
<1>3. CASE Complete(Op(w).hash)
  <2>1. Advance(w, 1)
    BY <1>3 DEF CheckComplete
  <2>2. Subject(w) = Op(w).hash
    BY <1>2 DEF Subject
  <2>3. Knows(w, pos[w] + 1) /\ pos[w] + 1 <= RefFrom[Op(w).op]
    BY <1>2, <1>3, <2>2, Froms DEF Knows
  <2> QED  BY <1>1, <1>2, <2>1, <2>3, QuietAdvance
<1>4. CASE ~Complete(Op(w).hash)
  BY <1>1, <1>2, <1>4, QuietReturn DEF CheckComplete
<1> QED  BY <1>3, <1>4

LEMMA ImportExistsStep ==
  ASSUME Inv, NEW w \in Writers, ImportExists(w)
  PROVE  Inv'
<1>1. At(w, "import") /\ UNCHANGED disk
  BY DEF ImportExists
<1>2. /\ (Op(w).op = "build" /\ pos[w] = 2) \/ (Op(w).op = "source" /\ pos[w] = 1)
         \/ (Op(w).op = "copy" /\ pos[w] = 4)
      /\ hidden[w] = None /\ Knows(w, pos[w])
  BY <1>1, Facts DEF Places
<1>3. CASE Present(Destination(w))
  <2>1. Advance(w, 2)
    BY <1>3 DEF ImportExists
  <2>2. CASE Op(w).op = "build" /\ pos[w] = 2
    <3>1. Op(w).hash \in Hashes /\ Destination(w) = Op(w).hash /\ Subject(w) = Op(w).hash
      BY <1>1, <2>2, Facts, OpType DEF Destination, Subject, Inv
    <3>2. objects[Op(w).hash] = Op(w).hash /\ FilesOf[Op(w).hash] \subseteq files
      BY <1>2, <1>3, <2>2, <3>1 DEF Inv, StoreConsistent, ContentAddressed, Knows
    <3>3. Complete(Subject(w))
      BY <1>3, <3>1, <3>2 DEF Complete
    <3>4. Knows(w, pos[w] + 2) /\ pos[w] + 2 <= RefFrom[Op(w).op]
      BY <2>2, <3>2, <3>3, Froms DEF Knows
    <3> QED  BY <1>1, <1>2, <2>1, <2>2, <3>4, QuietAdvance
  <2>3. CASE Op(w).op = "source" /\ pos[w] = 1
    <3>1. Knows(w, pos[w] + 2) /\ pos[w] + 2 <= RefFrom[Op(w).op]
      BY <2>3, Froms DEF Knows
    <3> QED  BY <1>1, <1>2, <2>1, <2>3, <3>1, QuietAdvance
  <2>4. CASE Op(w).op = "copy" /\ pos[w] = 4
    <3>1. Len(Steps[Op(w).op]) = 5
      BY <2>4, Lengths
    <3>2. pos[w] + 2 > Len(Steps[Op(w).op])
      BY <2>4, <3>1
    <3> QED  BY <1>1, <1>2, <2>1, <2>4, <3>2, QuietAdvance
  <2> QED  BY <1>2, <2>2, <2>3, <2>4
<1>4. CASE ~Present(Destination(w))
  <2>1. Advance(w, 1)
    BY <1>4 DEF ImportExists
  <2>2. Knows(w, pos[w] + 1) /\ pos[w] + 1 <= RefFrom[Op(w).op]
    BY <1>2, Froms DEF Knows
  <2>3. Op(w).op = "source" => pos[w] + 1 <= 10
    BY <1>2
  <2> QED  BY <1>1, <1>2, <2>1, <2>2, <2>3, QuietAdvance
<1> QED  BY <1>3, <1>4
LEMMA RecordExistsStep ==
  ASSUME Inv, NEW w \in Writers, RecordExists(w)
  PROVE  Inv'
<1>1. At(w, "record") /\ UNCHANGED disk
  BY DEF RecordExists
<1>2. hidden[w] = None /\ Knows(w, pos[w]) /\ Places(Op(w).op, pos[w], "record")
  BY <1>1, Facts
<1>3. CASE Op(w).op # "build" /\ ~Complete(Subject(w)) /\ Return(w, FALSE)
  BY <1>1, <1>2, <1>3, QuietReturn
<1>4. CASE /\ Op(w).op = "build" \/ Complete(Subject(w))
           /\ Advance(w, IF records[Subject(w)] = None THEN 1 ELSE 2)
  <2>1. Complete(Subject(w))
    BY <1>2, <1>4, Froms DEF Knows, Places
  <2>2. CASE records[Subject(w)] = None
    <3>1. Advance(w, 1)
      BY <1>4, <2>2
    <3>2. Knows(w, pos[w] + 1) /\ pos[w] + 1 <= RefFrom[Op(w).op]
      BY <1>2, <2>1, Froms DEF Knows, Places
    <3>3. Op(w).op = "source" => pos[w] + 1 <= 10
      BY <1>2 DEF Places
    <3> QED  BY <1>1, <1>2, <3>1, <3>2, <3>3, QuietAdvance
  <2>3. CASE records[Subject(w)] # None
    <3>1. Advance(w, 2)
      BY <1>4, <2>3
    <3>2. Knows(w, pos[w] + 2) /\ pos[w] + 2 <= RefFrom[Op(w).op]
      BY <1>2, <2>1, <2>3, Froms DEF Knows, Places
    <3>3. Op(w).op = "source" => pos[w] + 2 <= 10
      BY <1>2 DEF Places
    <3> QED  BY <1>1, <1>2, <3>1, <3>2, <3>3, QuietAdvance
  <2> QED  BY <2>2, <2>3
<1> QED  BY <1>3, <1>4 DEF RecordExists

LEMMA LookupObjectStep ==
  ASSUME Inv, NEW w \in Writers, LookupObject(w)
  PROVE  Inv'
<1>1. At(w, "lookup") /\ UNCHANGED disk
  BY DEF LookupObject
<1>2. Op(w).op = "copy" /\ pos[w] = 1 /\ hidden[w] = None /\ Running(w)
  BY <1>1, Facts DEF Places
<1>3. CASE Return(w, TRUE)
  BY <1>1, <1>2, <1>3, QuietReturn
<1>4. CASE /\ seen' = [seen EXCEPT ![w].target = objects[Op(w).want]]
           /\ pos' = [pos EXCEPT ![w] = @ + 1]
           /\ UNCHANGED <<idx, todo, failed, crashes>>
  <2>1. TypeInv /\ Op(w).want \in Hashes
    BY <1>2, OpType DEF Inv
  <2>2. objects[Op(w).want] \in Hashes \cup {None}
    BY <2>1 DEF TypeInv, DiskType
  <2>3. seen' \in [Writers -> [target : Hashes \cup {None}, n : Nat]]
    BY <1>4, <2>1, <2>2 DEF TypeInv, ControlType
  <2>4. pos' \in [Writers -> Nat \ {0}] /\ pos'[w] = 2
    BY <1>2, <1>4, <2>1 DEF TypeInv, ControlType
  <2>5. Moved(w)
    BY <1>4, <2>1, <2>3, <2>4 DEF Moved, TypeInv, ControlType
  <2>6. Op(w)' = Op(w) /\ idx'[w] = idx[w]
    BY <1>4 DEF Op
  <2>7. Knows(w, pos[w])'
    BY <1>2, <2>4, <2>6, Froms DEF Knows
  <2>8. SeenInv(w)'
    BY <1>2, <2>4, <2>6, Froms DEF SeenInv
  <2>9. pos'[w] <= Len(Steps[Op(w).op])
    <3>1. Len(Steps[Op(w).op]) = 5
      BY <1>2, Lengths
    <3> QED  BY <2>4, <3>1
  <2>10. WriterInv(w)'
    BY <2>6, <2>7, <2>8, <2>9 DEF WriterInv
  <2> QED  BY <1>1, <1>2, <2>5, <2>6, <2>10, QuietStep
<1> QED  BY <1>3, <1>4 DEF LookupObject

\* A step that adds files and nothing else.
LEMMA FilesStep ==
  ASSUME Inv, NEW w \in Writers, NEW s, At(w, s), hidden[w] = None, UNCHANGED control,
         files \subseteq files', files' \subseteq FsFiles,
         UNCHANGED <<objects, records, builds, reuses, refs, history, hidden, litter, serials>>
  PROVE  Inv'
<1>1. DiskType' /\ TypeInv /\ WriterInv(w) /\ Running(w)
  BY DEF Inv, TypeInv, DiskType, At
<1>2. Grows
  BY DEF Grows, ContentKept, RecordsKept
<1>3. MappingsComplete'
  BY <1>1, <1>2, NamesKept DEF Inv, StoreConsistent
<1>4. \A h \in Hashes : objects'[h] # None => objects'[h] = h
  BY DEF Inv, StoreConsistent, ContentAddressed, Present
<1>5. UNCHANGED <<idx, pos, todo, seen, failed, crashes>>
  BY DEF control
<1>6. Moved(w) /\ idx'[w] = idx[w]
  BY <1>1, <1>5 DEF Moved, TypeInv, ControlType
<1>7. WriterInv(w)'
  BY <1>1, <1>2, <1>5, Standing
<1> QED  BY <1>1, <1>2, <1>3, <1>4, <1>6, <1>7, Settle

LEMMA InternFileStep ==
  ASSUME Inv, NEW w \in Writers, InternFile(w)
  PROVE  Inv'
<1>1. /\ At(w, "intern")
      /\ UNCHANGED <<objects, records, builds, reuses, refs, history, hidden, litter, serials>>
  BY DEF InternFile
<1>2. Op(w).op = "build" /\ pos[w] = 1 /\ hidden[w] = None /\ Running(w)
  BY <1>1, Facts DEF Places
<1>3. FilesOf[Op(w).hash] \subseteq FsFiles /\ files \subseteq FsFiles
  BY <1>2, OpType, FilesAssumption DEF Inv, TypeInv, DiskType
<1>4. CASE (\E f \in FilesOf[Op(w).hash] \ files : files' = files \cup {f}) /\ UNCHANGED control
  BY <1>1, <1>2, <1>3, <1>4, FilesStep
<1>5. CASE FilesOf[Op(w).hash] \subseteq files /\ Advance(w, 1) /\ UNCHANGED files
  <2>1. Knows(w, pos[w] + 1) /\ pos[w] + 1 <= RefFrom[Op(w).op]
    BY <1>2, <1>5, Froms DEF Knows
  <2>2. UNCHANGED disk
    BY <1>1, <1>5 DEF disk
  <2> QED  BY <1>1, <1>2, <1>5, <2>1, <2>2, QuietAdvance
<1> QED  BY <1>4, <1>5 DEF InternFile

LEMMA FetchFilesStep ==
  ASSUME Inv, NEW w \in Writers, FetchFiles(w)
  PROVE  Inv'
<1>1. /\ At(w, "fetch")
      /\ UNCHANGED <<objects, records, builds, reuses, refs, history, hidden, litter, serials>>
  BY DEF FetchFiles
<1>2. Op(w).op = "copy" /\ pos[w] = 2 /\ hidden[w] = None /\ Running(w)
  BY <1>1, Facts DEF Places
<1>3. FilesOf[Op(w).want] \subseteq FsFiles /\ files \subseteq FsFiles
  BY <1>2, OpType, FilesAssumption DEF Inv, TypeInv, DiskType
<1>4. CASE (\E f \in FilesOf[Op(w).want] \ files : files' = files \cup {f}) /\ UNCHANGED control
  BY <1>1, <1>2, <1>3, <1>4, FilesStep
<1>5. CASE UNCHANGED files
  <2>1. UNCHANGED disk
    BY <1>1, <1>5 DEF disk
  <2>2. CASE Return(w, FALSE)
    BY <1>1, <1>2, <2>1, <2>2, QuietReturn
  <2>3. CASE Return(w, TRUE)
    BY <1>1, <1>2, <2>1, <2>3, QuietReturn
  <2>4. CASE Advance(w, 1)
    <3>1. Knows(w, pos[w] + 1) /\ pos[w] + 1 <= RefFrom[Op(w).op]
      BY <1>2, Froms DEF Knows
    <3> QED  BY <1>1, <1>2, <2>1, <2>4, <3>1, QuietAdvance
  <2>5. \/ Return(w, FALSE) \/ Return(w, TRUE) \/ Advance(w, 1)
        \/ (\E f \in FilesOf[Op(w).want] \ files : files' = files \cup {f}) /\ UNCHANGED control
    BY DEF FetchFiles
  <2> QED  BY <1>4, <2>2, <2>3, <2>4, <2>5
<1>6. \/ (\E f \in FilesOf[Op(w).want] \ files : files' = files \cup {f}) /\ UNCHANGED control
      \/ UNCHANGED files
  BY DEF FetchFiles
<1> QED  BY <1>4, <1>5, <1>6
LEMMA RecordWriteStep ==
  ASSUME Inv, NEW w \in Writers, RecordWrite(w)
  PROVE  Inv'
<1> DEFINE k == IF Op(w).op = "build" THEN Op(w).key ELSE SourceKey[Subject(w)]
<1>1. /\ At(w, "write") /\ Advance(w, 1)
      /\ records' = [records EXCEPT ![Subject(w)] = k]
      /\ UNCHANGED <<objects, files, builds, reuses, refs, history, hidden, litter, serials>>
  BY DEF RecordWrite
<1>2. /\ hidden[w] = None /\ Running(w) /\ Knows(w, pos[w]) /\ Places(Op(w).op, pos[w], "write")
      /\ Op(w).op \in OpKinds
  BY <1>1, Facts
<1>3. TypeInv /\ ControlType /\ WriterInv(w) /\ Subject(w) \in Hashes /\ k \in BuildKeys
  BY <1>2, OpType, SourceKeyAssumption DEF Inv, TypeInv
<1>4. DiskType'
  BY <1>1, <1>3 DEF TypeInv, DiskType
<1>5. records'[Subject(w)] # None /\ (\A h \in Hashes : records[h] # None => records'[h] # None)
  BY <1>1, <1>3, NoneAssumption DEF TypeInv, DiskType
<1>6. Grows
  BY <1>1, <1>5 DEF Grows, ContentKept, RecordsKept
<1>7. MappingsComplete'
  BY <1>1, <1>3, <1>6, NamesKept DEF Inv, StoreConsistent
<1>8. \A h \in Hashes : objects'[h] # None => objects'[h] = h
  BY <1>1 DEF Inv, StoreConsistent, ContentAddressed, Present
<1>9. Moved(w) /\ (Gone(w, 1) \/ (Ended(w) /\ pos[w] + 1 > Len(Steps[Op(w).op])))
  BY <1>1, <1>3, AdvanceStep
<1>10. CASE Gone(w, 1)
  <2>1. idx'[w] = idx[w] /\ pos'[w] = pos[w] + 1
    BY <1>10 DEF Gone
  <2>2. Op(w)' = Op(w) /\ Subject(w)' = Subject(w)
    BY <2>1 DEF Op, Subject
  <2>3. Complete(Subject(w))
    BY <1>2, Froms DEF Knows, Places
  <2>4. Complete(Subject(w))'
    BY <1>1, <2>2, <2>3 DEF Complete, Present
  <2>5. Op(w).op = "build" => FilesOf[Op(w).hash] \subseteq files
    BY <1>2 DEF Knows, Places
  <2>6. Op(w).op \in {"source", "copy"} => Op(w).hash = Op(w).want
    BY <1>2 DEF Knows, Places
  <2>7. Knows(w, pos[w])'
    BY <1>1, <1>5, <2>2, <2>4, <2>5, <2>6 DEF Knows
  <2>8. pos[w] + 1 \notin {RefFrom[Op(w).op] + 1, RefFrom[Op(w).op] + 2}
    BY <1>2, Froms DEF Places
  <2>9. WriterInv(w)'
    BY <1>2, <1>3, <1>6, <1>10, <2>7, <2>8, GoneWriter
  <2> QED  BY <1>1, <1>2, <1>4, <1>6, <1>7, <1>8, <1>9, <2>1, <2>9, Settle
<1>11. CASE Ended(w) /\ pos[w] + 1 > Len(Steps[Op(w).op])
  <2>1. ASSUME Op(w).op = "source" PROVE FALSE
    <3>1. Len(Steps[Op(w).op]) = 10 /\ pos[w] = 5
      BY <1>2, <2>1, Lengths DEF Places
    <3> QED  BY <1>11, <3>1
  <2> QED  BY <1>1, <1>2, <1>4, <1>6, <1>7, <1>8, <1>9, <1>11, <2>1, Settle
<1> QED  BY <1>9, <1>10, <1>11

\* The number of a hidden name is the process's own and free.
LEMMA PendingName ==
  ASSUME DiskType, ControlType, NEW w \in Writers, NextPendingImport(w)
  PROVE  /\ serials' \in [Writers -> Nat] /\ ~Left(w, serials'[w])
         /\ \A v \in Writers \ {w} : serials'[v] = serials[v]
<1>1. serials \in [Writers -> Nat] /\ crashes \in Nat
  BY DEF DiskType, ControlType
<1>2. PICK n \in (serials[w] + 1)..(serials[w] + crashes + 1) : ~Left(w, n) /\ serials' = [serials EXCEPT ![w] = n]
  BY DEF NextPendingImport
<1>3. n \in Nat
  BY <1>1, <1>2
<1> QED  BY <1>1, <1>2, <1>3

LEMMA HideReadOnlyStep ==
  ASSUME Inv, NEW w \in Writers, HideReadOnly(w)
  PROVE  Inv'
<1>1. /\ At(w, "publish") /\ hidden' = [hidden EXCEPT ![w] = Op(w).hash] /\ NextPendingImport(w)
      /\ UNCHANGED <<objects, files, records, builds, reuses, refs, history, litter>>
      /\ UNCHANGED <<idx, pos, todo, seen, failed, crashes>>
  BY DEF HideReadOnly, control
<1>2. Running(w) /\ TypeInv /\ WriterInv(w)
  BY <1>1 DEF Inv, At
<1>11. /\ serials' \in [Writers -> Nat] /\ ~Left(w, serials'[w])
       /\ \A v \in Writers \ {w} : serials'[v] = serials[v]
  BY <1>1, <1>2, PendingName DEF TypeInv
<1>3. DiskType'
  BY <1>1, <1>2, <1>11, OpType DEF TypeInv, DiskType
<1>4. Grows
  BY <1>1 DEF Grows, ContentKept, RecordsKept
<1>5. MappingsComplete'
  BY <1>1, <1>2, <1>4, NamesKept DEF Inv, StoreConsistent
<1>6. \A h \in Hashes : objects'[h] # None => objects'[h] = h
  BY <1>1 DEF Inv, StoreConsistent, ContentAddressed, Present
<1>7. Moved(w) /\ idx'[w] = idx[w]
  BY <1>1, <1>2 DEF Moved, TypeInv, ControlType
<1>8. WriterInv(w)'
  BY <1>1, <1>2, <1>4, Standing
<1>9. At(w, "publish")' /\ ~Left(w, serials[w])'
  BY <1>1, <1>11 DEF At, Running, Op, Left
<1>10. \A v \in Writers \ {w} : hidden'[v] = hidden[v]
  BY <1>1, <1>2 DEF TypeInv, DiskType
<1> QED  BY <1>1, <1>2, <1>3, <1>4, <1>5, <1>6, <1>7, <1>8, <1>9, <1>10, <1>11, Settle

LEMMA HideFailsStep ==
  ASSUME Inv, NEW w \in Writers, HideFails(w)
  PROVE  Inv'
<1>1. /\ At(w, "publish") /\ hidden[w] = None /\ NextPendingImport(w) /\ Return(w, FALSE)
      /\ UNCHANGED <<objects, files, records, builds, reuses, refs, history, hidden, litter>>
  BY DEF HideFails
<1>2. Running(w) /\ TypeInv /\ ControlType /\ DiskType
  BY <1>1 DEF Inv, TypeInv, At
<1>3. serials' \in [Writers -> Nat] /\ \A v \in Writers \ {w} : serials'[v] = serials[v]
  BY <1>1, <1>2, PendingName
<1>4. DiskType'
  BY <1>1, <1>2, <1>3 DEF DiskType
<1>5. Grows
  BY <1>1 DEF Grows, ContentKept, RecordsKept
<1>6. Moved(w) /\ Ended(w) /\ <<w, idx[w]>> \in failed'
  BY <1>1, <1>2, ReturnStep
<1>7. MappingsComplete'
  BY <1>1, <1>2, <1>5, NamesKept DEF Inv, StoreConsistent
<1>8. \A h \in Hashes : objects'[h] # None => objects'[h] = h
  BY <1>1 DEF Inv, StoreConsistent, ContentAddressed, Present
<1> QED  BY <1>1, <1>2, <1>3, <1>4, <1>5, <1>6, <1>7, <1>8, Settle

\* What the publishing rename is worth to its writer, once the destination
\* exists.
LEMMA PublishedStep ==
  ASSUME Inv, NEW w \in Writers, At(w, "publish"), Advance(w, 1), DiskType', Grows,
         UNCHANGED <<builds, reuses, refs, history, litter, serials>>,
         \A h \in Hashes : objects'[h] # None => objects'[h] = h,
         hidden' = [hidden EXCEPT ![w] = None],
         objects'[Destination(w)] # None
  PROVE  Inv'
<1>1. /\ Running(w) /\ Knows(w, pos[w]) /\ Places(Op(w).op, pos[w], "publish")
      /\ Op(w).op \in OpKinds
  BY Facts
<1>2. TypeInv /\ ControlType /\ WriterInv(w) /\ Destination(w) \in Hashes
  BY <1>1, OpType DEF Inv, TypeInv
<1>3. MappingsComplete'
  BY <1>2, NamesKept DEF Inv, StoreConsistent
<1>4. Moved(w) /\ (Gone(w, 1) \/ (Ended(w) /\ pos[w] + 1 > Len(Steps[Op(w).op])))
  BY <1>2, AdvanceStep
<1>5. hidden'[w] = None /\ (\A v \in Writers \ {w} : hidden'[v] = hidden[v])
  BY <1>2 DEF TypeInv, DiskType
<1>6. CASE Gone(w, 1)
  <2>1. idx'[w] = idx[w] /\ pos'[w] = pos[w] + 1
    BY <1>6 DEF Gone
  <2>2. Op(w)' = Op(w) /\ Subject(w)' = Subject(w)
    BY <2>1 DEF Op, Subject
  <2>3. Op(w).op \in {"build", "source"}
    <3>1. ASSUME Op(w).op = "copy" PROVE FALSE
      <4>1. Len(Steps[Op(w).op]) = 5 /\ pos[w] = 5
        BY <1>1, <3>1, Lengths DEF Places
      <4> QED  BY <1>6, <4>1 DEF Gone
    <3> QED  BY <1>1, <3>1 DEF Places
  <2>4. CASE Op(w).op = "build"
    <3>1. pos[w] = 3 /\ Subject(w) = Op(w).hash /\ Destination(w) = Op(w).hash
      BY <1>1, <2>4 DEF Places, Subject, Destination
    <3>2. FilesOf[Op(w).hash] \subseteq files'
      BY <1>1, <2>4, <3>1 DEF Knows, Grows, ContentKept
    <3>3. objects'[Op(w).hash] = Op(w).hash /\ Op(w).hash # None
      BY <1>2, <3>1
    <3>4. Complete(Subject(w))'
      BY <2>2, <3>1, <3>2, <3>3 DEF Complete, Present
    <3>5. Knows(w, pos[w])'
      BY <2>1, <2>2, <2>4, <3>1, <3>2, <3>4, Froms DEF Knows
    <3>6. pos[w] + 1 \notin {RefFrom[Op(w).op] + 1, RefFrom[Op(w).op] + 2}
      BY <2>4, <3>1, Froms
    <3>7. WriterInv(w)'
      BY <1>1, <1>2, <1>6, <3>5, <3>6, GoneWriter
    <3> QED  BY <1>1, <1>3, <1>4, <1>5, <2>1, <3>7, Settle
  <2>5. CASE Op(w).op = "source"
    <3>1. pos[w] = 2
      BY <1>1, <2>5 DEF Places
    <3>2. Knows(w, pos[w])'
      BY <2>1, <2>2, <2>5, <3>1, Froms DEF Knows
    <3>3. pos[w] + 1 \notin {RefFrom[Op(w).op] + 1, RefFrom[Op(w).op] + 2}
      BY <2>5, <3>1, Froms
    <3>4. WriterInv(w)'
      BY <1>1, <1>2, <1>6, <3>2, <3>3, GoneWriter
    <3> QED  BY <1>1, <1>3, <1>4, <1>5, <2>1, <3>4, Settle
  <2> QED  BY <2>3, <2>4, <2>5
<1>7. CASE Ended(w) /\ pos[w] + 1 > Len(Steps[Op(w).op])
  <2>1. ASSUME Op(w).op = "source" PROVE FALSE
    <3>1. Len(Steps[Op(w).op]) = 10 /\ pos[w] = 2
      BY <1>1, <2>1, Lengths DEF Places
    <3> QED  BY <1>7, <3>1
  <2> QED  BY <1>1, <1>3, <1>4, <1>5, <1>7, <2>1, Settle
<1> QED  BY <1>4, <1>6, <1>7

LEMMA PublishObjectStep ==
  ASSUME Inv, NEW w \in Writers, PublishObject(w)
  PROVE  Inv' /\ Grows
<1>1. /\ At(w, "publish") /\ Advance(w, 1)
      /\ objects' = [objects EXCEPT ![Destination(w)] =
                       IF @ = None \/ Op(w).hash \notin ReadOnly THEN Op(w).hash ELSE @]
      /\ hidden' = [hidden EXCEPT ![w] = None]
      /\ UNCHANGED <<files, records, builds, reuses, refs, history, litter, serials>>
  BY DEF PublishObject, CanPublish
<1>2. Running(w) /\ Knows(w, pos[w]) /\ Places(Op(w).op, pos[w], "publish")
  BY <1>1, Facts
<1>3. TypeInv /\ Destination(w) \in Hashes /\ Op(w).hash \in Hashes
  BY <1>2, OpType DEF Inv
<1>4. Op(w).hash = Destination(w)
  BY <1>2 DEF Destination, Knows, Places
<1>5. \A h \in Hashes : objects[h] # None => objects[h] = h
  BY DEF Inv, StoreConsistent, ContentAddressed, Present
<1>6. \A h \in Hashes : objects'[h] = IF h = Destination(w) THEN h ELSE objects[h]
  BY <1>1, <1>3, <1>4, <1>5 DEF TypeInv, DiskType
<1>7. \A h \in Hashes : objects'[h] # None => objects'[h] = h
  BY <1>5, <1>6
<1>8. Grows
  BY <1>1, <1>5, <1>6 DEF Grows, ContentKept, RecordsKept, Present
<1>9. DiskType'
  BY <1>1, <1>3 DEF TypeInv, DiskType
<1>10. objects'[Destination(w)] # None
  BY <1>3, <1>6, NoneAssumption
<1> QED  BY <1>1, <1>7, <1>8, <1>9, <1>10, PublishedStep

LEMMA PublishFailsStep ==
  ASSUME Inv, NEW w \in Writers, PublishFails(w)
  PROVE  Inv'
<1>1. /\ At(w, "publish") /\ hidden' = [hidden EXCEPT ![w] = None]
      /\ UNCHANGED <<objects, files, records, builds, reuses, refs, history, litter, serials>>
  BY DEF PublishFails, CanPublish
<1>2. Running(w) /\ TypeInv /\ ControlType
  BY <1>1 DEF Inv, TypeInv, At
<1>3. DiskType'
  BY <1>1, <1>2 DEF TypeInv, DiskType
<1>4. Grows
  BY <1>1 DEF Grows, ContentKept, RecordsKept
<1>5. \A h \in Hashes : objects'[h] # None => objects'[h] = h
  BY <1>1 DEF Inv, StoreConsistent, ContentAddressed, Present
<1>6. CASE Present(Destination(w)) /\ Advance(w, 1)
  BY <1>1, <1>3, <1>4, <1>5, <1>6, PublishedStep DEF Present
<1>7. CASE Return(w, FALSE)
  <2>1. Moved(w) /\ Ended(w) /\ <<w, idx[w]>> \in failed'
    BY <1>2, <1>7, ReturnStep
  <2>2. hidden'[w] = None /\ (\A v \in Writers \ {w} : hidden'[v] = hidden[v])
    BY <1>1, <1>2 DEF TypeInv, DiskType
  <2>3. MappingsComplete'
    BY <1>1, <1>2, <1>4, NamesKept DEF Inv, StoreConsistent
  <2> QED  BY <1>1, <1>2, <1>3, <1>4, <1>5, <2>1, <2>2, <2>3, Settle
<1> QED  BY <1>6, <1>7 DEF PublishFails
\* What the writer makes visible when it binds a key: complete content with
\* a record.
LEMMA SubjectReady ==
  ASSUME Inv, NEW w \in Writers, At(w, "reuse") \/ At(w, "map")
  PROVE  /\ Running(w) /\ hidden[w] = None /\ TypeInv /\ ControlType /\ WriterInv(w)
         /\ Subject(w) \in Hashes /\ Complete(Subject(w)) /\ records[Subject(w)] # None
<1>1. Running(w) /\ hidden[w] = None /\ Knows(w, pos[w])
  BY Facts
<1>2. TypeInv /\ ControlType /\ WriterInv(w) /\ Subject(w) \in Hashes
  BY <1>1, OpType DEF Inv, TypeInv
<1>3. Places(Op(w).op, pos[w], "reuse") \/ Places(Op(w).op, pos[w], "map")
  BY Facts
<1>4. pos[w] >= CompleteFrom[Op(w).op] /\ pos[w] >= RecordedFrom[Op(w).op]
  BY <1>3, Froms DEF Places
<1> QED  BY <1>1, <1>2, <1>4 DEF Knows

LEMMA StoreReuseRefStep ==
  ASSUME Inv, NEW w \in Writers, StoreReuseRef(w)
  PROVE  Inv'
<1>1. /\ At(w, "reuse")
      /\ UNCHANGED <<objects, files, records, builds, refs, history, hidden, litter, serials>>
  BY DEF StoreReuseRef
<1>2. /\ Running(w) /\ hidden[w] = None /\ TypeInv /\ ControlType /\ WriterInv(w)
      /\ Subject(w) \in Hashes /\ Complete(Subject(w)) /\ records[Subject(w)] # None
  BY <1>1, SubjectReady
<1>3. ASSUME NEW k \in todo[w], reuses' = [reuses EXCEPT ![k] = Subject(w)],
             todo' = [todo EXCEPT ![w] = @ \ {k}], UNCHANGED <<idx, pos, seen, failed, crashes>>
      PROVE  Inv'
  <2>1. k \in ReuseKeys /\ todo[w] \subseteq ReuseKeys
    BY <1>2 DEF ControlType
  <2>2. DiskType'
    BY <1>1, <1>2, <1>3, <2>1 DEF TypeInv, DiskType
  <2>3. Grows
    BY <1>1 DEF Grows, ContentKept, RecordsKept
  <2>4. todo' \in [Writers -> SUBSET ReuseKeys]
    BY <1>2, <1>3 DEF ControlType
  <2>5. Moved(w) /\ idx'[w] = idx[w]
    BY <1>2, <1>3, <2>4 DEF Moved, ControlType
  <2>6. WriterInv(w)'
    BY <1>2, <1>3, <2>3, Standing
  <2>7. \A h \in Hashes : objects'[h] # None => objects'[h] = h
    BY <1>1 DEF Inv, StoreConsistent, ContentAddressed, Present
  <2>8. MappingsComplete'
    <3>1. \A h : Complete(h)' <=> Complete(h)
      BY <1>1 DEF Complete, Present
    <3>2. \A r \in ReuseKeys : reuses'[r] = Subject(w) \/ reuses'[r] = reuses[r]
      BY <1>2, <1>3 DEF TypeInv, DiskType
    <3>3. Mapped' \subseteq Mapped \cup {Subject(w)}
      BY <1>1, <3>2 DEF Mapped
    <3>4. \A h \in Mapped' \ {None} : Complete(h)'
      BY <1>2, <3>1, <3>3 DEF Inv, StoreConsistent, MappingsComplete
    <3>5. \A r \in ReuseKeys : reuses'[r] # None => records'[reuses'[r]] # None
      BY <1>1, <1>2, <3>2 DEF Inv, StoreConsistent, MappingsComplete
    <3>6. \A b \in BuildKeys : builds'[b] # None => records'[builds'[b]] # None
      BY <1>1 DEF Inv, StoreConsistent, MappingsComplete
    <3> QED  BY <3>4, <3>5, <3>6 DEF MappingsComplete
  <2> QED  BY <1>1, <1>2, <2>2, <2>3, <2>5, <2>6, <2>7, <2>8, Settle
<1>4. CASE todo[w] = {} /\ Advance(w, 1) /\ UNCHANGED reuses
  <2>1. UNCHANGED disk
    BY <1>1, <1>4 DEF disk
  <2>2. Places(Op(w).op, pos[w], "reuse") /\ Knows(w, pos[w])
    BY <1>1, Facts
  <2>3. Knows(w, pos[w] + 1) /\ pos[w] + 1 <= RefFrom[Op(w).op] /\ Op(w).op # "source"
    BY <1>2, <2>2, Froms DEF Knows, Places
  <2> QED  BY <1>1, <1>2, <1>4, <2>1, <2>3, QuietAdvance
<1> QED  BY <1>3, <1>4 DEF StoreReuseRef

\* Steps late in an operation: there is nothing more to learn.
LEMMA LateWriter ==
  ASSUME TypeInv, NEW w \in Writers, Running(w), WriterInv(w), Grows, Gone(w, 1),
         Op(w).op \in OpKinds, pos[w] \in Nat, pos[w] >= RecordedFrom[Op(w).op],
         seen[w].target = None => pos[w] + 1 \notin {RefFrom[Op(w).op] + 1, RefFrom[Op(w).op] + 2}
  PROVE  WriterInv(w)'
<1>1. RecordedFrom[Op(w).op] >= CompleteFrom[Op(w).op] /\ RecordedFrom[Op(w).op] \in Nat
      /\ CompleteFrom[Op(w).op] \in Nat
  BY Froms DEF OpKinds
<1>2. RecordedFrom[Op(w).op] >= 3 /\ (Op(w).op \in {"source", "copy"} => RecordedFrom[Op(w).op] >= 4)
  BY Froms DEF OpKinds
<1>3. Knows(w, pos[w])
  BY DEF WriterInv
<1>4. pos[w] >= CompleteFrom[Op(w).op]
  BY <1>1
<1>5. Knows(w, pos[w] + 1)
  BY <1>1, <1>2, <1>3, <1>4 DEF Knows
<1> QED  BY <1>5, GoneWriter

LEMMA StoreBuildRefStep ==
  ASSUME Inv, NEW w \in Writers, StoreBuildRef(w)
  PROVE  Inv'
<1>1. /\ At(w, "map") /\ Advance(w, 1) /\ builds' = [builds EXCEPT ![Key(w)] = Subject(w)]
      /\ UNCHANGED <<objects, files, records, reuses, refs, history, hidden, litter, serials>>
  BY DEF StoreBuildRef
<1>2. /\ Running(w) /\ hidden[w] = None /\ TypeInv /\ ControlType /\ WriterInv(w)
      /\ Subject(w) \in Hashes /\ Complete(Subject(w)) /\ records[Subject(w)] # None
  BY <1>1, SubjectReady
<1>3. Places(Op(w).op, pos[w], "map") /\ Op(w).op \in OpKinds /\ pos[w] \in Nat
  BY <1>1, Facts
<1>4. DiskType'
  BY <1>1, <1>2, OpType DEF TypeInv, DiskType
<1>5. Grows
  BY <1>1 DEF Grows, ContentKept, RecordsKept
<1>6. Moved(w) /\ (Gone(w, 1) \/ (Ended(w) /\ pos[w] + 1 > Len(Steps[Op(w).op])))
  BY <1>1, <1>2, AdvanceStep
<1>7. \A h \in Hashes : objects'[h] # None => objects'[h] = h
  BY <1>1 DEF Inv, StoreConsistent, ContentAddressed, Present
<1>8. MappingsComplete'
  <2>1. \A h : Complete(h)' <=> Complete(h)
    BY <1>1 DEF Complete, Present
  <2>2. \A b \in BuildKeys : builds'[b] = Subject(w) \/ builds'[b] = builds[b]
    BY <1>1, <1>2 DEF TypeInv, DiskType
  <2>3. Mapped' \subseteq Mapped \cup {Subject(w)}
    BY <1>1, <2>2 DEF Mapped
  <2>4. \A h \in Mapped' \ {None} : Complete(h)'
    BY <1>2, <2>1, <2>3 DEF Inv, StoreConsistent, MappingsComplete
  <2>5. \A b \in BuildKeys : builds'[b] # None => records'[builds'[b]] # None
    BY <1>1, <1>2, <2>2 DEF Inv, StoreConsistent, MappingsComplete
  <2>6. \A r \in ReuseKeys : reuses'[r] # None => records'[reuses'[r]] # None
    BY <1>1 DEF Inv, StoreConsistent, MappingsComplete
  <2> QED  BY <2>4, <2>5, <2>6 DEF MappingsComplete
<1>9. CASE Gone(w, 1)
  <2>1. pos[w] >= RecordedFrom[Op(w).op]
    BY <1>3, Froms DEF Places
  <2>2. pos[w] + 1 \notin {RefFrom[Op(w).op] + 1, RefFrom[Op(w).op] + 2}
    BY <1>3, Froms DEF Places
  <2>3. WriterInv(w)'
    BY <1>2, <1>3, <1>5, <1>9, <2>1, <2>2, LateWriter
  <2> QED  BY <1>1, <1>2, <1>4, <1>5, <1>6, <1>7, <1>8, <1>9, <2>3, Settle DEF Gone
<1>10. CASE Ended(w) /\ pos[w] + 1 > Len(Steps[Op(w).op])
  <2>1. ASSUME Op(w).op = "source" PROVE FALSE
    <3>1. Len(Steps[Op(w).op]) = 10 /\ pos[w] = 6
      BY <1>3, <2>1, Lengths DEF Places
    <3> QED  BY <1>10, <3>1
  <2> QED  BY <1>1, <1>2, <1>4, <1>5, <1>6, <1>7, <1>8, <1>10, <2>1, Settle
<1> QED  BY <1>6, <1>9, <1>10
\* What is known when an operation comes to update_object_ref.
LEMMA RefFacts ==
  ASSUME Inv, NEW w \in Writers, NEW s \in {"read", "alloc", "rotate", "replace"}, At(w, s)
  PROVE  /\ Running(w) /\ hidden[w] = None /\ TypeInv /\ ControlType /\ WriterInv(w)
         /\ Op(w).op \in Naming /\ Op(w).op \in OpKinds /\ pos[w] \in Nat /\ RefFrom[Op(w).op] \in Nat
         /\ Len(Steps[Op(w).op]) = RefFrom[Op(w).op] + 3
         /\ pos[w] >= RefFrom[Op(w).op] /\ RefFrom[Op(w).op] >= RecordedFrom[Op(w).op]
         /\ RecordedFrom[Op(w).op] \in Nat
         /\ Op(w).name \in RefNames /\ Subject(w) \in Hashes /\ Complete(Subject(w))
         /\ Op(w).op = "source" => Op(w).hash = Op(w).want
         /\ s = "read" => pos[w] = RefFrom[Op(w).op]
         /\ s = "alloc" => pos[w] = RefFrom[Op(w).op] + 1
         /\ s = "rotate" => pos[w] = RefFrom[Op(w).op] + 2
         /\ s = "replace" => pos[w] = RefFrom[Op(w).op] + 3
<1>1. /\ Running(w) /\ hidden[w] = None /\ Knows(w, pos[w]) /\ RefPlaces(Op(w).op, pos[w], s)
      /\ Op(w).op \in OpKinds /\ pos[w] \in Nat
  BY Facts
<1>2. TypeInv /\ ControlType /\ WriterInv(w) /\ Subject(w) \in Hashes /\ Op(w).name \in RefNames
  BY <1>1, OpType DEF Inv, TypeInv
<1>3. Op(w).op \in Naming
  BY <1>1 DEF RefPlaces
<1>4. /\ RefFrom[Op(w).op] \in Nat /\ RecordedFrom[Op(w).op] \in Nat /\ CompleteFrom[Op(w).op] \in Nat
      /\ RefFrom[Op(w).op] >= RecordedFrom[Op(w).op] /\ RefFrom[Op(w).op] >= CompleteFrom[Op(w).op]
      /\ RefFrom[Op(w).op] >= 4
  BY <1>3, Froms DEF Naming
<1>5. /\ s = "read" => pos[w] = RefFrom[Op(w).op]
      /\ s = "alloc" => pos[w] = RefFrom[Op(w).op] + 1
      /\ s = "rotate" => pos[w] = RefFrom[Op(w).op] + 2
      /\ s = "replace" => pos[w] = RefFrom[Op(w).op] + 3
      /\ Len(Steps[Op(w).op]) = RefFrom[Op(w).op] + 3
  BY <1>1, <1>3 DEF RefPlaces
<1>6. pos[w] >= RefFrom[Op(w).op]
  BY <1>4, <1>5
<1>7. pos[w] >= CompleteFrom[Op(w).op] /\ pos[w] >= 4
  BY <1>1, <1>4, <1>6
<1>8. Complete(Subject(w)) /\ (Op(w).op = "source" => Op(w).hash = Op(w).want)
  BY <1>1, <1>7 DEF Knows
<1> QED  BY <1>1, <1>2, <1>3, <1>4, <1>5, <1>6, <1>8

\* A writer in update_object_ref whose view of the ref changes.
LEMMA Looking ==
  ASSUME TypeInv, NEW w \in Writers, Running(w), WriterInv(w), Grows,
         Op(w).op \in Naming, pos[w] \in Nat, pos[w] >= RecordedFrom[Op(w).op],
         idx'[w] = idx[w], pos'[w] \in Nat, pos'[w] >= pos[w], pos'[w] <= Len(Steps[Op(w).op]),
         seen'[w].target \in Hashes \cup {None},
         seen'[w].target # None => Complete(seen'[w].target),
         seen'[w].target = None => pos'[w] \notin {RefFrom[Op(w).op] + 1, RefFrom[Op(w).op] + 2}
  PROVE  WriterInv(w)'
<1>1. Op(w)' = Op(w) /\ Subject(w)' = Subject(w)
  BY DEF Op, Subject
<1>2. Subject(w) \in Hashes
  BY OpType
<1>3. /\ RecordedFrom[Op(w).op] \in Nat /\ CompleteFrom[Op(w).op] \in Nat
      /\ RecordedFrom[Op(w).op] >= CompleteFrom[Op(w).op]
      /\ RecordedFrom[Op(w).op] >= 4
  BY Froms DEF Naming
<1>4. pos[w] >= CompleteFrom[Op(w).op] /\ pos[w] >= 4
  BY <1>3
<1>5. /\ Complete(Subject(w)) /\ records[Subject(w)] # None
      /\ Op(w).op = "build" => FilesOf[Op(w).hash] \subseteq files
      /\ Op(w).op \in {"source", "copy"} => Op(w).hash = Op(w).want
  BY <1>4 DEF WriterInv, Knows
<1>6. \A h \in Hashes : Complete(h) => objects'[h] # None /\ FilesOf[objects'[h]] \subseteq files'
  BY DEF TypeInv, DiskType, Grows, ContentKept, Complete, Present
<1>7. Complete(Subject(w))' /\ records'[Subject(w)'] # None
  BY <1>1, <1>2, <1>5, <1>6 DEF Complete, Present, Grows, RecordsKept
<1>8. Knows(w, pos[w])'
  BY <1>1, <1>5, <1>7 DEF Knows, Grows, ContentKept
<1>9. seen'[w].target # None => objects'[seen'[w].target] # None /\ FilesOf[objects'[seen'[w].target]] \subseteq files'
  BY <1>6
<1>10. SeenInv(w)'
  BY <1>1, <1>9 DEF SeenInv, Complete, Present
<1> QED  BY <1>1, <1>8, <1>10 DEF WriterInv

LEMMA ReadRefStep ==
  ASSUME Inv, NEW w \in Writers, ReadRef(w)
  PROVE  Inv'
<1> DEFINE cur == refs[Op(w).name]
<1>1. At(w, "read") /\ UNCHANGED disk
  BY DEF ReadRef
<1>2. /\ Running(w) /\ hidden[w] = None /\ TypeInv /\ ControlType /\ WriterInv(w)
      /\ Op(w).op \in Naming /\ pos[w] \in Nat /\ RefFrom[Op(w).op] \in Nat
      /\ Len(Steps[Op(w).op]) = RefFrom[Op(w).op] + 3
      /\ RefFrom[Op(w).op] >= RecordedFrom[Op(w).op] /\ RecordedFrom[Op(w).op] \in Nat
      /\ Op(w).name \in RefNames /\ pos[w] = RefFrom[Op(w).op]
      /\ Op(w).op = "source" => Op(w).hash = Op(w).want
  BY <1>1, RefFacts
<1>3. CASE cur = Subject(w)
  <2>1. Return(w, TRUE)
    BY <1>3 DEF ReadRef
  <2> QED  BY <1>1, <1>2, <2>1, QuietReturn
<1>4. CASE cur # Subject(w)
  <2>1. /\ seen' = [seen EXCEPT ![w] = [target |-> cur, n |-> 0]]
        /\ pos' = [pos EXCEPT ![w] = @ + (IF cur = None THEN 3 ELSE 1)]
        /\ UNCHANGED <<idx, todo, failed, crashes>>
    BY <1>4 DEF ReadRef
  <2>2. cur \in Hashes \cup {None}
    BY <1>2 DEF TypeInv, DiskType
  <2>3. seen' \in [Writers -> [target : Hashes \cup {None}, n : Nat]] /\ seen'[w].target = cur
    BY <1>2, <2>1, <2>2 DEF ControlType
  <2>4. /\ pos' \in [Writers -> Nat \ {0}]
        /\ pos'[w] = IF cur = None THEN RefFrom[Op(w).op] + 3 ELSE RefFrom[Op(w).op] + 1
    BY <1>2, <2>1 DEF ControlType
  <2>5. Moved(w) /\ idx'[w] = idx[w]
    BY <1>2, <2>1, <2>3, <2>4 DEF Moved, ControlType
  <2>6. cur # None => Complete(cur)
    BY <1>2 DEF Inv, StoreConsistent, MappingsComplete, Mapped
  <2>7. Grows
    BY <1>1 DEF disk, Grows, ContentKept, RecordsKept
  <2>8. /\ pos'[w] \in Nat /\ pos'[w] >= pos[w] /\ pos'[w] <= Len(Steps[Op(w).op])
        /\ pos[w] >= RecordedFrom[Op(w).op]
    BY <1>2, <2>4
  <2>9. cur = None => pos'[w] \notin {RefFrom[Op(w).op] + 1, RefFrom[Op(w).op] + 2}
    BY <1>2, <2>4
  <2>10. WriterInv(w)'
    BY <1>2, <2>2, <2>3, <2>5, <2>6, <2>7, <2>8, <2>9, Looking
  <2> QED  BY <1>1, <1>2, <2>5, <2>10, QuietStep
<1> QED  BY <1>3, <1>4

LEMMA AllocateGenerationStep ==
  ASSUME Inv, NEW w \in Writers, AllocateGeneration(w)
  PROVE  Inv'
<1>1. At(w, "alloc") /\ UNCHANGED disk
  BY DEF AllocateGeneration
<1>2. /\ Running(w) /\ hidden[w] = None /\ TypeInv /\ ControlType /\ WriterInv(w)
      /\ Op(w).op \in Naming /\ pos[w] \in Nat /\ RefFrom[Op(w).op] \in Nat
      /\ Len(Steps[Op(w).op]) = RefFrom[Op(w).op] + 3
      /\ RefFrom[Op(w).op] >= RecordedFrom[Op(w).op] /\ RecordedFrom[Op(w).op] \in Nat
      /\ pos[w] = RefFrom[Op(w).op] + 1
  BY <1>1, RefFacts
<1>12. CASE Return(w, FALSE)
  BY <1>1, <1>2, <1>12, QuietReturn
<1> SUFFICES ASSUME ~Return(w, FALSE) PROVE Inv'
  BY <1>12
<1>3. PICK k \in 1..MaxGenerations :
        /\ seen' = [seen EXCEPT ![w].n = k]
        /\ pos' = [pos EXCEPT ![w] = @ + 1] /\ UNCHANGED <<idx, todo, failed, crashes>>
  BY DEF AllocateGeneration
<1>4. pos' = [pos EXCEPT ![w] = @ + 1] /\ UNCHANGED <<idx, todo, failed, crashes>>
  BY <1>3
<1>5. /\ seen' \in [Writers -> [target : Hashes \cup {None}, n : Nat]]
      /\ seen'[w].target = seen[w].target
  <2>1. k \in Nat
    BY <1>3
  <2>2. seen[w] \in [target : Hashes \cup {None}, n : Nat]
    BY <1>2 DEF ControlType
  <2>3. seen' = [seen EXCEPT ![w] = [seen[w] EXCEPT !.n = k]]
    BY <1>3
  <2>4. /\ [seen[w] EXCEPT !.n = k] \in [target : Hashes \cup {None}, n : Nat]
        /\ [seen[w] EXCEPT !.n = k].target = seen[w].target
    BY <2>1, <2>2
  <2> QED  BY <1>2, <2>3, <2>4 DEF ControlType
<1>6. pos' \in [Writers -> Nat \ {0}] /\ pos'[w] = RefFrom[Op(w).op] + 2
  BY <1>2, <1>4 DEF ControlType
<1>7. Moved(w) /\ idx'[w] = idx[w]
  <2>1. ControlType'
    BY <1>2, <1>4, <1>5, <1>6 DEF ControlType
  <2>2. \A v \in Writers \ {w} : seen'[v] = seen[v]
    BY <1>2, <1>3 DEF ControlType
  <2>3. \A v \in Writers \ {w} : idx'[v] = idx[v] /\ pos'[v] = pos[v]
    BY <1>2, <1>4 DEF ControlType
  <2>4. crashes' >= crashes
    BY <1>2, <1>4 DEF ControlType
  <2> QED BY <1>4, <2>1, <2>2, <2>3, <2>4 DEF Moved
<1>8. seen[w].target # None /\ seen[w].target \in Hashes \cup {None} /\ Complete(seen[w].target)
  BY <1>2 DEF WriterInv, SeenInv, ControlType, Naming
<1>9. Grows
  BY <1>1 DEF disk, Grows, ContentKept, RecordsKept
<1>10. /\ pos'[w] \in Nat /\ pos'[w] >= pos[w] /\ pos'[w] <= Len(Steps[Op(w).op])
       /\ pos[w] >= RecordedFrom[Op(w).op]
  BY <1>2, <1>6
<1>11. WriterInv(w)'
  BY <1>2, <1>5, <1>7, <1>8, <1>9, <1>10, Looking
<1> QED  BY <1>1, <1>2, <1>7, <1>11, QuietStep
LEMMA RotateRefStep ==
  ASSUME Inv, NEW w \in Writers, RotateRef(w)
  PROVE  Inv'
<1> DEFINE e == [gen |-> Generation(w, seen[w].n), target |-> seen[w].target]
<1>1. /\ At(w, "rotate") /\ Advance(w, 1)
      /\ history' = {x \in history : x.gen # Generation(w, seen[w].n)} \cup {e}
      /\ UNCHANGED <<objects, files, records, builds, reuses, refs, hidden, litter, serials>>
  BY DEF RotateRef
<1>2. /\ Running(w) /\ hidden[w] = None /\ TypeInv /\ ControlType /\ WriterInv(w)
      /\ Op(w).op \in Naming /\ Op(w).op \in OpKinds /\ pos[w] \in Nat /\ RefFrom[Op(w).op] \in Nat
      /\ Len(Steps[Op(w).op]) = RefFrom[Op(w).op] + 3
      /\ RefFrom[Op(w).op] >= RecordedFrom[Op(w).op] /\ RecordedFrom[Op(w).op] \in Nat
      /\ pos[w] = RefFrom[Op(w).op] + 2 /\ Op(w).name \in RefNames
      /\ Op(w).op = "source" => Op(w).hash = Op(w).want
  BY <1>1, RefFacts
<1>3. /\ seen[w].target # None /\ seen[w].target \in Hashes \cup {None} /\ seen[w].n \in Nat
      /\ Complete(seen[w].target)
  BY <1>2 DEF WriterInv, SeenInv, ControlType, Naming
<1>4. DiskType'
  <2>1. e \in Generations
    BY <1>2, <1>3 DEF Generation, Generations
  <2>2. history' \subseteq Generations
    BY <1>1, <1>2, <2>1 DEF TypeInv, DiskType
  <2> QED  BY <1>1, <1>2, <2>2 DEF TypeInv, DiskType
<1>5. Grows
  BY <1>1 DEF Grows, ContentKept, RecordsKept
<1>6. Moved(w) /\ (Gone(w, 1) \/ (Ended(w) /\ pos[w] + 1 > Len(Steps[Op(w).op])))
  BY <1>1, <1>2, AdvanceStep
<1>7. \A h \in Hashes : objects'[h] # None => objects'[h] = h
  BY <1>1 DEF Inv, StoreConsistent, ContentAddressed, Present
<1>8. MappingsComplete'
  <2>1. \A h : Complete(h)' <=> Complete(h)
    BY <1>1 DEF Complete, Present
  <2>2. {x.target : x \in history'} \subseteq {x.target : x \in history} \cup {seen[w].target}
    BY <1>1
  <2>3. Mapped' \subseteq Mapped \cup {seen[w].target}
    BY <1>1, <2>2 DEF Mapped
  <2>4. \A h \in Mapped' \ {None} : Complete(h)'
    BY <1>3, <2>1, <2>3 DEF Inv, StoreConsistent, MappingsComplete
  <2> QED  BY <1>1, <2>4 DEF Inv, StoreConsistent, MappingsComplete
<1>9. CASE Gone(w, 1)
  <2>1. pos[w] >= RecordedFrom[Op(w).op]
    BY <1>2
  <2>2. WriterInv(w)'
    BY <1>2, <1>3, <1>5, <1>9, <2>1, LateWriter
  <2> QED  BY <1>1, <1>2, <1>4, <1>5, <1>6, <1>7, <1>8, <1>9, <2>2, Settle DEF Gone
<1>10. CASE Ended(w)
  BY <1>1, <1>2, <1>4, <1>5, <1>6, <1>7, <1>8, <1>10, Settle
<1> QED  BY <1>6, <1>9, <1>10

LEMMA ReplaceRefStep ==
  ASSUME Inv, NEW w \in Writers, ReplaceRef(w)
  PROVE  Inv'
<1>1. /\ At(w, "replace") /\ Advance(w, 1)
      /\ refs' = [refs EXCEPT ![Op(w).name] = Subject(w)]
      /\ UNCHANGED <<objects, files, records, builds, reuses, history, hidden, litter, serials>>
  BY DEF ReplaceRef
<1>2. /\ Running(w) /\ hidden[w] = None /\ TypeInv /\ ControlType /\ WriterInv(w)
      /\ pos[w] \in Nat /\ RefFrom[Op(w).op] \in Nat
      /\ Len(Steps[Op(w).op]) = RefFrom[Op(w).op] + 3 /\ pos[w] = RefFrom[Op(w).op] + 3
      /\ Op(w).name \in RefNames /\ Subject(w) \in Hashes /\ Complete(Subject(w))
      /\ Op(w).op = "source" => Op(w).hash = Op(w).want
  BY <1>1, RefFacts
<1>3. DiskType'
  BY <1>1, <1>2 DEF TypeInv, DiskType
<1>4. Grows
  BY <1>1 DEF Grows, ContentKept, RecordsKept
<1>5. Moved(w) /\ (Gone(w, 1) \/ (Ended(w) /\ pos[w] + 1 > Len(Steps[Op(w).op])))
  BY <1>1, <1>2, AdvanceStep
<1>6. Ended(w)
  BY <1>2, <1>5 DEF Gone
<1>7. \A h \in Hashes : objects'[h] # None => objects'[h] = h
  BY <1>1 DEF Inv, StoreConsistent, ContentAddressed, Present
<1>8. MappingsComplete'
  <2>1. \A h : Complete(h)' <=> Complete(h)
    BY <1>1 DEF Complete, Present
  <2>2. \A n \in RefNames : refs'[n] = Subject(w) \/ refs'[n] = refs[n]
    BY <1>1, <1>2 DEF TypeInv, DiskType
  <2>3. Mapped' \subseteq Mapped \cup {Subject(w)}
    BY <1>1, <2>2 DEF Mapped
  <2>4. \A h \in Mapped' \ {None} : Complete(h)'
    BY <1>2, <2>1, <2>3 DEF Inv, StoreConsistent, MappingsComplete
  <2> QED  BY <1>1, <2>4 DEF Inv, StoreConsistent, MappingsComplete
<1> QED  BY <1>1, <1>2, <1>3, <1>4, <1>5, <1>6, <1>7, <1>8, Settle

LEMMA CrashStep ==
  ASSUME Inv, NEW w \in Writers, Crash(w)
  PROVE  Inv'
<1>1. /\ Running(w) /\ crashes' = crashes + 1
      /\ pos' = [pos EXCEPT ![w] = 1] /\ todo' = [todo EXCEPT ![w] = ReuseKeysOf(w, idx[w])]
      /\ seen' = [seen EXCEPT ![w] = NothingSeen]
      /\ litter' = litter \cup [by : {w}, n : {serials[w]}, content : {hidden[w]} \ {None}]
      /\ serials' = [serials EXCEPT ![w] = 0] /\ hidden' = [hidden EXCEPT ![w] = None]
      /\ UNCHANGED <<objects, files, records, builds, reuses, refs, history, idx, failed>>
  BY DEF Crash
<1>2. TypeInv
  BY DEF Inv
<1>12. /\ litter' \subseteq [by : Writers, n : Nat, content : Hashes]
       /\ \A l \in litter' : l \in litter \/ l.by = w
  BY <1>1, <1>2 DEF TypeInv, DiskType
<1>3. DiskType'
  BY <1>1, <1>2, <1>12 DEF TypeInv, DiskType
<1>4. Grows
  BY <1>1 DEF Grows, ContentKept, RecordsKept
<1>5. ControlType'
  <2>1. todo' \in [Writers -> SUBSET ReuseKeys]
    BY <1>1, <1>2, ReuseKeysType DEF TypeInv, ControlType
  <2>2. seen' \in [Writers -> [target : Hashes \cup {None}, n : Nat]]
    BY <1>1, <1>2 DEF TypeInv, ControlType, NothingSeen
  <2> QED  BY <1>1, <1>2, <2>1, <2>2 DEF TypeInv, ControlType
<1>6. Moved(w) /\ idx'[w] = idx[w] /\ crashes' > 0
  BY <1>1, <1>2, <1>5 DEF Moved, TypeInv, ControlType
<1>7. pos'[w] = 1 /\ seen'[w] = NothingSeen
  BY <1>1, <1>2 DEF TypeInv, ControlType
<1>8. WriterInv(w)'
  BY <1>3, <1>5, <1>7, FreshWriter DEF TypeInv
<1>9. hidden'[w] = None /\ (\A v \in Writers \ {w} : hidden'[v] = hidden[v] /\ serials'[v] = serials[v])
  BY <1>1, <1>2 DEF TypeInv, DiskType
<1>10. MappingsComplete'
  BY <1>1, <1>2, <1>4, NamesKept DEF Inv, StoreConsistent
<1>11. \A h \in Hashes : objects'[h] # None => objects'[h] = h
  BY <1>1 DEF Inv, StoreConsistent, ContentAddressed, Present
<1> QED  BY <1>1, <1>3, <1>4, <1>6, <1>8, <1>9, <1>10, <1>11, <1>12, Settle

----------------------------------------------------------------------------
(* The invariant.                                                          *)

LEMMA InitInv == Init => Inv
<1> SUFFICES ASSUME Init PROVE Inv
  OBVIOUS
<1>1. DiskType
  BY DEF Init, DiskType
<1>2. ControlType
  BY ReuseKeysType DEF Init, ControlType, NothingSeen
<1>3. \A w \in Writers : WriterInv(w)
  <2> SUFFICES ASSUME NEW w \in Writers, Running(w) PROVE WriterInv(w)
    BY DEF WriterInv
  <2>1. pos[w] = 1 /\ seen[w].target = None /\ Op(w).op \in OpKinds
    BY <1>1, <1>2, OpType DEF Init, NothingSeen, TypeInv
  <2>2. \A op \in OpKinds : /\ CompleteFrom[op] \in Nat \ {0, 1} /\ RecordedFrom[op] \in Nat \ {0, 1}
                            /\ RefFrom[op] \in Nat \ {0, 1}
    BY DEF OpKinds, CompleteFrom, RecordedFrom, RefFrom
  <2>3. 1 <= Len(Steps[Op(w).op])
    BY <2>1, StepsNonempty
  <2> QED  BY <2>1, <2>2, <2>3 DEF WriterInv, Knows, SeenInv
<1>4. MappingsComplete
  BY DEF Init, MappingsComplete, Mapped
<1>5. ContentAddressed
  BY DEF Init, ContentAddressed, Present
<1>6. MismatchReported
  BY DEF Init, MismatchReported
<1> QED  BY <1>1, <1>2, <1>3, <1>4, <1>5, <1>6 DEF Inv, TypeInv, StoreConsistent

LEMMA NextInv == Inv /\ [Next]_vars => Inv'
<1> SUFFICES ASSUME Inv, [Next]_vars PROVE Inv'
  OBVIOUS
<1>1. CASE UNCHANGED vars
  <2>1. UNCHANGED <<objects, files, records, builds, reuses, refs, history, hidden, litter, serials>>
    BY <1>1 DEF vars, disk
  <2>2. UNCHANGED <<idx, pos, todo, seen, failed, crashes>>
    BY <1>1 DEF vars, control
  <2>3. TypeInv'
    BY <2>1, <2>2 DEF Inv, TypeInv, DiskType, ControlType
  <2>4. \A v \in Writers : WriterInv(v)'
    BY <2>1, <2>2, Standing DEF Inv, Grows, ContentKept, RecordsKept
  <2>5. MappingsComplete' /\ MismatchReported'
    BY <2>1, <2>2 DEF Inv, StoreConsistent, MappingsComplete, MismatchReported, Mapped, Complete, Present
  <2>6. ContentAddressed'
    BY <2>1, <2>2 DEF Inv, StoreConsistent, ContentAddressed, Present, At, Running, Op, Left
  <2> QED  BY <2>3, <2>4, <2>5, <2>6 DEF Inv, StoreConsistent
<1>2. ASSUME NEW w \in Writers, Work(w) PROVE Inv'
  BY <1>2, InternFileStep, LookupObjectStep, FetchFilesStep, ExpectHashStep, ImportExistsStep,
     HideReadOnlyStep, PublishObjectStep, VerifySourceStep, SourcePresentStep, CheckCompleteStep,
     RecordExistsStep, RecordWriteStep, StoreReuseRefStep, StoreBuildRefStep, ReadRefStep,
     AllocateGenerationStep, RotateRefStep, ReplaceRefStep DEF Work
<1>3. ASSUME NEW w \in Writers, IoError(w) PROVE Inv'
  BY <1>3, HideFailsStep, PublishFailsStep DEF IoError
<1>4. ASSUME NEW w \in Writers, Crash(w) PROVE Inv'
  BY <1>4, CrashStep
<1> QED  BY <1>1, <1>2, <1>3, <1>4 DEF Next

\* The inductive invariant holds in every reachable state.
THEOREM Invariant == Spec => []Inv
BY InitInv, NextInv, PTL DEF Spec

\* After every step, crash and race the disk is consistent, for any number of
\* writers and any scripts: import_build, import_source_object,
\* publish_existing_build, the mapping operations, update_object_ref and the
\* copies from a repository only ever make complete and recorded content
\* visible, objects/<hash> holds what hashes to <hash>, a hidden import name
\* outlives its writer's publication only through a crash, and a source whose
\* origin produced other content fails.
THEOREM StoreAlwaysConsistent == Spec => []StoreConsistent
BY Invariant, PTL DEF Inv
----------------------------------------------------------------------------
(* Refinement.                                                             *)

\* No step takes content away.
LEMMA StepKeepsContent ==
  ASSUME Inv, [Next]_vars
  PROVE  ContentKept
<1>1. CASE UNCHANGED vars
  BY <1>1 DEF vars, disk, ContentKept
<1>2. ASSUME NEW w \in Writers, PublishObject(w) PROVE ContentKept
  BY <1>2, PublishObjectStep DEF Grows
<1>3. ASSUME NEW w \in Writers, Work(w), ~PublishObject(w) PROVE ContentKept
  <2>1. files \subseteq files' /\ objects' = objects
    BY <1>3 DEF Work, InternFile, LookupObject, FetchFiles, ExpectHash, ImportExists, HideReadOnly,
       VerifySource, SourcePresent, CheckComplete, RecordExists, RecordWrite, StoreReuseRef,
       StoreBuildRef, ReadRef, AllocateGeneration, RotateRef, ReplaceRef, disk
  <2> QED  BY <2>1 DEF ContentKept
<1>4. ASSUME NEW w \in Writers, IoError(w) \/ Crash(w) PROVE ContentKept
  BY <1>4 DEF IoError, HideFails, PublishFails, Crash, disk, ContentKept
<1> QED  BY <1>1, <1>2, <1>3, <1>4 DEF Next

\* A step that binds no name adds content or stutters.
LEMMA AddingStep ==
  ASSUME Inv, [Next]_vars, UNCHANGED <<builds, reuses, refs>>
  PROVE  Content!AddContent
<1>1. ContentKept /\ TypeInv
  BY StepKeepsContent DEF Inv
<1>2. CompleteContents \subseteq CompleteContents'
  BY <1>1, CompleteKept DEF CompleteContents
<1>3. Bindings' = Bindings
  BY DEF Bindings
<1> QED  BY <1>2, <1>3 DEF Content!AddContent

LEMMA BindingOf ==
  /\ \A k \in BuildKeys : <<"build", k>> \in StoreNames /\ Bindings[<<"build", k>>] = builds[k]
  /\ \A k \in ReuseKeys : <<"reuse", k>> \in StoreNames /\ Bindings[<<"reuse", k>>] = reuses[k]
  /\ \A k \in RefNames : <<"ref", k>> \in StoreNames /\ Bindings[<<"ref", k>>] = refs[k]
BY DEF Bindings, StoreNames

LEMMA BindingOfNext ==
  /\ \A k \in BuildKeys : Bindings'[<<"build", k>>] = builds'[k]
  /\ \A k \in ReuseKeys : Bindings'[<<"reuse", k>>] = reuses'[k]
  /\ \A k \in RefNames : Bindings'[<<"ref", k>>] = refs'[k]
BY DEF Bindings, StoreNames

\* One name gets a new binding.
LEMMA Rebound ==
  ASSUME NEW m \in StoreNames, NEW h,
         \A k \in BuildKeys : builds'[k] = IF m = <<"build", k>> THEN h ELSE builds[k],
         \A k \in ReuseKeys : reuses'[k] = IF m = <<"reuse", k>> THEN h ELSE reuses[k],
         \A k \in RefNames : refs'[k] = IF m = <<"ref", k>> THEN h ELSE refs[k]
  PROVE  Bindings' = [Bindings EXCEPT ![m] = h]
<1>1. \A n \in StoreNames : Bindings'[n] = IF n = m THEN h ELSE Bindings[n]
  <2> TAKE n \in StoreNames
  <2>1. CASE n \in {"build"} \X BuildKeys
    <3>1. PICK k \in BuildKeys : n = <<"build", k>>
      BY <2>1
    <3> QED  BY <3>1, BindingOf, BindingOfNext
  <2>2. CASE n \in {"reuse"} \X ReuseKeys
    <3>1. PICK k \in ReuseKeys : n = <<"reuse", k>>
      BY <2>2
    <3> QED  BY <3>1, BindingOf, BindingOfNext
  <2>3. CASE n \in {"ref"} \X RefNames
    <3>1. PICK k \in RefNames : n = <<"ref", k>>
      BY <2>3
    <3> QED  BY <3>1, BindingOf, BindingOfNext
  <2> QED  BY <2>1, <2>2, <2>3 DEF StoreNames
<1>2. Bindings \in [StoreNames -> {Bindings[n] : n \in StoreNames}]
  BY DEF Bindings
<1>3. Bindings' \in [StoreNames -> {Bindings'[n] : n \in StoreNames}]
  BY DEF Bindings
<1> QED  BY <1>1, <1>2, <1>3

\* The three steps that bind a name bind it to complete content.
LEMMA BindBuild ==
  ASSUME Inv, NEW w \in Writers, StoreBuildRef(w)
  PROVE  Content!Bind(<<"build", Key(w)>>, Subject(w))
<1>1. /\ At(w, "map") /\ builds' = [builds EXCEPT ![Key(w)] = Subject(w)]
      /\ UNCHANGED <<objects, files, reuses, refs>>
  BY DEF StoreBuildRef
<1>2. Running(w) /\ TypeInv /\ Subject(w) \in Hashes /\ Complete(Subject(w))
  BY <1>1, SubjectReady
<1>3. Key(w) \in BuildKeys
  BY <1>2, OpType
<1>4. CompleteContents' = CompleteContents /\ Subject(w) \in CompleteContents
  BY <1>1, <1>2 DEF CompleteContents, Complete, Present
<1>5. Bindings' = [Bindings EXCEPT ![<<"build", Key(w)>>] = Subject(w)]
  <2>1. \A k \in BuildKeys : builds'[k] = IF k = Key(w) THEN Subject(w) ELSE builds[k]
    BY <1>1, <1>2 DEF TypeInv, DiskType
  <2> QED  BY <1>1, <1>3, <2>1, BindingOf, Rebound
<1> QED  BY <1>4, <1>5 DEF Content!Bind

LEMMA BindReuse ==
  ASSUME Inv, NEW w \in Writers, StoreReuseRef(w), reuses' # reuses
  PROVE  \E k \in ReuseKeys : Content!Bind(<<"reuse", k>>, Subject(w))
<1>1. At(w, "reuse") /\ UNCHANGED <<objects, files, builds, refs>>
  BY DEF StoreReuseRef
<1>2. /\ Running(w) /\ TypeInv /\ ControlType
      /\ Subject(w) \in Hashes /\ Complete(Subject(w))
  BY <1>1, SubjectReady
<1>3. PICK k \in todo[w] : reuses' = [reuses EXCEPT ![k] = Subject(w)]
  BY DEF StoreReuseRef
<1>4. k \in ReuseKeys
  BY <1>2, <1>3 DEF ControlType
<1>5. CompleteContents' = CompleteContents /\ Subject(w) \in CompleteContents
  BY <1>1, <1>2 DEF CompleteContents, Complete, Present
<1>6. Bindings' = [Bindings EXCEPT ![<<"reuse", k>>] = Subject(w)]
  <2>1. \A r \in ReuseKeys : reuses'[r] = IF r = k THEN Subject(w) ELSE reuses[r]
    BY <1>2, <1>3 DEF TypeInv, DiskType
  <2> QED  BY <1>1, <1>4, <2>1, BindingOf, Rebound
<1> QED  BY <1>4, <1>5, <1>6 DEF Content!Bind

LEMMA BindRef ==
  ASSUME Inv, NEW w \in Writers, ReplaceRef(w)
  PROVE  Content!Bind(<<"ref", Op(w).name>>, Subject(w))
<1>1. /\ At(w, "replace") /\ refs' = [refs EXCEPT ![Op(w).name] = Subject(w)]
      /\ UNCHANGED <<objects, files, builds, reuses>>
  BY DEF ReplaceRef
<1>2. TypeInv /\ Op(w).name \in RefNames /\ Subject(w) \in Hashes /\ Complete(Subject(w))
  BY <1>1, RefFacts
<1>3. CompleteContents' = CompleteContents /\ Subject(w) \in CompleteContents
  BY <1>1, <1>2 DEF CompleteContents, Complete, Present
<1>4. Bindings' = [Bindings EXCEPT ![<<"ref", Op(w).name>>] = Subject(w)]
  <2>1. \A n \in RefNames : refs'[n] = IF n = Op(w).name THEN Subject(w) ELSE refs[n]
    BY <1>1, <1>2 DEF TypeInv, DiskType
  <2> QED  BY <1>1, <1>2, <2>1, BindingOf, Rebound
<1> QED  BY <1>3, <1>4 DEF Content!Bind

\* The working store implements the abstract content store: its content only
\* grows, and every build mapping, reuse mapping and object ref is bound, one
\* at a time, to content that is complete at that moment.
THEOREM StoreImplementsContentStore == Spec => ImplementsContentStore
<1>1. Init => Content!ContentInit
  <2> SUFFICES ASSUME Init PROVE Content!ContentInit
    OBVIOUS
  <2>1. CompleteContents = {}
    BY DEF Init, CompleteContents, Complete, Present
  <2>2. \A n \in StoreNames : Bindings[n] = None
    BY DEF Init, Bindings, StoreNames
  <2>3. Bindings = [n \in StoreNames |-> None]
    BY <2>2 DEF Bindings
  <2> QED  BY <2>1, <2>3 DEF Content!ContentInit
<1>2. Inv /\ [Next]_vars => [Content!ContentNext]_<<CompleteContents, Bindings>>
  <2> SUFFICES ASSUME Inv, [Next]_vars PROVE [Content!ContentNext]_<<CompleteContents, Bindings>>
    OBVIOUS
  <2>1. CASE UNCHANGED <<builds, reuses, refs>>
    BY <2>1, AddingStep DEF Content!ContentNext
  <2>2. ASSUME NEW w \in Writers, StoreBuildRef(w)
        PROVE  Content!ContentNext
    <3>1. At(w, "map")
      BY <2>2 DEF StoreBuildRef
    <3>2. Subject(w) \in Hashes /\ <<"build", Key(w)>> \in StoreNames
      BY <3>1, SubjectReady, OpType DEF StoreNames
    <3> QED  BY <2>2, <3>2, BindBuild DEF Content!ContentNext
  <2>3. ASSUME NEW w \in Writers, StoreReuseRef(w), reuses' # reuses
        PROVE  Content!ContentNext
    <3>1. Subject(w) \in Hashes
      BY <2>3, SubjectReady DEF StoreReuseRef
    <3>2. \A k \in ReuseKeys : <<"reuse", k>> \in StoreNames
      BY DEF StoreNames
    <3> QED  BY <2>3, <3>1, <3>2, BindReuse DEF Content!ContentNext
  <2>4. ASSUME NEW w \in Writers, ReplaceRef(w)
        PROVE  Content!ContentNext
    <3>1. At(w, "replace")
      BY <2>4 DEF ReplaceRef
    <3>2. Subject(w) \in Hashes /\ <<"ref", Op(w).name>> \in StoreNames
      BY <3>1, RefFacts DEF StoreNames
    <3> QED  BY <2>4, <3>2, BindRef DEF Content!ContentNext
  <2>5. \/ UNCHANGED <<builds, reuses, refs>>
        \/ \E w \in Writers : \/ StoreBuildRef(w) \/ ReplaceRef(w)
                              \/ (StoreReuseRef(w) /\ reuses' # reuses)
    <3>1. CASE UNCHANGED vars
      BY <3>1 DEF vars, disk
    <3>2. ASSUME NEW w \in Writers, IoError(w) \/ Crash(w) PROVE UNCHANGED <<builds, reuses, refs>>
      BY <3>2 DEF IoError, HideFails, PublishFails, Crash, disk
    <3>3. ASSUME NEW w \in Writers, Work(w), ~StoreBuildRef(w), ~ReplaceRef(w), ~StoreReuseRef(w)
          PROVE  UNCHANGED <<builds, reuses, refs>>
      BY <3>3 DEF Work, InternFile, LookupObject, FetchFiles, ExpectHash, ImportExists, HideReadOnly,
         PublishObject, VerifySource, SourcePresent, CheckComplete, RecordExists, RecordWrite,
         ReadRef, AllocateGeneration, RotateRef, disk
    <3>4. ASSUME NEW w \in Writers, StoreReuseRef(w) PROVE UNCHANGED <<builds, refs>>
      BY <3>4 DEF StoreReuseRef
    <3> QED  BY <3>1, <3>2, <3>3, <3>4 DEF Next
  <2> QED  BY <2>1, <2>2, <2>3, <2>4, <2>5
<1> QED  BY <1>1, <1>2, Invariant, PTL DEF Spec, ImplementsContentStore, Content!ContentSpec
----------------------------------------------------------------------------
(* Nothing is lost.                                                        *)

RefsInv == \A w \in Writers : RefInv(w)

\* Where a running writer stands in update_object_ref.
LEMMA RefAt ==
  \A w \in Writers : TypeInv /\ WriterInv(w) /\ Running(w) =>
    /\ RefFrom[Op(w).op] \in Nat /\ RefFrom[Op(w).op] >= 2
    /\ At(w, "rotate") <=> pos[w] = RefFrom[Op(w).op] + 2
    /\ At(w, "replace") <=> pos[w] = RefFrom[Op(w).op] + 3
    /\ pos[w] > RefFrom[Op(w).op] => InUpdate(w, Op(w).name)
<1> SUFFICES ASSUME NEW w \in Writers, TypeInv, WriterInv(w), Running(w)
             PROVE  /\ RefFrom[Op(w).op] \in Nat /\ RefFrom[Op(w).op] >= 2
                    /\ At(w, "rotate") <=> pos[w] = RefFrom[Op(w).op] + 2
                    /\ At(w, "replace") <=> pos[w] = RefFrom[Op(w).op] + 3
                    /\ pos[w] > RefFrom[Op(w).op] => InUpdate(w, Op(w).name)
  OBVIOUS
<1>1. Op(w).op \in OpKinds /\ pos[w] \in Nat /\ pos[w] <= Len(Steps[Op(w).op])
  BY OpType DEF TypeInv, ControlType, WriterInv
<1>2. RefPlaces(Op(w).op, pos[w], Steps[Op(w).op][pos[w]])
  BY Where
<1>3. RefFrom[Op(w).op] \in Nat /\ RefFrom[Op(w).op] >= 2
  BY <1>1, Froms DEF OpKinds
<1>4. At(w, "rotate") <=> pos[w] = RefFrom[Op(w).op] + 2
  BY <1>2 DEF At, RefPlaces
<1>5. At(w, "replace") <=> pos[w] = RefFrom[Op(w).op] + 3
  BY <1>2 DEF At, RefPlaces
<1>6. ASSUME Op(w).op \notin Naming PROVE pos[w] <= RefFrom[Op(w).op]
  <2>1. Op(w).op \in {"mapping", "reuseMapping", "copy"}
    BY <1>1, <1>6 DEF OpKinds, Naming
  <2>2. RefFrom[Op(w).op] = 12
    BY <2>1, Froms
  <2>3. Len(Steps[Op(w).op]) \in {3, 4, 5}
    BY <2>1, Lengths
  <2>4. \A l \in {3, 4, 5} : pos[w] <= l => pos[w] <= 12
    BY <1>1
  <2> QED  BY <1>1, <2>2, <2>3, <2>4
<1>7. ASSUME pos[w] > RefFrom[Op(w).op] PROVE InUpdate(w, Op(w).name)
  <2>1. At(w, "alloc") <=> pos[w] = RefFrom[Op(w).op] + 1
    BY <1>2 DEF At, RefPlaces
  <2>2. Op(w).op \in Naming
    BY <1>1, <1>3, <1>6, <1>7
  <2>3. Len(Steps[Op(w).op]) = RefFrom[Op(w).op] + 3
    <3>1. CASE Op(w).op = "build"  BY <3>1, Lengths, Froms
    <3>2. CASE Op(w).op = "existing"  BY <3>2, Lengths, Froms
    <3>3. CASE Op(w).op = "source"  BY <3>3, Lengths, Froms
    <3>4. CASE Op(w).op = "sourceHit"  BY <3>4, Lengths, Froms
    <3> QED  BY <2>2, <3>1, <3>2, <3>3, <3>4 DEF Naming
  <2>4. pos[w] \in {RefFrom[Op(w).op] + 1, RefFrom[Op(w).op] + 2, RefFrom[Op(w).op] + 3}
    BY <1>1, <1>3, <1>7, <2>3
  <2> QED  BY <1>4, <1>5, <2>1, <2>4 DEF InUpdate
<1> QED  BY <1>1, <1>3, <1>4, <1>5, <1>7

LEMMA RefAtNext ==
  \A w \in Writers : TypeInv' /\ WriterInv(w)' /\ Running(w)' =>
    /\ (RefFrom[Op(w).op])' \in Nat /\ (RefFrom[Op(w).op])' >= 2
    /\ At(w, "rotate")' <=> pos'[w] = (RefFrom[Op(w).op])' + 2
    /\ At(w, "replace")' <=> pos'[w] = (RefFrom[Op(w).op])' + 3
<1>1. (\A w \in Writers : TypeInv /\ WriterInv(w) /\ Running(w) =>
         /\ RefFrom[Op(w).op] \in Nat /\ RefFrom[Op(w).op] >= 2
         /\ At(w, "rotate") <=> pos[w] = RefFrom[Op(w).op] + 2
         /\ At(w, "replace") <=> pos[w] = RefFrom[Op(w).op] + 3
         /\ pos[w] > RefFrom[Op(w).op] => InUpdate(w, Op(w).name))'
  BY RefAt, PTL
<1> QED  BY <1>1

\* Before update_object_ref there is nothing to keep.
LEMMA Early ==
  ASSUME Inv', NEW w \in Writers, Running(w)' => pos'[w] <= (RefFrom[Op(w).op])'
  PROVE  RefInv(w)'
<1>1. CASE ~Running(w)'
  BY <1>1 DEF RefInv, At
<1>2. CASE Running(w)'
  <2>1. TypeInv' /\ WriterInv(w)'
    BY DEF Inv
  <2>2. /\ (RefFrom[Op(w).op])' \in Nat
        /\ At(w, "rotate")' <=> pos'[w] = (RefFrom[Op(w).op])' + 2
        /\ At(w, "replace")' <=> pos'[w] = (RefFrom[Op(w).op])' + 3
    BY <1>2, <2>1, RefAtNext
  <2>3. pos'[w] \in Nat
    BY <2>1 DEF TypeInv, ControlType
  <2>4. ~At(w, "rotate")' /\ ~At(w, "replace")' /\ ~(pos'[w] > (RefFrom[Op(w).op])')
    BY <1>2, <2>2, <2>3
  <2> QED  BY <2>4 DEF RefInv
<1> QED  BY <1>1, <1>2

\* A writer that has returned or died is before it.
LEMMA Restarted ==
  ASSUME Inv', NEW w \in Writers, pos'[w] = 1
  PROVE  RefInv(w)'
<1>1. TypeInv' /\ WriterInv(w)'
  BY DEF Inv
<1>2. Running(w)' => (RefFrom[Op(w).op])' \in Nat /\ (RefFrom[Op(w).op])' >= 2
  BY <1>1, RefAtNext
<1>3. Running(w)' => pos'[w] <= (RefFrom[Op(w).op])'
  BY <1>2
<1> QED  BY <1>3, Early

\* So is one that has gone on from a step before it.
LEMMA GoneEarly ==
  ASSUME Inv, Inv', NEW w \in Writers, NEW n \in {1, 2}, Advance(w, n), pos[w] + n <= RefFrom[Op(w).op]
  PROVE  RefInv(w)' /\ Moved(w)
<1>1. Moved(w) /\ (Gone(w, n) \/ (Ended(w) /\ pos[w] + n > Len(Steps[Op(w).op])))
  BY AdvanceStep DEF Inv, TypeInv
<1>2. CASE Gone(w, n)
  <2>1. idx'[w] = idx[w] /\ pos'[w] = pos[w] + n
    BY <1>2 DEF Gone
  <2>2. (RefFrom[Op(w).op])' = RefFrom[Op(w).op]
    BY <2>1 DEF Op
  <2> QED  BY <1>1, <2>1, <2>2, Early
<1>3. CASE Ended(w)
  BY <1>1, <1>3, Restarted DEF Ended
<1> QED  BY <1>1, <1>2, <1>3

LEMMA ReturnEarly ==
  ASSUME Inv, Inv', NEW w \in Writers, NEW ok, Return(w, ok)
  PROVE  RefInv(w)' /\ Moved(w)
<1>1. Moved(w) /\ Ended(w)
  BY ReturnStep DEF Inv, TypeInv
<1> QED  BY <1>1, Restarted DEF Ended

\* The part of the invariant that is about a writer that stands still.
LEMMA RefStanding ==
  ASSUME NEW v \in Writers, idx'[v] = idx[v], pos'[v] = pos[v], seen'[v] = seen[v], RefInv(v),
         refs' = refs, history' = history, raced \subseteq raced'
  PROVE  RefInv(v)'
<1>1. Op(v)' = Op(v) /\ Running(v)' = Running(v) /\ At(v, "rotate")' = At(v, "rotate")
      /\ At(v, "replace")' = At(v, "replace")
  BY DEF Op, Running, At
<1>2. Generation(v, seen[v].n)' = Generation(v, seen[v].n)
  BY <1>1 DEF Generation
<1>3. Taken(Generation(v, seen[v].n))' = Taken(Generation(v, seen[v].n))
  BY <1>2 DEF Taken
<1> QED  BY <1>1, <1>3 DEF RefInv
EarlySteps == {"intern", "import", "publish", "record", "write", "reuse", "map", "check", "verify",
               "present", "lookup", "fetch", "expect"}

LEMMA BeforeRefs ==
  ASSUME Inv, NEW w \in Writers, NEW s \in EarlySteps, At(w, s)
  PROVE  /\ pos[w] + 1 <= RefFrom[Op(w).op]
         /\ s \in {"import", "record"} => pos[w] + 2 <= RefFrom[Op(w).op]
<1>1. Places(Op(w).op, pos[w], s) /\ pos[w] \in Nat
  BY Facts
<1>2. CASE s \in {"intern", "import", "publish", "record"}
  BY <1>1, <1>2, Froms DEF Places
<1>3. CASE s \in {"write", "reuse", "map"}
  BY <1>1, <1>3, Froms DEF Places
<1>4. CASE s \in {"check", "verify", "present", "lookup", "fetch", "expect"}
  BY <1>1, <1>4, Froms DEF Places
<1> QED  BY <1>2, <1>3, <1>4 DEF EarlySteps

\* The steps before update_object_ref.
LEMMA EarlyAction ==
  ASSUME Inv, Inv', RefsInv, raced \subseteq raced', NEW w \in Writers, NEW s \in EarlySteps, At(w, s),
         refs' = refs, history' = history,
         \/ Advance(w, 1)
         \/ s \in {"import", "record"} /\ Advance(w, 2)
         \/ Return(w, TRUE)
         \/ Return(w, FALSE)
         \/ UNCHANGED <<idx, pos, seen>>
  PROVE  RefsInv'
<1>1. pos[w] + 1 <= RefFrom[Op(w).op] /\ (s \in {"import", "record"} => pos[w] + 2 <= RefFrom[Op(w).op])
  BY BeforeRefs
<1>2. CASE UNCHANGED <<idx, pos, seen>>
  BY <1>2, RefStanding DEF RefsInv
<1>3. CASE ~UNCHANGED <<idx, pos, seen>>
  <2>1. RefInv(w)' /\ Moved(w)
    BY <1>1, <1>3, GoneEarly, ReturnEarly
  <2>2. \A v \in Writers \ {w} : RefInv(v)'
    BY <2>1, RefStanding DEF Moved, RefsInv
  <2> QED  BY <2>1, <2>2 DEF RefsInv
<1> QED  BY <1>2, <1>3

\* Two writers in update_object_ref are there for different names, or the
\* name is one of those that were raced for.
LEMMA OwnNames ==
  ASSUME Inv, Overlapping \subseteq raced, NEW v \in Writers, NEW w \in Writers, v # w,
         InUpdate(v, Op(v).name), InUpdate(w, Op(w).name), Op(v).name \notin raced
  PROVE  Op(v).name # Op(w).name
<1>1. Op(v).name \in RefNames
  BY OpType DEF Inv, InUpdate, At
<1> QED  BY <1>1 DEF Overlapping

LEMMA ReadRefRefs ==
  ASSUME Inv, Inv', RefsInv, raced \subseteq raced', NEW w \in Writers, ReadRef(w)
  PROVE  RefsInv'
<1> DEFINE cur == refs[Op(w).name]
<1>1. At(w, "read") /\ refs' = refs /\ history' = history
  BY DEF ReadRef, disk
<1>2. /\ Running(w) /\ TypeInv /\ ControlType
      /\ RefFrom[Op(w).op] \in Nat /\ pos[w] = RefFrom[Op(w).op]
  BY <1>1, RefFacts
<1>3. CASE Return(w, TRUE)
  <2>1. RefInv(w)' /\ Moved(w)
    BY <1>3, ReturnEarly
  <2> QED  BY <1>1, <2>1, RefStanding DEF Moved, RefsInv
<1>4. CASE /\ seen' = [seen EXCEPT ![w] = [target |-> cur, n |-> 0]]
           /\ pos' = [pos EXCEPT ![w] = @ + (IF cur = None THEN 3 ELSE 1)]
           /\ UNCHANGED idx
  <2>1. seen'[w].target = cur
    BY <1>2, <1>4 DEF ControlType
  <2>2. pos'[w] = IF cur = None THEN RefFrom[Op(w).op] + 3 ELSE RefFrom[Op(w).op] + 1
    BY <1>2, <1>4 DEF ControlType
  <2>3. Op(w)' = Op(w) /\ Running(w)'
    BY <1>2, <1>4 DEF Op, Running
  <2>4. TypeInv' /\ WriterInv(w)'
    BY DEF Inv
  <2>5. /\ At(w, "rotate")' <=> pos'[w] = RefFrom[Op(w).op] + 2
        /\ At(w, "replace")' <=> pos'[w] = RefFrom[Op(w).op] + 3
    BY <2>3, <2>4, RefAtNext
  <2>6. ~At(w, "rotate")' /\ (At(w, "replace")' => cur = None)
    BY <1>2, <2>2, <2>5
  <2>7. RefInv(w)'
    BY <1>1, <2>1, <2>3, <2>6 DEF RefInv
  <2>8. \A v \in Writers \ {w} : idx'[v] = idx[v] /\ pos'[v] = pos[v] /\ seen'[v] = seen[v]
    BY <1>2, <1>4 DEF ControlType
  <2> QED  BY <1>1, <2>7, <2>8, RefStanding DEF RefsInv
<1> QED  BY <1>3, <1>4 DEF ReadRef

LEMMA AllocateGenerationRefs ==
  ASSUME Inv, Inv', RefsInv, raced \subseteq raced', NEW w \in Writers, AllocateGeneration(w)
  PROVE  RefsInv'
<1>1. At(w, "alloc") /\ refs' = refs /\ history' = history
  BY DEF AllocateGeneration, disk
<1>2. /\ Running(w) /\ TypeInv /\ ControlType /\ RefFrom[Op(w).op] \in Nat
      /\ pos[w] = RefFrom[Op(w).op] + 1
  BY <1>1, RefFacts
<1>15. CASE Return(w, FALSE)
  <2>1. RefInv(w)' /\ Moved(w)
    BY <1>15, ReturnEarly
  <2> QED  BY <1>1, <2>1, RefStanding DEF Moved, RefsInv
<1> SUFFICES ASSUME ~Return(w, FALSE) PROVE RefsInv'
  BY <1>15
<1>3. PICK k \in 1..MaxGenerations :
        /\ ~Taken(Generation(w, k)) /\ seen' = [seen EXCEPT ![w].n = k]
        /\ pos' = [pos EXCEPT ![w] = @ + 1] /\ UNCHANGED idx
  BY DEF AllocateGeneration
<1>4. pos' = [pos EXCEPT ![w] = @ + 1] /\ UNCHANGED idx
  BY <1>3
<1>5. seen'[w].n = k /\ seen'[w].target = seen[w].target
  <2>1. seen[w] \in [target : Hashes \cup {None}, n : Nat] /\ seen'[w] = [seen[w] EXCEPT !.n = k]
    BY <1>2, <1>3 DEF ControlType
  <2> QED  BY <2>1
<1>6. pos'[w] = RefFrom[Op(w).op] + 2
  BY <1>2, <1>4 DEF ControlType
<1>7. Op(w)' = Op(w) /\ Running(w)'
  BY <1>2, <1>4 DEF Op, Running
<1>8. TypeInv' /\ WriterInv(w)'
  BY DEF Inv
<1>9. At(w, "replace")' <=> pos'[w] = RefFrom[Op(w).op] + 3
  BY <1>7, <1>8, RefAtNext
<1>10. ~At(w, "replace")'
  BY <1>2, <1>6, <1>9
<1>11. Op(w).name \notin raced => refs[Op(w).name] = seen[w].target
  BY <1>2 DEF RefsInv, RefInv
<1>12. ~Taken(Generation(w, seen[w].n))'
  BY <1>1, <1>3, <1>5, <1>7 DEF Taken, Generation
<1>13. RefInv(w)'
  BY <1>1, <1>5, <1>7, <1>10, <1>11, <1>12 DEF RefInv
<1>14. \A v \in Writers \ {w} : idx'[v] = idx[v] /\ pos'[v] = pos[v] /\ seen'[v] = seen[v]
  BY <1>2, <1>3, <1>4 DEF ControlType
<1> QED  BY <1>1, <1>13, <1>14, RefStanding DEF RefsInv

LEMMA RotateRefRefs ==
  ASSUME Inv, Inv', RefsInv, Overlapping \subseteq raced, raced \subseteq raced', NEW w \in Writers, RotateRef(w)
  PROVE  RefsInv'
<1> DEFINE g == Generation(w, seen[w].n)
           e == [gen |-> g, target |-> seen[w].target]
<1>1. /\ At(w, "rotate") /\ Advance(w, 1) /\ refs' = refs
      /\ history' = {x \in history : x.gen # g} \cup {e}
  BY DEF RotateRef
<1>2. /\ Running(w) /\ TypeInv /\ ControlType /\ RefFrom[Op(w).op] \in Nat /\ Op(w).op \in Naming
      /\ pos[w] = RefFrom[Op(w).op] + 2 /\ Len(Steps[Op(w).op]) = RefFrom[Op(w).op] + 3
  BY <1>1, RefFacts
<1>3. Moved(w) /\ (Gone(w, 1) \/ (Ended(w) /\ pos[w] + 1 > Len(Steps[Op(w).op])))
  BY <1>1, <1>2, AdvanceStep
<1>4. Gone(w, 1)
  BY <1>2, <1>3
<1>5. idx'[w] = idx[w] /\ pos'[w] = RefFrom[Op(w).op] + 3 /\ seen'[w] = seen[w]
  BY <1>2, <1>4 DEF Gone
<1>6. Op(w)' = Op(w) /\ Running(w)'
  BY <1>2, <1>5 DEF Op, Running
<1>7. e \in history' /\ e.gen.name = Op(w).name /\ e.target = seen[w].target
  BY <1>1 DEF Generation
<1>8. RefInv(w)'
  <2>1. TypeInv' /\ WriterInv(w)'
    BY DEF Inv
  <2>2. At(w, "rotate")' <=> pos'[w] = RefFrom[Op(w).op] + 2
    BY <1>6, <2>1, RefAtNext
  <2>3. ~At(w, "rotate")'
    BY <1>2, <1>5, <2>2
  <2>4. Op(w).name \notin raced => refs[Op(w).name] = seen[w].target
    BY <1>2 DEF RefsInv, RefInv
  <2> QED  BY <1>1, <1>5, <1>6, <1>7, <2>3, <2>4 DEF RefInv
<1>9. ASSUME NEW v \in Writers \ {w} PROVE RefInv(v)'
  <2> SUFFICES ASSUME Running(v)', (Op(v).name \notin raced)' PROVE RefInv(v)'
    BY DEF RefInv
  <2>1. idx'[v] = idx[v] /\ pos'[v] = pos[v] /\ seen'[v] = seen[v]
    BY <1>3 DEF Moved
  <2>2. /\ Op(v)' = Op(v) /\ Running(v)' = Running(v) /\ At(v, "rotate")' = At(v, "rotate")
        /\ At(v, "replace")' = At(v, "replace")
    BY <2>1 DEF Op, Running, At
  <2>3. RefInv(v)
    BY DEF RefsInv
  <2>7. Running(v) /\ Op(v).name \notin raced
    BY <2>2
  <2>4. ASSUME At(v, "rotate") \/ At(v, "replace") PROVE Op(v).name # Op(w).name
    <3>1. InUpdate(v, Op(v).name) /\ InUpdate(w, Op(w).name)
      BY <1>1, <2>4 DEF InUpdate
    <3> QED  BY <2>7, <3>1, OwnNames
  <2>5. At(v, "rotate") => ~Taken(Generation(v, seen[v].n))'
    <3> SUFFICES ASSUME At(v, "rotate"), NEW x \in history', x.gen = Generation(v, seen[v].n)'
                 PROVE  FALSE
      BY DEF Taken
    <3>1. x.gen = Generation(v, seen[v].n) /\ x.gen.name = Op(v).name
      BY <2>1, <2>2 DEF Generation
    <3>2. x \in history
      BY <1>1, <1>7, <2>4, <3>1
    <3> QED  BY <2>3, <2>7, <3>1, <3>2 DEF RefInv, Taken
  <2>6. ASSUME At(v, "replace"), seen[v].target # None
        PROVE  \E x \in history' : x.gen.name = Op(v).name /\ x.target = seen[v].target
    <3>1. PICK x \in history : x.gen.name = Op(v).name /\ x.target = seen[v].target
      BY <2>3, <2>6, <2>7 DEF RefInv
    <3>2. x.gen # g
      BY <2>4, <2>6, <3>1 DEF Generation
    <3> QED  BY <1>1, <3>1, <3>2
  <2> QED  BY <1>1, <2>1, <2>2, <2>3, <2>5, <2>6, <2>7 DEF RefInv
<1> QED  BY <1>8, <1>9 DEF RefsInv

LEMMA ReplaceRefRefs ==
  ASSUME Inv, Inv', RefsInv, Overlapping \subseteq raced, raced \subseteq raced', NEW w \in Writers, ReplaceRef(w)
  PROVE  RefsInv'
<1>1. /\ At(w, "replace") /\ Advance(w, 1) /\ history' = history
      /\ refs' = [refs EXCEPT ![Op(w).name] = Subject(w)]
  BY DEF ReplaceRef
<1>2. /\ Running(w) /\ TypeInv /\ ControlType /\ RefFrom[Op(w).op] \in Nat /\ Op(w).op \in Naming
      /\ pos[w] = RefFrom[Op(w).op] + 3 /\ Len(Steps[Op(w).op]) = RefFrom[Op(w).op] + 3
      /\ Op(w).name \in RefNames
  BY <1>1, RefFacts
<1>3. Moved(w) /\ (Gone(w, 1) \/ (Ended(w) /\ pos[w] + 1 > Len(Steps[Op(w).op])))
  BY <1>1, <1>2, AdvanceStep
<1>4. Ended(w)
  BY <1>2, <1>3 DEF Gone
<1>5. RefInv(w)'
  BY <1>4, Restarted DEF Ended
<1>6. ASSUME NEW v \in Writers \ {w} PROVE RefInv(v)'
  <2> SUFFICES ASSUME Running(v)', (Op(v).name \notin raced)' PROVE RefInv(v)'
    BY DEF RefInv
  <2>1. idx'[v] = idx[v] /\ pos'[v] = pos[v] /\ seen'[v] = seen[v]
    BY <1>3 DEF Moved
  <2>2. /\ Op(v)' = Op(v) /\ Running(v)' = Running(v) /\ At(v, "rotate")' = At(v, "rotate")
        /\ At(v, "replace")' = At(v, "replace")
    BY <2>1 DEF Op, Running, At
  <2>3. RefInv(v) /\ WriterInv(v)
    BY DEF RefsInv, Inv
  <2>7. Running(v) /\ Op(v).name \notin raced
    BY <2>2
  <2>4. ASSUME pos[v] > RefFrom[Op(v).op] PROVE refs'[Op(v).name] = refs[Op(v).name]
    <3>1. Op(v).name \in RefNames /\ InUpdate(v, Op(v).name) /\ InUpdate(w, Op(w).name)
      BY <1>1, <1>2, <2>3, <2>4, <2>7, RefAt, OpType DEF InUpdate
    <3>2. Op(v).name # Op(w).name
      BY <2>7, <3>1, OwnNames
    <3> QED  BY <1>1, <1>2, <3>1, <3>2 DEF TypeInv, DiskType
  <2>5. Generation(v, seen[v].n)' = Generation(v, seen[v].n)
    BY <2>1, <2>2 DEF Generation
  <2>6. Taken(Generation(v, seen[v].n))' = Taken(Generation(v, seen[v].n))
    BY <1>1, <2>5 DEF Taken
  <2> QED  BY <1>1, <2>1, <2>2, <2>3, <2>4, <2>6, <2>7 DEF RefInv
<1> QED  BY <1>5, <1>6 DEF RefsInv
LEMMA NextRefs ==
  ASSUME Inv, Inv', RefsInv, Overlapping \subseteq raced, [Next]_vars
  PROVE  RefsInv'
<1>12. raced \subseteq raced'
  BY DEF Next, vars
<1>1. CASE UNCHANGED vars
  BY <1>1, <1>12, RefStanding DEF vars, disk, control, RefsInv
<1>2. ASSUME NEW w \in Writers, Crash(w) PROVE RefsInv'
  <2>1. /\ refs' = refs /\ history' = history /\ pos'[w] = 1
        /\ \A v \in Writers \ {w} : idx'[v] = idx[v] /\ pos'[v] = pos[v] /\ seen'[v] = seen[v]
    BY <1>2 DEF Crash, Inv, TypeInv, ControlType
  <2> QED  BY <1>12, <2>1, Restarted, RefStanding DEF RefsInv
<1>3. ASSUME NEW w \in Writers, IoError(w) PROVE RefsInv'
  <2>1. At(w, "publish") /\ refs' = refs /\ history' = history
    BY <1>3 DEF IoError, HideFails, PublishFails, CanPublish
  <2>2. Advance(w, 1) \/ Return(w, FALSE)
    BY <1>3 DEF IoError, HideFails, PublishFails
  <2> QED  BY <2>1, <2>2, <1>12, EarlyAction DEF EarlySteps
<1>4. ASSUME NEW w \in Writers, InternFile(w) \/ FetchFiles(w) PROVE RefsInv'
  <2>1. (At(w, "intern") \/ At(w, "fetch")) /\ refs' = refs /\ history' = history
    BY <1>4 DEF InternFile, FetchFiles
  <2>2. Advance(w, 1) \/ Return(w, FALSE) \/ Return(w, TRUE) \/ UNCHANGED <<idx, pos, seen>>
    BY <1>4 DEF InternFile, FetchFiles, control
  <2> QED  BY <2>1, <2>2, <1>12, EarlyAction DEF EarlySteps
<1>5. ASSUME NEW w \in Writers, LookupObject(w) PROVE RefsInv'
  <2>1. At(w, "lookup") /\ refs' = refs /\ history' = history
    BY <1>5 DEF LookupObject, disk
  <2>2. CASE Return(w, TRUE)
    BY <2>1, <2>2, <1>12, EarlyAction DEF EarlySteps
  <2>3. CASE ~Return(w, TRUE)
    <3>1. /\ seen' = [seen EXCEPT ![w].target = objects[Op(w).want]]
          /\ pos' = [pos EXCEPT ![w] = @ + 1] /\ UNCHANGED idx
      BY <1>5, <2>3 DEF LookupObject
    <3>2. pos'[w] <= RefFrom[Op(w).op]
      BY <2>1, <3>1, BeforeRefs DEF EarlySteps, Inv, TypeInv, ControlType
    <3>3. Op(w)' = Op(w)
      BY <3>1 DEF Op
    <3>4. RefInv(w)'
      BY <3>2, <3>3, Early
    <3>5. \A v \in Writers \ {w} : idx'[v] = idx[v] /\ pos'[v] = pos[v] /\ seen'[v] = seen[v]
      BY <3>1 DEF Inv, TypeInv, ControlType
    <3> QED  BY <2>1, <3>4, <3>5, <1>12, RefStanding DEF RefsInv
  <2> QED  BY <2>2, <2>3
<1>6. ASSUME NEW w \in Writers, ExpectHash(w) \/ VerifySource(w) \/ SourcePresent(w) \/ CheckComplete(w)
      PROVE  RefsInv'
  <2>1. /\ At(w, "expect") \/ At(w, "verify") \/ At(w, "present") \/ At(w, "check")
        /\ refs' = refs /\ history' = history
    BY <1>6 DEF ExpectHash, VerifySource, SourcePresent, CheckComplete, disk
  <2>2. Advance(w, 1) \/ Return(w, FALSE) \/ Return(w, TRUE)
    BY <1>6 DEF ExpectHash, VerifySource, SourcePresent, CheckComplete
  <2> QED  BY <2>1, <2>2, <1>12, EarlyAction DEF EarlySteps
<1>7. ASSUME NEW w \in Writers, ImportExists(w) PROVE RefsInv'
  <2>1. At(w, "import") /\ refs' = refs /\ history' = history
    BY <1>7 DEF ImportExists, disk
  <2>2. Advance(w, 1) \/ Advance(w, 2)
    BY <1>7 DEF ImportExists
  <2> QED  BY <2>1, <2>2, <1>12, EarlyAction DEF EarlySteps
<1>8. ASSUME NEW w \in Writers, RecordExists(w) PROVE RefsInv'
  <2>1. At(w, "record") /\ refs' = refs /\ history' = history
    BY <1>8 DEF RecordExists, disk
  <2>2. Advance(w, 1) \/ Advance(w, 2) \/ Return(w, FALSE)
    BY <1>8 DEF RecordExists
  <2> QED  BY <2>1, <2>2, <1>12, EarlyAction DEF EarlySteps
<1>9. ASSUME NEW w \in Writers, HideReadOnly(w) \/ PublishObject(w) PROVE RefsInv'
  <2>1. At(w, "publish") /\ refs' = refs /\ history' = history
    BY <1>9 DEF HideReadOnly, PublishObject, CanPublish
  <2>2. Advance(w, 1) \/ UNCHANGED <<idx, pos, seen>>
    BY <1>9 DEF HideReadOnly, PublishObject, control
  <2> QED  BY <2>1, <2>2, <1>12, EarlyAction DEF EarlySteps
<1>10. ASSUME NEW w \in Writers, RecordWrite(w) \/ StoreReuseRef(w) \/ StoreBuildRef(w) PROVE RefsInv'
  <2>1. /\ At(w, "write") \/ At(w, "reuse") \/ At(w, "map")
        /\ refs' = refs /\ history' = history
    BY <1>10 DEF RecordWrite, StoreReuseRef, StoreBuildRef
  <2>2. Advance(w, 1) \/ UNCHANGED <<idx, pos, seen>>
    BY <1>10 DEF RecordWrite, StoreReuseRef, StoreBuildRef
  <2> QED  BY <2>1, <2>2, <1>12, EarlyAction DEF EarlySteps
<1>11. ASSUME NEW w \in Writers, ReadRef(w) \/ AllocateGeneration(w) \/ RotateRef(w) \/ ReplaceRef(w)
       PROVE  RefsInv'
  BY <1>11, <1>12, ReadRefRefs, AllocateGenerationRefs, RotateRefRefs, ReplaceRefRefs
<1> QED
  BY <1>1, <1>2, <1>3, <1>4, <1>5, <1>6, <1>7, <1>8, <1>9, <1>10, <1>11 DEF Next, Work

\* A step leaves alone what was raced for before, and adds where updates meet.
LEMMA NextRaced ==
  ASSUME Overlapping \subseteq raced, [Next]_vars
  PROVE  (Overlapping \subseteq raced)'
<1>1. CASE UNCHANGED vars
  <2>1. UNCHANGED <<idx, pos, raced>>
    BY <1>1 DEF vars, control
  <2> QED  BY <2>1 DEF Overlapping, InUpdate, At, Running, Op
<1>2. CASE Next
  BY <1>2 DEF Next
<1> QED  BY <1>1, <1>2

\* A rotation takes a name nobody has, and a replacement follows a rotation.
LEMMA StepKeepsHistory ==
  ASSUME Inv, RefsInv, [Next]_vars
  PROVE  HistoryKept
<1>1. ASSUME NEW w \in Writers, RotateRef(w) PROVE HistoryKept
  <2>1. /\ At(w, "rotate") /\ Running(w) /\ refs' = refs
        /\ {x \in history : x.gen # Generation(w, seen[w].n)} \subseteq history'
    BY <1>1 DEF RotateRef, At
  <2>2. Op(w).name \notin raced => ~Taken(Generation(w, seen[w].n))
    BY <2>1 DEF RefsInv, RefInv
  <2>3. ASSUME NEW x \in history, x.gen.name \notin raced PROVE x \in history'
    <3>1. CASE x.gen = Generation(w, seen[w].n)
      <4>1. Op(w).name \notin raced
        BY <2>3, <3>1 DEF Generation
      <4> QED  BY <2>2, <3>1, <4>1 DEF Taken
    <3> QED  BY <2>1, <3>1
  <2> QED  BY <2>1, <2>3 DEF HistoryKept
<1>2. ASSUME NEW w \in Writers, ReplaceRef(w) PROVE HistoryKept
  <2>1. /\ At(w, "replace") /\ history' = history
        /\ refs' = [refs EXCEPT ![Op(w).name] = Subject(w)]
    BY <1>2 DEF ReplaceRef
  <2>2. /\ Running(w) /\ TypeInv /\ RefFrom[Op(w).op] \in Nat /\ pos[w] = RefFrom[Op(w).op] + 3
    BY <2>1, RefFacts
  <2>3. Op(w).name \notin raced => refs[Op(w).name] = seen[w].target
    BY <2>2 DEF RefsInv, RefInv
  <2>4. Op(w).name \notin raced /\ seen[w].target # None =>
          \E e \in history : e.gen.name = Op(w).name /\ e.target = seen[w].target
    BY <2>1, <2>2 DEF RefsInv, RefInv
  <2>5. \A n \in RefNames : refs'[n] # refs[n] => n = Op(w).name
    BY <2>1, <2>2 DEF TypeInv, DiskType
  <2> QED  BY <2>1, <2>3, <2>4, <2>5 DEF HistoryKept
<1>3. CASE UNCHANGED <<refs, history>>
  BY <1>3 DEF HistoryKept
<1>4. UNCHANGED <<refs, history>> \/ \E w \in Writers : RotateRef(w) \/ ReplaceRef(w)
  <2>1. CASE UNCHANGED vars
    BY <2>1 DEF vars, disk
  <2>2. ASSUME NEW w \in Writers, IoError(w) \/ Crash(w) PROVE UNCHANGED <<refs, history>>
    BY <2>2 DEF IoError, HideFails, PublishFails, Crash, disk
  <2>3. ASSUME NEW w \in Writers, Work(w), ~RotateRef(w), ~ReplaceRef(w)
        PROVE  UNCHANGED <<refs, history>>
    BY <2>3 DEF Work, InternFile, LookupObject, FetchFiles, ExpectHash, ImportExists, HideReadOnly,
       PublishObject, VerifySource, SourcePresent, CheckComplete, RecordExists, RecordWrite,
       StoreReuseRef, StoreBuildRef, ReadRef, AllocateGeneration, disk
  <2> QED  BY <2>1, <2>2, <2>3 DEF Next
<1> QED  BY <1>1, <1>2, <1>3, <1>4

\* No publication, crash or replay removes an object or an fs-file or changes
\* what a hash stands for, whoever else writes.
THEOREM ContentAlwaysKept == Spec => [][ContentKept]_vars
<1>1. Inv /\ [Next]_vars => [ContentKept]_vars
  BY StepKeepsContent
<1> QED  BY <1>1, Invariant, PTL DEF Spec

\* update_object_ref loses no ref either, though it takes no lock: for any
\* number of writers that update the same names, a rotated ref is overwritten
\* and a replaced one missing from the history only under a name of which two
\* updates have been under way at once, whatever crashes and replays there are.
THEOREM NothingEverLost == Spec => NothingLost
<1>1. Init => RefsInv
  <2> SUFFICES ASSUME Init, NEW w \in Writers PROVE RefInv(w)
    BY DEF RefsInv
  <2>1. TypeInv /\ WriterInv(w) /\ pos[w] = 1
    BY InitInv DEF Init, Inv
  <2>2. CASE Running(w)
    <3>1. /\ RefFrom[Op(w).op] \in Nat /\ RefFrom[Op(w).op] >= 2
          /\ At(w, "rotate") <=> pos[w] = RefFrom[Op(w).op] + 2
          /\ At(w, "replace") <=> pos[w] = RefFrom[Op(w).op] + 3
      BY <2>1, <2>2, RefAt
    <3>2. ~At(w, "rotate") /\ ~At(w, "replace") /\ ~(pos[w] > RefFrom[Op(w).op])
      BY <2>1, <3>1
    <3> QED  BY <3>2 DEF RefInv
  <2>3. CASE ~Running(w)
    BY <2>3 DEF RefInv, At
  <2> QED  BY <2>2, <2>3
<1>4. Init => Overlapping \subseteq raced
  <2> SUFFICES ASSUME Init, NEW v \in Writers, NEW n, InUpdate(v, n) PROVE FALSE
    BY DEF Overlapping
  <2>1. TypeInv /\ WriterInv(v) /\ pos[v] = 1 /\ Running(v)
    BY InitInv DEF Init, Inv, InUpdate, At
  <2>2. /\ RefFrom[Op(v).op] \in Nat /\ RefFrom[Op(v).op] >= 2
        /\ RefPlaces(Op(v).op, pos[v], Steps[Op(v).op][pos[v]])
    BY <2>1, RefAt, Where
  <2> QED  BY <2>1, <2>2 DEF InUpdate, At, RefPlaces
<1>2. Inv /\ Inv' /\ RefsInv /\ Overlapping \subseteq raced /\ [Next]_vars => RefsInv' /\ (Overlapping \subseteq raced)'
  BY NextRefs, NextRaced
<1>3. Inv /\ RefsInv /\ [Next]_vars => [ContentKept /\ HistoryKept]_vars
  BY StepKeepsContent, StepKeepsHistory
<1> QED  BY <1>1, <1>2, <1>3, <1>4, Invariant, PTL DEF Spec, NothingLost

----------------------------------------------------------------------------
(* The tree store keeps its promise for any number of workers, trees and     *)
(* calls.  TreesShared speaks of what is published and of calls that are     *)
(* over; the invariant adds what a call knows on its way there: what it has  *)
(* staged is the pool's (StagedShared), it looks a second time only when     *)
(* something went wrong or somebody else's tree is there (Progress), and,    *)
(* unless another update of its name has come in between, the generation     *)
(* ref it is about to create is a new one (RefSteps).                        *)

Inodes == Nat \X Nat
Directories == {NoRoot} \cup [set : {TRUE}, files : Seq(Inodes)]
Targets == {NoRoot} \cup [set : {TRUE}, files : Trees]
Pcs == {"idle", "files", "link", "lookup", "publish", "again", "ref", "allocate", "generation", "replace", "ok", "error"}
Busy == Pcs \ {"idle", "ok", "error"}
CallRecords ==
  [pc : Pcs, op : {"none", "intern", "install", "ensure"}, tree : Trees \cup {<<>>}, name : Names \cup {NoName},
   id : Nat, here : Seq(Inodes), fresh : BOOLEAN, able : BOOLEAN, fault : BOOLEAN, slot : Nat,
   old : Trees \cup {<<>>}]

Typed ==
  /\ pool \in [FileHashes -> Inodes]
  /\ roots \in [Trees -> Directories]
  /\ treeRefs \in [Names -> Targets]
  /\ gens \in [Names -> Seq(Trees)]
  /\ calls \in Nat
  /\ worker \in [Workers -> CallRecords]
  /\ named \in [Names -> SUBSET Trees]

\* A call under way has a tree and an identity, and has not staged more than
\* the tree has files.
Underway(w) ==
  /\ WorkerAt(w, "idle") => worker[w].op = "none"
  /\ ~WorkerAt(w, "idle") => worker[w].tree \in Trees
  /\ worker[w].pc \in Busy => worker[w].id > 0 /\ worker[w].op # "none" /\ Len(worker[w].here) <= Len(worker[w].tree)
  /\ worker[w].pc \notin Busy => worker[w].here = <<>>
  /\ WorkerAt(w, "link") => worker[w].op # "ensure" /\ ~Gathered(w)
\* What is staged is what the pool has, unless an import found a file there.
StagedShared(w) ==
  (worker[w].op = "ensure" \/ worker[w].fresh) =>
    \A i \in DOMAIN worker[w].here :
      InPool(worker[w].tree[i]) /\ worker[w].here[i] = pool[worker[w].tree[i]]
\* Files that were there when a call began still are.
StillAble(w) == worker[w].able => \A i \in DOMAIN worker[w].tree : InPool(worker[w].tree[i])
\* Only what is complete and shared is published; a second lookup has a reason.
Progress(w) ==
  /\ StillAble(w)
  /\ WorkerAt(w, "lookup") => worker[w].op = "ensure" \/ (worker[w].op = "intern" /\ worker[w].fresh /\ Gathered(w))
  /\ WorkerAt(w, "publish") => Gathered(w) /\ (worker[w].op = "ensure" \/ worker[w].fresh)
  /\ WorkerAt(w, "publish") \/ WorkerAt(w, "again") => worker[w].op # "install"
  /\ WorkerAt(w, "again") => \/ worker[w].fault \/ roots[worker[w].tree].set
                             \/ worker[w].op = "ensure" /\ ~worker[w].able
\* A name is only moved to a tree that is in place; what is to be saved is a
\* tree in place, under a counter that is free or was; and, as long as no two
\* updates of the name have overlapped, it is the present target, under a new
\* counter, and the name moves on only when it has been saved.
RefSteps(w) ==
  LET n == worker[w].name IN
  /\ worker[w].pc \in {"ref", "allocate", "generation", "replace"} => worker[w].op = "ensure" /\ roots[worker[w].tree].set
  /\ worker[w].pc \in {"allocate", "generation", "replace"} => n \in Names
  /\ worker[w].pc \in {"allocate", "generation"} => worker[w].old \in Trees /\ roots[worker[w].old].set
  /\ WorkerAt(w, "generation") => worker[w].slot \in 1..(Len(gens[n]) + 1)
  /\ n \notin contended =>
       /\ worker[w].pc \in {"allocate", "generation"} => treeRefs[n].set /\ worker[w].old = treeRefs[n].files
       /\ WorkerAt(w, "generation") => worker[w].slot = Len(gens[n]) + 1
       /\ WorkerAt(w, "replace") => (treeRefs[n].set => \E i \in DOMAIN gens[n] : gens[n][i] = treeRefs[n].files)
Finished(w) ==
  /\ WorkerAt(w, "error") =>
       \/ worker[w].fault
       \/ worker[w].op = "ensure" /\ ~worker[w].able
       \/ worker[w].name # NoName /\ Len(gens[worker[w].name]) >= MaxTreeGenerations
  /\ (WorkerAt(w, "ok") /\ worker[w].op = "ensure") =>
       /\ roots[worker[w].tree].set
       /\ worker[w].name # NoName => worker[w].tree \in named[worker[w].name]
\* The target of a name is one that the name has referred to.
TargetsNamed == \A n \in Names : treeRefs[n].set => treeRefs[n].files \in named[n]

WorkerOK(w) == Underway(w) /\ StagedShared(w) /\ Progress(w) /\ RefSteps(w) /\ Finished(w)
TreeInv == Typed /\ RootsFaithful /\ TreeRefsKept /\ TargetsNamed /\ \A w \in Workers : WorkerOK(w)

------------------------------------------------------------------------------
\* What a step leaves of the record of a call: all of it but where it is, ...
Same(c, d) == c.op = d.op /\ c.tree = d.tree /\ c.name = d.name /\ c.able = d.able
Kept(c, d) ==
  /\ Same(c, d) /\ c.id = d.id /\ c.here = d.here /\ c.fresh = d.fresh /\ c.fault = d.fault
  /\ c.slot = d.slot /\ c.old = d.old
\* ... and, when it is over, what it was asked and how it went.
Closed(c, d) == Same(c, d) /\ c.here = <<>> /\ c.fresh = FALSE

LEMMA MovedCall ==
  ASSUME NEW c \in CallRecords, NEW p \in Pcs
  PROVE  /\ [c EXCEPT !.pc = p] \in CallRecords
         /\ [c EXCEPT !.pc = p].pc = p /\ Kept([c EXCEPT !.pc = p], c)
  BY DEF CallRecords, Kept, Same

LEMMA ClosedCall ==
  ASSUME NEW c \in CallRecords, NEW p \in Pcs
  PROVE  /\ Over(c, p) \in CallRecords
         /\ Over(c, p).pc = p /\ Closed(Over(c, p), c) /\ Over(c, p).fault = c.fault
<1>1. <<>> \in Seq(Inodes) /\ 0 \in Nat /\ FALSE \in BOOLEAN /\ <<>> \in Trees \cup {<<>>}
  OBVIOUS
<1>2. PICK f : f = FALSE
  OBVIOUS
<1> DEFINE c1 == [c EXCEPT !.pc = p]
           c2 == [c1 EXCEPT !.here = <<>>]
           c3 == [c2 EXCEPT !.id = 0]
           c4 == [c3 EXCEPT !.fresh = FALSE]
           c5 == [c4 EXCEPT !.slot = 0]
           c6 == [c5 EXCEPT !.old = <<>>]
<1>3. c1 \in CallRecords /\ c1.pc = p /\ Kept(c1, c)
  BY MovedCall
<1>4. c2 \in CallRecords /\ c2.pc = p /\ Same(c2, c) /\ c2.fault = c.fault /\ c2.here = <<>>
  <2> HIDE DEF c1
  <2> QED BY <1>1, <1>3 DEF CallRecords, Kept, Same
<1>5. c3 \in CallRecords /\ c3.pc = p /\ Same(c3, c) /\ c3.fault = c.fault /\ c3.here = <<>>
  <2> HIDE DEF c2
  <2> QED BY <1>1, <1>4 DEF CallRecords, Same
<1>6. c4 \in CallRecords /\ c4.pc = p /\ Same(c4, c) /\ c4.fault = c.fault /\ c4.here = <<>> /\ c4.fresh = FALSE
  <2> HIDE DEF c3
  <2>1. c4 = [c3 EXCEPT !.fresh = f]
    BY <1>2
  <2>2. f \in BOOLEAN
    BY <1>2
  <2>3. /\ c4 \in CallRecords /\ c4.pc = p /\ Same(c4, c) /\ c4.fault = c.fault /\ c4.here = <<>> /\ c4.fresh = f
    <3> HIDE DEF c4
    <3> QED BY <1>5, <2>1, <2>2 DEF CallRecords, Same
  <2> QED BY <1>2, <2>3
<1>7. c5 \in CallRecords /\ c5.pc = p /\ Same(c5, c) /\ c5.fault = c.fault /\ c5.here = <<>> /\ c5.fresh = FALSE
  <2> HIDE DEF c4
  <2> QED BY <1>1, <1>6 DEF CallRecords, Same
<1>8. c6 \in CallRecords /\ c6.pc = p /\ Same(c6, c) /\ c6.fault = c.fault /\ c6.here = <<>> /\ c6.fresh = FALSE
  <2> HIDE DEF c5
  <2> QED BY <1>1, <1>7 DEF CallRecords, Same
<1>9. Over(c, p) = c6
  BY DEF Over
<1> QED
  BY <1>8, <1>9 DEF Closed

\* What one worker does to its record and to nobody else's.
Only(w) == \A v \in Workers : v # w => worker'[v] = worker[v]

LEMMA Moving ==
  ASSUME Typed, NEW w \in Workers, NEW p \in Pcs, worker' = [worker EXCEPT ![w] = [@ EXCEPT !.pc = p]]
  PROVE  /\ worker' \in [Workers -> CallRecords] /\ Only(w)
         /\ worker'[w].pc = p /\ Kept(worker'[w], worker[w])
<1>1. worker[w] \in CallRecords
  BY DEF Typed
<1>2. [worker[w] EXCEPT !.pc = p] \in CallRecords
  BY <1>1, MovedCall
<1>3. worker'[w] = [worker[w] EXCEPT !.pc = p]
  BY DEF Typed
<1> QED
  BY <1>1, <1>2, <1>3, MovedCall DEF Typed, Only

LEMMA Closing ==
  ASSUME Typed, NEW w \in Workers, NEW p \in Pcs, worker' = [worker EXCEPT ![w] = Over(@, p)]
  PROVE  /\ worker' \in [Workers -> CallRecords] /\ Only(w)
         /\ worker'[w].pc = p /\ Closed(worker'[w], worker[w]) /\ worker'[w].fault = worker[w].fault
<1>1. worker[w] \in CallRecords
  BY DEF Typed
<1>2. Over(worker[w], p) \in CallRecords
  BY <1>1, ClosedCall
<1>3. worker'[w] = Over(worker[w], p)
  BY DEF Typed
<1> QED
  BY <1>1, <1>2, <1>3, ClosedCall DEF Typed, Only

LEMMA Going ==
  ASSUME Typed, NEW w \in Workers, NEW p \in Busy, Goto(w, p)
  PROVE  /\ worker' \in [Workers -> CallRecords] /\ Only(w)
         /\ worker'[w].pc = p /\ Kept(worker'[w], worker[w])
<1>1. p \in Pcs /\ p \notin {"ok", "error"}
  BY DEF Busy
<1>2. worker' = [worker EXCEPT ![w] = [@ EXCEPT !.pc = p]]
  BY <1>1 DEF Goto
<1> QED
  BY <1>1, <1>2, Moving

LEMMA Returning ==
  ASSUME Typed, NEW w \in Workers, NEW p \in {"ok", "error"}, Goto(w, p)
  PROVE  /\ worker' \in [Workers -> CallRecords] /\ Only(w)
         /\ worker'[w].pc = p /\ Closed(worker'[w], worker[w]) /\ worker'[w].fault = worker[w].fault
<1>1. p \in Pcs
  BY DEF Pcs
<1>2. worker' = [worker EXCEPT ![w] = Over(@, p)]
  BY DEF Goto
<1> QED
  BY <1>1, <1>2, Closing

LEMMA Taking ==
  ASSUME Typed, NEW w \in Workers, NEW inode \in Inodes, NEW b \in BOOLEAN, Took(w, inode, b)
  PROVE  /\ worker' \in [Workers -> CallRecords] /\ Only(w)
         /\ worker'[w].pc = "files" /\ Same(worker'[w], worker[w]) /\ worker'[w].id = worker[w].id
         /\ worker'[w].here = Append(worker[w].here, inode) /\ worker'[w].fresh = b
         /\ worker'[w].fault = worker[w].fault
<1>1. worker[w] \in CallRecords /\ worker[w].here \in Seq(Inodes)
  BY DEF Typed, CallRecords
<1>2. Append(worker[w].here, inode) \in Seq(Inodes)
  BY <1>1
<1> DEFINE h == Append(worker[w].here, inode)
           d == [[[worker[w] EXCEPT !.here = h] EXCEPT !.fresh = b] EXCEPT !.pc = "files"]
<1>3. worker' = [worker EXCEPT ![w] = d]
  BY DEF Took, Typed
<1> HIDE DEF h
<1>4. /\ d \in CallRecords /\ d.pc = "files" /\ Same(d, worker[w]) /\ d.id = worker[w].id /\ d.here = h /\ d.fresh = b
      /\ d.fault = worker[w].fault
  <2>1. h \in Seq(Inodes)
    BY <1>2 DEF h
  <2> QED BY <1>1, <2>1 DEF CallRecords, Same, Pcs
<1> HIDE DEF d
<1>5. worker'[w] = d
  BY <1>3 DEF Typed
<1> QED
  BY <1>3, <1>4, <1>5 DEF Typed, Only, h

------------------------------------------------------------------------------
\* Content, trees and generation refs only come; none that is there goes.
Grown ==
  /\ \A n \in Names :
       /\ named[n] \subseteq named'[n]
       /\ Len(gens'[n]) = Len(gens[n]) \/ Len(gens'[n]) = Len(gens[n]) + 1
  /\ \A h \in FileHashes : InPool(h) => pool'[h] = pool[h]
  /\ \A t \in Trees : roots[t].set => roots'[t].set

LEMMA TreeFiles ==
  ASSUME Typed, NEW w \in Workers
  PROVE  /\ worker[w] \in CallRecords /\ worker[w].tree \in Seq(FileHashes) /\ worker[w].here \in Seq(Inodes)
         /\ Len(worker[w].tree) \in Nat /\ Len(worker[w].here) \in Nat
         /\ DOMAIN worker[w].tree = 1..Len(worker[w].tree) /\ DOMAIN worker[w].here = 1..Len(worker[w].here)
         /\ \A i \in DOMAIN worker[w].tree : worker[w].tree[i] \in FileHashes
<1>1. worker[w] \in CallRecords
  BY DEF Typed
<1>2. worker[w].tree \in Trees \cup {<<>>} /\ worker[w].here \in Seq(Inodes)
  BY <1>1 DEF CallRecords
<1>3. worker[w].tree \in Seq(FileHashes)
  <2>1. Trees \subseteq Seq(FileHashes) /\ <<>> \in Seq(FileHashes)
    BY SettingAssumption
  <2> QED BY <1>2, <2>1
<1> QED
  BY <1>1, <1>2, <1>3

\* What others do takes from a call nothing that it has staged, and moves the
\* name it updates only if that counts as an overlap.
LEMMA OthersKeep ==
  ASSUME Typed, NEW v \in Workers, WorkerOK(v), worker'[v] = worker[v], Grown, contended \subseteq contended',
         \/ \A n \in Names \ contended' : ~Updating(v, n)
         \/ \A n \in Names \ contended' : Updating(v, n) => treeRefs'[n] = treeRefs[n] /\ gens'[n] = gens[n]
  PROVE  WorkerOK(v)'
<1>1. Underway(v)'
  BY DEF WorkerOK, Underway, WorkerAt, Gathered
<1>2. worker[v].pc \in Busy \cup {"ok", "error"} => worker[v].tree \in Trees
  BY DEF WorkerOK, Underway, WorkerAt, Busy
<1>3. StagedShared(v)'
  <2> SUFFICES ASSUME worker[v].op = "ensure" \/ worker[v].fresh, NEW i \in DOMAIN worker[v].here
               PROVE  pool'[worker[v].tree[i]] # NoInode /\ worker[v].here[i] = pool'[worker[v].tree[i]]
    BY DEF StagedShared, InPool
  <2>1. InPool(worker[v].tree[i]) /\ worker[v].here[i] = pool[worker[v].tree[i]]
    BY DEF WorkerOK, StagedShared
  <2>2. worker[v].tree[i] \in FileHashes
    <3>1. worker[v].pc \in Busy \/ worker[v].here = <<>>
      BY DEF WorkerOK, Underway
    <3> QED BY TreeFiles, <3>1 DEF WorkerOK, Underway
  <2> QED
    BY <2>1, <2>2 DEF Grown, InPool
<1>4. Progress(v)'
  <2>1. worker[v].able => \A i \in DOMAIN worker[v].tree : pool'[worker[v].tree[i]] # NoInode
    BY TreeFiles DEF WorkerOK, Progress, StillAble, Grown, InPool
  <2>2. roots[worker[v].tree].set /\ WorkerAt(v, "again") => roots'[worker[v].tree].set
    BY <1>2 DEF Grown, WorkerAt, Busy, Pcs
  <2> QED BY <2>1, <2>2 DEF WorkerOK, Progress, StillAble, InPool, WorkerAt, Gathered
<1>5. RefSteps(v)'
  <2> DEFINE n == worker[v].name
  <2>1. worker[v].pc \in {"ref", "allocate", "generation", "replace"} => roots'[worker[v].tree].set
    BY <1>2 DEF WorkerOK, RefSteps, Grown, Busy, Pcs
  <2>2. worker[v].pc \in {"allocate", "generation"} => worker[v].old \in Trees /\ roots'[worker[v].old].set
    BY DEF WorkerOK, RefSteps, Grown
  <2>3. WorkerAt(v, "generation") => worker[v].slot \in 1..(Len(gens'[n]) + 1)
    <3> SUFFICES ASSUME WorkerAt(v, "generation") PROVE worker[v].slot \in 1..(Len(gens'[n]) + 1)
      OBVIOUS
    <3>1. n \in Names /\ worker[v].slot \in 1..(Len(gens[n]) + 1)
      BY DEF WorkerOK, RefSteps, WorkerAt
    <3>2. Len(gens[n]) \in Nat
      BY <3>1 DEF Typed
    <3> QED BY <3>1, <3>2 DEF Grown
  <2>4. n \notin contended' /\ worker[v].pc \in {"allocate", "generation", "replace"} =>
          n \notin contended /\ n \in Names /\ treeRefs'[n] = treeRefs[n] /\ gens'[n] = gens[n]
    BY DEF WorkerOK, RefSteps, Updating
  <2> QED BY <2>1, <2>2, <2>3, <2>4 DEF WorkerOK, RefSteps, WorkerAt
<1>6. Finished(v)'
  <2> DEFINE n == worker[v].name
  <2>1. n \in Names \cup {NoName}
    BY TreeFiles DEF CallRecords
  <2>2. n # NoName /\ Len(gens[n]) >= MaxTreeGenerations => Len(gens'[n]) >= MaxTreeGenerations
    <3> SUFFICES ASSUME n \in Names, Len(gens[n]) >= MaxTreeGenerations PROVE Len(gens'[n]) >= MaxTreeGenerations
      BY <2>1
    <3>1. Len(gens[n]) \in Nat /\ MaxTreeGenerations \in Nat
      BY SettingAssumption DEF Typed
    <3> QED BY <3>1 DEF Grown
  <2>3. n # NoName => named[n] \subseteq named'[n]
    BY <2>1 DEF Grown
  <2>4. WorkerAt(v, "ok") /\ roots[worker[v].tree].set => roots'[worker[v].tree].set
    BY <1>2 DEF Grown, WorkerAt
  <2> QED BY <2>2, <2>3, <2>4 DEF WorkerOK, Finished, WorkerAt
<1> QED
  BY <1>1, <1>3, <1>4, <1>5, <1>6 DEF WorkerOK

\* A step that changes nothing but the record of its worker.
LEMMA TreeQuietStep ==
  ASSUME TreeInv, contended \subseteq contended', NEW w \in Workers, UNCHANGED <<pool, roots, treeRefs, gens, named>>, calls' \in Nat,
         worker' \in [Workers -> CallRecords], Only(w), WorkerOK(w)'
  PROVE  TreeInv'
<1>1. Typed'
  BY DEF TreeInv, Typed
<1>2. RootsFaithful' /\ TreeRefsKept' /\ TargetsNamed'
  BY DEF TreeInv, RootsFaithful, TreeRefsKept, TargetsNamed, InPool
<1>3. Grown
  BY DEF Grown
<1>4. ASSUME NEW v \in Workers PROVE WorkerOK(v)'
  <2>1. CASE v = w
    BY <2>1
  <2>2. CASE v # w
    BY <1>3, <2>2, OthersKeep DEF TreeInv, Only
  <2> QED BY <2>1, <2>2
<1> QED
  BY <1>1, <1>2, <1>4 DEF TreeInv

LEMMA IdleCall == Idle \in CallRecords /\ Idle.here = <<>> /\ Idle.pc = "idle" /\ Idle.op = "none" /\ Idle.name = NoName
<1>1. PICK f \in BOOLEAN : f = FALSE
  OBVIOUS
<1>2. Idle = [pc |-> "idle", op |-> "none", tree |-> <<>>, name |-> NoName, id |-> 0, here |-> <<>>,
              fresh |-> f, able |-> f, fault |-> f, slot |-> 0, old |-> <<>>]
  BY <1>1, Zenon DEF Idle
<1> QED
  BY <1>2 DEF CallRecords, Pcs

LEMMA StartKeeps ==
  ASSUME TreeInv, contended \subseteq contended', NEW w \in Workers, NEW op \in {"intern", "install", "ensure"}, NEW t \in Trees,
         NEW n \in Names \cup {NoName}, Start(w, op, t, n)
  PROVE  TreeInv'
<1>1. PICK a \in BOOLEAN : a = \A i \in DOMAIN t : InPool(t[i])
  OBVIOUS
<1>3. PICK p \in {"lookup", "files"} : p = (IF op = "ensure" THEN "lookup" ELSE "files") /\ (p = "lookup" => op = "ensure")
  OBVIOUS
<1>4. PICK b \in BOOLEAN : b = TRUE
  OBVIOUS
<1> DEFINE c == [Idle EXCEPT !.pc = p, !.op = op, !.tree = t, !.id = calls + 1, !.name = n, !.fresh = b, !.able = a]
<1>6. worker' = [worker EXCEPT ![w] = c]
  BY <1>1, <1>3, <1>4, Zenon DEF Start
<1>8. calls \in Nat /\ calls' = calls + 1 /\ UNCHANGED <<pool, roots, treeRefs, gens, named>>
  BY DEF Start, TreeInv, Typed
<1>9. /\ c \in CallRecords /\ c.pc = p /\ c.op = op /\ c.tree = t /\ c.id = calls + 1 /\ c.name = n /\ c.able = a
      /\ c.here = <<>>
  <2>1. p \in Pcs /\ op \in {"none", "intern", "install", "ensure"} /\ calls + 1 \in Nat
    BY <1>8 DEF Pcs
  <2>2. c = [Idle EXCEPT !.pc = p, !.op = op, !.tree = t, !.id = calls + 1, !.name = n, !.fresh = b, !.able = a]
    OBVIOUS
  <2> HIDE DEF c
  <2> QED BY <2>1, <2>2, IdleCall DEF CallRecords
<1> HIDE DEF c
<1>10. worker'[w] = c /\ worker' \in [Workers -> CallRecords] /\ Only(w)
  BY <1>6, <1>9 DEF TreeInv, Typed, Only
<1>11. WorkerOK(w)'
  <2>1. Underway(w)'
    BY <1>8, <1>9, <1>10 DEF Underway, WorkerAt, Busy, Pcs
  <2>2. StagedShared(w)'
    BY <1>9, <1>10 DEF StagedShared
  <2>3. Progress(w)'
    <3>1. a => \A i \in DOMAIN t : pool'[t[i]] # NoInode
      BY <1>1, <1>8 DEF InPool
    <3> QED BY <1>3, <1>9, <1>10, <3>1 DEF Progress, StillAble, WorkerAt, InPool
  <2>4. RefSteps(w)' /\ Finished(w)'
    BY <1>9, <1>10 DEF RefSteps, Finished, WorkerAt
  <2> QED BY <2>1, <2>2, <2>3, <2>4 DEF WorkerOK
<1> QED
  BY <1>8, <1>10, <1>11, TreeQuietStep

------------------------------------------------------------------------------
(* The steps, one after the other.                                          *)

\* A call that ends has nothing staged any more.
LEMMA EndedCall ==
  ASSUME TreeInv, contended \subseteq contended', NEW w \in Workers, worker[w].pc \in Busy, UNCHANGED pool,
         worker'[w].pc \in {"ok", "error"}, Closed(worker'[w], worker[w]), Finished(w)'
  PROVE  WorkerOK(w)'
<1>1. worker[w].tree \in Trees /\ WorkerOK(w)
  BY DEF TreeInv, WorkerOK, Underway, WorkerAt, Busy
<1>2. Underway(w)'
  BY <1>1 DEF WorkerOK, Underway, WorkerAt, Closed, Same, Busy
<1>3. StagedShared(w)'
  BY DEF StagedShared, Closed
<1>4. Progress(w)'
  BY <1>1 DEF WorkerOK, Progress, StillAble, WorkerAt, Closed, Same, InPool
<1>5. RefSteps(w)'
  BY DEF RefSteps, WorkerAt
<1> QED
  BY <1>2, <1>3, <1>4, <1>5 DEF WorkerOK

\* One more file is staged, and it is the pool's unless the call remembers
\* that it is not.
LEMMA TookFile ==
  ASSUME TreeInv, contended \subseteq contended', NEW w \in Workers, worker[w].pc \in {"files", "link"}, ~Gathered(w), Grown,
         NEW inode \in Inodes, NEW b \in BOOLEAN, Took(w, inode, b),
         b => worker[w].fresh \/ worker[w].op = "ensure",
         (worker[w].op = "ensure" \/ b) => pool'[Next_(w)] = inode /\ inode # NoInode
  PROVE  worker' \in [Workers -> CallRecords] /\ Only(w) /\ WorkerOK(w)'
<1>1. /\ worker' \in [Workers -> CallRecords] /\ Only(w)
      /\ worker'[w].pc = "files" /\ Same(worker'[w], worker[w]) /\ worker'[w].id = worker[w].id
      /\ worker'[w].here = Append(worker[w].here, inode) /\ worker'[w].fresh = b
      /\ worker'[w].fault = worker[w].fault
  BY Taking DEF TreeInv
<1>2. WorkerOK(w) /\ Typed
  BY DEF TreeInv
<1>3. worker[w].pc \in Busy
  BY DEF Busy, Pcs
<1>4. /\ worker[w].here \in Seq(Inodes) /\ Len(worker[w].here) \in Nat /\ Len(worker[w].tree) \in Nat
      /\ Len(worker[w].here) < Len(worker[w].tree)
  BY <1>2, <1>3, TreeFiles DEF WorkerOK, Underway, Gathered
<1>5. /\ Len(worker'[w].here) = Len(worker[w].here) + 1
      /\ DOMAIN worker'[w].here = 1..(Len(worker[w].here) + 1)
      /\ worker'[w].here[Len(worker[w].here) + 1] = inode
      /\ \A i \in 1..Len(worker[w].here) : worker'[w].here[i] = worker[w].here[i]
  BY <1>1, <1>4
<1>6. Underway(w)'
  <2>1. worker'[w].pc \in Busy /\ ~WorkerAt(w, "idle")' /\ ~WorkerAt(w, "link")' /\ ~WorkerAt(w, "idle")
    BY <1>1 DEF Busy, Pcs, WorkerAt
  <2>2. Len(worker'[w].here) <= Len(worker[w].tree)
    BY <1>4, <1>5
  <2> QED BY <1>1, <1>2, <1>3, <2>1, <2>2 DEF WorkerOK, Underway, Same
<1>7. StagedShared(w)'
  <2> SUFFICES ASSUME worker[w].op = "ensure" \/ b, NEW i \in 1..(Len(worker[w].here) + 1)
               PROVE  pool'[worker[w].tree[i]] # NoInode /\ worker'[w].here[i] = pool'[worker[w].tree[i]]
    BY <1>1, <1>5 DEF StagedShared, InPool, Same
  <2>1. CASE i = Len(worker[w].here) + 1
    BY <2>1, <1>5 DEF Next_
  <2>2. CASE i # Len(worker[w].here) + 1
    <3>1. i \in 1..Len(worker[w].here) /\ i \in DOMAIN worker[w].tree
      BY <1>2, <1>4, <2>2, TreeFiles
    <3>2. InPool(worker[w].tree[i]) /\ worker[w].here[i] = pool[worker[w].tree[i]]
      BY <1>2, <3>1, TreeFiles DEF WorkerOK, StagedShared
    <3>3. worker[w].tree[i] \in FileHashes
      BY <1>2, <3>1, TreeFiles
    <3> QED BY <1>5, <3>1, <3>2, <3>3 DEF Grown, InPool
  <2> QED BY <2>1, <2>2
<1>8. Progress(w)'
  <2>1. worker[w].able => \A i \in DOMAIN worker[w].tree : pool'[worker[w].tree[i]] # NoInode
    BY <1>2, TreeFiles DEF WorkerOK, Progress, StillAble, Grown, InPool
  <2> QED BY <1>1, <2>1 DEF Progress, StillAble, WorkerAt, InPool, Same
<1>9. RefSteps(w)' /\ Finished(w)'
  BY <1>1 DEF RefSteps, Finished, WorkerAt
<1> QED
  BY <1>1, <1>6, <1>7, <1>8, <1>9 DEF WorkerOK

\* A call that goes on with what it has.
LEMMA WentOn ==
  ASSUME TreeInv, contended \subseteq contended', NEW w \in Workers, worker[w].pc \in Busy, UNCHANGED pool,
         worker'[w].pc \in Busy, WorkerAt(w, "link")' => worker[w].op # "ensure" /\ ~Gathered(w), Same(worker'[w], worker[w]), worker'[w].id = worker[w].id,
         worker'[w].here = worker[w].here, worker'[w].fresh = worker[w].fresh
  PROVE  Underway(w)' /\ StagedShared(w)' /\ Finished(w)' /\ StillAble(w)'
<1>1. WorkerOK(w)
  BY DEF TreeInv
<1>2. Underway(w)'
  BY <1>1 DEF WorkerOK, Underway, WorkerAt, Same, Busy, Gathered
<1>3. StagedShared(w)'
  BY <1>1 DEF WorkerOK, StagedShared, Same, InPool
<1>4. Finished(w)'
  BY DEF Finished, WorkerAt, Busy
<1> QED
  BY <1>1, <1>2, <1>3, <1>4 DEF WorkerOK, Progress, StillAble, Same, InPool

\* The inode a call makes is not the absence of one.
LEMMA NewInode ==
  ASSUME TreeInv, contended \subseteq contended', NEW w \in Workers, worker[w].pc \in Busy
  PROVE  Inode(w) \in Inodes /\ Inode(w) # NoInode
<1>1. worker[w].id \in Nat /\ worker[w].id > 0
  BY TreeFiles DEF TreeInv, WorkerOK, Underway, CallRecords
<1>2. Len(worker[w].here) + 1 \in Nat
  BY TreeFiles DEF TreeInv
<1> QED
  BY <1>1, <1>2 DEF Inode, Inodes, NoInode

LEMMA NextFile ==
  ASSUME TreeInv, contended \subseteq contended', NEW w \in Workers, worker[w].pc \in Busy, ~Gathered(w)
  PROVE  Next_(w) \in FileHashes /\ Len(worker[w].here) + 1 \in DOMAIN worker[w].tree
<1>1. Len(worker[w].here) < Len(worker[w].tree)
  BY TreeFiles DEF TreeInv, WorkerOK, Underway, Gathered
<1> QED
  BY <1>1, TreeFiles DEF TreeInv, Next_

LEMMA ScanFileKeeps ==
  ASSUME TreeInv, contended \subseteq contended', NEW w \in Workers, ScanFile(w)
  PROVE  TreeInv'
<1>1. /\ worker[w].pc = "files" /\ worker[w].op # "ensure" /\ ~Gathered(w)
      /\ UNCHANGED <<pool, roots, treeRefs, gens, calls, named>>
  BY DEF ScanFile, WorkerAt
<1>2. worker[w].pc \in Busy /\ calls' \in Nat
  BY <1>1 DEF Busy, Pcs, TreeInv, Typed
<1>3. CASE Took(w, Inode(w), FALSE)
  <2>1. Inode(w) \in Inodes /\ FALSE \in BOOLEAN
    BY <1>2, NewInode
  <2>2. Grown
    BY <1>1 DEF Grown
  <2>3. worker' \in [Workers -> CallRecords] /\ Only(w) /\ WorkerOK(w)'
    BY <1>1, <1>3, <2>1, <2>2, TookFile
  <2> QED BY <1>1, <1>2, <2>3, TreeQuietStep
<1>4. CASE Goto(w, "link")
  <2>1. /\ worker' \in [Workers -> CallRecords] /\ Only(w)
        /\ worker'[w].pc = "link" /\ Kept(worker'[w], worker[w])
    <3>1. "link" \in Busy
      BY DEF Busy, Pcs
    <3> QED BY <1>4, <3>1, Going DEF TreeInv
  <2>2. Underway(w)' /\ StagedShared(w)' /\ Finished(w)' /\ StillAble(w)'
    <3>1. worker'[w].pc \in Busy
      BY <2>1 DEF Busy, Pcs
    <3> QED BY <1>1, <1>2, <2>1, <3>1, WentOn DEF Kept
  <2>3. WorkerOK(w)'
    BY <2>1, <2>2 DEF WorkerOK, Progress, RefSteps, WorkerAt
  <2> QED BY <1>1, <1>2, <2>1, <2>3, TreeQuietStep
<1> QED
  BY <1>3, <1>4 DEF ScanFile

LEMMA LinkFileKeeps ==
  ASSUME TreeInv, contended \subseteq contended', NEW w \in Workers, LinkFile(w)
  PROVE  TreeInv'
<1>1. worker[w].pc = "link" /\ UNCHANGED <<roots, treeRefs, gens, calls, named>>
  BY DEF LinkFile, WorkerAt
<1>2. worker[w].pc \in Busy /\ calls' \in Nat /\ worker[w].op # "ensure" /\ ~Gathered(w)
  BY <1>1 DEF Busy, Pcs, TreeInv, Typed, WorkerOK, Underway, WorkerAt
<1>3. Inode(w) \in Inodes /\ Inode(w) # NoInode /\ Next_(w) \in FileHashes /\ FALSE \in BOOLEAN /\ worker[w].fresh \in BOOLEAN
  <2>1. worker[w].fresh \in BOOLEAN
    BY TreeFiles DEF TreeInv, CallRecords
  <2> QED BY <1>2, <2>1, NewInode, NextFile
<1>4. CASE InPool(Next_(w))
  <2>1. Took(w, Inode(w), FALSE) /\ UNCHANGED pool
    BY <1>4 DEF LinkFile
  <2>2. Grown
    BY <1>1, <2>1 DEF Grown
  <2>3. worker' \in [Workers -> CallRecords] /\ Only(w) /\ WorkerOK(w)'
    BY <1>1, <1>2, <1>3, <2>1, <2>2, TookFile
  <2> QED BY <1>1, <1>2, <2>1, <2>3, TreeQuietStep
<1>5. CASE ~InPool(Next_(w))
  <2>1. Took(w, Inode(w), worker[w].fresh) /\ pool' = [pool EXCEPT ![Next_(w)] = Inode(w)]
    BY <1>5 DEF LinkFile
  <2>2. pool \in [FileHashes -> Inodes]
    BY DEF TreeInv, Typed
  <2>3. pool' \in [FileHashes -> Inodes] /\ pool'[Next_(w)] = Inode(w) /\ Grown
    BY <1>1, <1>3, <1>5, <2>1, <2>2 DEF Grown, InPool
  <2>4. worker' \in [Workers -> CallRecords] /\ Only(w) /\ WorkerOK(w)'
    BY <1>1, <1>2, <1>3, <2>1, <2>3, TookFile
  <2>5. Typed' /\ TreeRefsKept' /\ TargetsNamed'
    BY <1>1, <1>2, <2>3, <2>4 DEF TreeInv, Typed, TreeRefsKept, TargetsNamed
  <2>6. RootsFaithful'
    <3> SUFFICES ASSUME NEW t \in Trees, roots[t].set
                 PROVE  /\ Len(roots[t].files) = Len(t)
                        /\ \A i \in DOMAIN t : pool'[t[i]] # NoInode /\ roots[t].files[i] = pool'[t[i]]
      BY <1>1 DEF RootsFaithful, InPool
    <3>1. \A i \in DOMAIN t : t[i] \in FileHashes
      BY SettingAssumption
    <3> QED BY <2>3, <3>1 DEF TreeInv, RootsFaithful, Grown, InPool
  <2>7. ASSUME NEW v \in Workers, v # w PROVE WorkerOK(v)'
    BY <1>1, <2>3, <2>4, <2>7, OthersKeep DEF TreeInv, Only
  <2> QED BY <2>4, <2>5, <2>6, <2>7 DEF TreeInv
<1> QED
  BY <1>4, <1>5

\* A quiet step of a call, on or to its end, and what is left to show of it.
Quiet == UNCHANGED <<pool, roots, treeRefs, gens, calls, named>>

LEMMA GoesOn ==
  ASSUME TreeInv, contended \subseteq contended', NEW w \in Workers, worker[w].pc \in Busy, Quiet, NEW p \in Busy \ {"link"}, Goto(w, p)
  PROVE  /\ worker'[w].pc = p /\ Kept(worker'[w], worker[w]) /\ StillAble(w)'
         /\ (Progress(w)' /\ RefSteps(w)' => TreeInv')
<1>1. p \in Busy
  OBVIOUS
<1>2. /\ worker' \in [Workers -> CallRecords] /\ Only(w)
      /\ worker'[w].pc = p /\ Kept(worker'[w], worker[w])
  BY <1>1, Going DEF TreeInv
<1>3. worker'[w].pc \in Busy /\ (WorkerAt(w, "link")' => worker[w].op # "ensure" /\ ~Gathered(w))
  BY <1>2 DEF WorkerAt
<1>4. UNCHANGED <<pool, roots, treeRefs, gens, named>> /\ calls' \in Nat
  BY DEF Quiet, TreeInv, Typed
<1>5. Underway(w)' /\ StagedShared(w)' /\ Finished(w)' /\ StillAble(w)'
  BY <1>2, <1>3, <1>4, WentOn DEF Kept
<1> QED
  BY <1>2, <1>4, <1>5, TreeQuietStep DEF WorkerOK

LEMMA GoesAway ==
  ASSUME TreeInv, contended \subseteq contended', NEW w \in Workers, worker[w].pc \in Busy, Quiet, NEW p \in {"ok", "error"}, Goto(w, p)
  PROVE  /\ worker'[w].pc = p /\ Closed(worker'[w], worker[w]) /\ worker'[w].fault = worker[w].fault
         /\ (Finished(w)' => TreeInv')
<1>1. /\ worker' \in [Workers -> CallRecords] /\ Only(w)
      /\ worker'[w].pc = p /\ Closed(worker'[w], worker[w]) /\ worker'[w].fault = worker[w].fault
  BY Returning DEF TreeInv
<1>2. UNCHANGED <<pool, roots, treeRefs, gens, named>> /\ calls' \in Nat
  BY DEF Quiet, TreeInv, Typed
<1>3. worker'[w].pc \in {"ok", "error"}
  BY <1>1
<1>4. Finished(w)' => WorkerOK(w)'
  BY <1>1, <1>2, <1>3, EndedCall
<1> QED
  BY <1>1, <1>2, <1>4, TreeQuietStep

LEMMA ScannedKeeps ==
  ASSUME TreeInv, contended \subseteq contended', NEW w \in Workers, Scanned(w)
  PROVE  TreeInv'
<1>1. worker[w].pc = "files" /\ worker[w].op # "ensure" /\ Gathered(w) /\ Quiet
  BY DEF Scanned, WorkerAt, Quiet
<1>2. worker[w].pc \in Busy /\ "lookup" \in Busy \ {"link"}
  BY <1>1 DEF Busy, Pcs
<1>3. CASE worker[w].op = "intern" /\ worker[w].fresh
  <2>1. Goto(w, "lookup")
    BY <1>3 DEF Scanned
  <2>2. /\ worker'[w].pc = "lookup" /\ Kept(worker'[w], worker[w]) /\ StillAble(w)'
        /\ (Progress(w)' /\ RefSteps(w)' => TreeInv')
    BY <1>1, <1>2, <2>1, GoesOn
  <2>3. Progress(w)' /\ RefSteps(w)'
    BY <1>1, <1>3, <2>2 DEF Progress, RefSteps, WorkerAt, Kept, Same, Gathered
  <2> QED BY <2>2, <2>3
<1>4. CASE ~(worker[w].op = "intern" /\ worker[w].fresh)
  <2>1. Goto(w, "ok")
    BY <1>4 DEF Scanned, WorkerReturn
  <2>2. /\ worker'[w].pc = "ok" /\ Closed(worker'[w], worker[w]) /\ (Finished(w)' => TreeInv')
    BY <1>1, <1>2, <2>1, GoesAway
  <2>3. Finished(w)'
    BY <1>1, <2>2 DEF Finished, WorkerAt, Closed, Same
  <2> QED BY <2>2, <2>3
<1> QED
  BY <1>3, <1>4

LEMMA LookupRootKeeps ==
  ASSUME TreeInv, contended \subseteq contended', NEW w \in Workers, LookupRoot(w)
  PROVE  TreeInv'
<1>1. worker[w].pc = "lookup" /\ Quiet
  BY DEF LookupRoot, WorkerAt, Quiet
<1>2. worker[w].pc \in Busy /\ {"publish", "files", "ref"} \subseteq Busy \ {"link"}
  BY <1>1 DEF Busy, Pcs
<1>3. worker[w].op = "ensure" \/ (worker[w].op = "intern" /\ worker[w].fresh /\ Gathered(w))
  BY <1>1 DEF TreeInv, WorkerOK, Progress, WorkerAt
<1>4. CASE roots[worker[w].tree].set /\ worker[w].op = "intern"
  <2>1. Goto(w, "ok")
    BY <1>4 DEF LookupRoot, WorkerReturn
  <2>2. /\ worker'[w].pc = "ok" /\ Closed(worker'[w], worker[w]) /\ (Finished(w)' => TreeInv')
    BY <1>1, <1>2, <2>1, GoesAway
  <2>3. Finished(w)'
    BY <1>4, <2>2 DEF Finished, WorkerAt, Closed, Same
  <2> QED BY <2>2, <2>3
<1>5. CASE roots[worker[w].tree].set /\ worker[w].op # "intern"
  <2>1. Goto(w, "ref")
    BY <1>5 DEF LookupRoot
  <2>2. /\ worker'[w].pc = "ref" /\ Kept(worker'[w], worker[w]) /\ StillAble(w)'
        /\ (Progress(w)' /\ RefSteps(w)' => TreeInv')
    BY <1>1, <1>2, <2>1, GoesOn
  <2>3. Progress(w)' /\ RefSteps(w)'
    BY <1>1, <1>3, <1>5, <2>2 DEF Progress, RefSteps, WorkerAt, Kept, Same, Quiet
  <2> QED BY <2>2, <2>3
<1>6. CASE ~roots[worker[w].tree].set /\ worker[w].op = "intern"
  <2>1. Goto(w, "publish")
    BY <1>6 DEF LookupRoot
  <2>2. /\ worker'[w].pc = "publish" /\ Kept(worker'[w], worker[w]) /\ StillAble(w)'
        /\ (Progress(w)' /\ RefSteps(w)' => TreeInv')
    BY <1>1, <1>2, <2>1, GoesOn
  <2>3. Progress(w)' /\ RefSteps(w)'
    BY <1>3, <1>6, <2>2 DEF Progress, RefSteps, WorkerAt, Kept, Same, Gathered
  <2> QED BY <2>2, <2>3
<1>7. CASE ~roots[worker[w].tree].set /\ worker[w].op # "intern"
  <2>1. Goto(w, "files")
    BY <1>7 DEF LookupRoot
  <2>2. /\ worker'[w].pc = "files" /\ Kept(worker'[w], worker[w]) /\ StillAble(w)'
        /\ (Progress(w)' /\ RefSteps(w)' => TreeInv')
    BY <1>1, <1>2, <2>1, GoesOn
  <2>3. Progress(w)' /\ RefSteps(w)'
    BY <2>2 DEF Progress, RefSteps, WorkerAt
  <2> QED BY <2>2, <2>3
<1> QED
  BY <1>4, <1>5, <1>6, <1>7

LEMMA MaterializeFileKeeps ==
  ASSUME TreeInv, contended \subseteq contended', NEW w \in Workers, MaterializeFile(w)
  PROVE  TreeInv'
<1>1. worker[w].pc = "files" /\ worker[w].op = "ensure" /\ ~Gathered(w) /\ Quiet
  BY DEF MaterializeFile, WorkerAt, Quiet
<1>2. worker[w].pc \in Busy /\ "again" \in Busy \ {"link"} /\ Next_(w) \in FileHashes
  <2>1. worker[w].pc \in Busy /\ "again" \in Busy \ {"link"}
    BY <1>1 DEF Busy, Pcs
  <2> QED BY <1>1, <2>1, NextFile
<1>3. CASE InPool(Next_(w))
  <2>1. Took(w, pool[Next_(w)], TRUE)
    BY <1>3 DEF MaterializeFile
  <2>2. pool[Next_(w)] \in Inodes /\ TRUE \in BOOLEAN
    BY <1>2 DEF TreeInv, Typed
  <2>3. Grown /\ UNCHANGED <<pool, roots, treeRefs, gens, named>> /\ calls' \in Nat
    BY <1>1 DEF Grown, Quiet, TreeInv, Typed
  <2>4. pool'[Next_(w)] = pool[Next_(w)] /\ pool[Next_(w)] # NoInode
    BY <1>3, <2>3 DEF InPool
  <2>5. worker' \in [Workers -> CallRecords] /\ Only(w) /\ WorkerOK(w)'
    BY <1>1, <2>1, <2>2, <2>3, <2>4, TookFile
  <2> QED BY <2>3, <2>5, TreeQuietStep
<1>4. CASE ~InPool(Next_(w))
  <2>1. Goto(w, "again")
    BY <1>4 DEF MaterializeFile
  <2>2. /\ worker'[w].pc = "again" /\ Kept(worker'[w], worker[w]) /\ StillAble(w)'
        /\ (Progress(w)' /\ RefSteps(w)' => TreeInv')
    BY <1>1, <1>2, <2>1, GoesOn
  <2>3. ~worker[w].able
    BY <1>1, <1>2, <1>4, NextFile DEF TreeInv, WorkerOK, Progress, StillAble, Next_
  <2>4. Progress(w)' /\ RefSteps(w)'
    BY <1>1, <2>2, <2>3 DEF Progress, RefSteps, WorkerAt, Kept, Same
  <2> QED BY <2>2, <2>4
<1> QED
  BY <1>3, <1>4

LEMMA MaterializedKeeps ==
  ASSUME TreeInv, contended \subseteq contended', NEW w \in Workers, Materialized(w)
  PROVE  TreeInv'
<1>1. worker[w].pc = "files" /\ worker[w].op = "ensure" /\ Gathered(w) /\ Quiet /\ Goto(w, "publish")
  BY DEF Materialized, WorkerAt, Quiet
<1>2. worker[w].pc \in Busy /\ "publish" \in Busy \ {"link"}
  BY <1>1 DEF Busy, Pcs
<1>3. /\ worker'[w].pc = "publish" /\ Kept(worker'[w], worker[w]) /\ StillAble(w)'
      /\ (Progress(w)' /\ RefSteps(w)' => TreeInv')
  BY <1>1, <1>2, GoesOn
<1>4. Progress(w)' /\ RefSteps(w)'
  BY <1>1, <1>3 DEF Progress, RefSteps, WorkerAt, Kept, Same, Gathered
<1> QED
  BY <1>3, <1>4

LEMMA SecondLookupKeeps ==
  ASSUME TreeInv, contended \subseteq contended', NEW w \in Workers, SecondLookup(w)
  PROVE  TreeInv'
<1>1. worker[w].pc = "again" /\ Quiet
  BY DEF SecondLookup, WorkerAt, Quiet
<1>2. worker[w].pc \in Busy /\ "ref" \in Busy \ {"link"}
  BY <1>1 DEF Busy, Pcs
<1>3. \/ worker[w].fault \/ roots[worker[w].tree].set
      \/ worker[w].op = "ensure" /\ ~worker[w].able
  BY <1>1 DEF TreeInv, WorkerOK, Progress, WorkerAt
<1>4. CASE roots[worker[w].tree].set /\ worker[w].op = "intern"
  <2>1. Goto(w, "ok")
    BY <1>4 DEF SecondLookup, Published
  <2>2. /\ worker'[w].pc = "ok" /\ Closed(worker'[w], worker[w]) /\ (Finished(w)' => TreeInv')
    BY <1>1, <1>2, <2>1, GoesAway
  <2>3. Finished(w)'
    BY <1>4, <2>2 DEF Finished, WorkerAt, Closed, Same
  <2> QED BY <2>2, <2>3
<1>5. CASE roots[worker[w].tree].set /\ worker[w].op # "intern"
  <2>1. Goto(w, "ref")
    BY <1>5 DEF SecondLookup, Published
  <2>2. /\ worker'[w].pc = "ref" /\ Kept(worker'[w], worker[w]) /\ StillAble(w)'
        /\ (Progress(w)' /\ RefSteps(w)' => TreeInv')
    BY <1>1, <1>2, <2>1, GoesOn
  <2>3. worker[w].op = "ensure"
    BY <1>1, <1>2, <1>5, TreeFiles DEF TreeInv, WorkerOK, Progress, Underway, WorkerAt, CallRecords
  <2>4. Progress(w)' /\ RefSteps(w)'
    BY <1>1, <1>5, <2>2, <2>3 DEF Progress, RefSteps, WorkerAt, Kept, Same, Quiet
  <2> QED BY <2>2, <2>4
<1>6. CASE ~roots[worker[w].tree].set
  <2>1. Goto(w, "error")
    BY <1>6 DEF SecondLookup
  <2>2. /\ worker'[w].pc = "error" /\ Closed(worker'[w], worker[w]) /\ worker'[w].fault = worker[w].fault
        /\ (Finished(w)' => TreeInv')
    BY <1>1, <1>2, <2>1, GoesAway
  <2>3. Finished(w)'
    BY <1>3, <1>6, <2>2 DEF Finished, WorkerAt, Closed, Same
  <2> QED BY <2>2, <2>3
<1> QED
  BY <1>4, <1>5, <1>6

LEMMA RefTargets ==
  ASSUME Typed
  PROVE  \A n \in Names : treeRefs[n].set => treeRefs[n].files \in Trees /\ treeRefs[n] = RootOf(treeRefs[n].files)
<1> SUFFICES ASSUME NEW n \in Names, treeRefs[n].set
             PROVE  treeRefs[n].files \in Trees /\ treeRefs[n] = RootOf(treeRefs[n].files)
  OBVIOUS
<1>1. treeRefs[n] \in Targets
  BY DEF Typed
<1>2. treeRefs[n] # NoRoot
  <2>1. PICK f : f = FALSE
    OBVIOUS
  <2>2. NoRoot = [set |-> f]
    BY <2>1, Zenon DEF NoRoot
  <2>3. NoRoot.set = f
    BY <2>2
  <2> QED BY <2>1, <2>3, Zenon
<1>3. treeRefs[n] \in [set : {TRUE}, files : Trees]
  BY <1>1, <1>2 DEF Targets
<1>4. treeRefs[n] = [set |-> treeRefs[n].set, files |-> treeRefs[n].files] /\ treeRefs[n].files \in Trees
  BY <1>3
<1>5. treeRefs[n].set = TRUE
  BY <1>3
<1> QED
  BY <1>4, <1>5, Zenon DEF RootOf

LEMMA PublishKeeps ==
  ASSUME TreeInv, contended \subseteq contended', NEW w \in Workers, Publish(w)
  PROVE  TreeInv'
<1> DEFINE t == worker[w].tree
           free == ~roots[t].set \/ roots[t].files = <<>>
<1>1. worker[w].pc = "publish" /\ UNCHANGED <<pool, treeRefs, gens, calls, named>>
  BY DEF Publish, WorkerAt
<1>2. worker[w].pc \in Busy /\ {"ref", "again"} \subseteq Busy \ {"link"}
  BY <1>1 DEF Busy, Pcs
<1>3. /\ Gathered(w) /\ (worker[w].op = "ensure" \/ worker[w].fresh) /\ worker[w].op \in {"intern", "ensure"}
      /\ t \in Trees
  BY <1>1, <1>2, TreeFiles DEF TreeInv, WorkerOK, Progress, Underway, WorkerAt, CallRecords
<1>4. CASE ~free
  <2>1. UNCHANGED roots /\ Goto(w, "again") /\ Quiet
    BY <1>1, <1>4 DEF Publish, Quiet
  <2>2. /\ worker'[w].pc = "again" /\ Kept(worker'[w], worker[w]) /\ StillAble(w)'
        /\ (Progress(w)' /\ RefSteps(w)' => TreeInv')
    BY <1>2, <2>1, GoesOn
  <2>3. Progress(w)' /\ RefSteps(w)'
    BY <1>3, <1>4, <2>1, <2>2 DEF Progress, RefSteps, WorkerAt, Kept, Same
  <2> QED BY <2>2, <2>3
<1>5. CASE free
  <2>1. roots' = [roots EXCEPT ![t] = RootOf(worker[w].here)] /\ Goto(w, Published(w))
    BY <1>5 DEF Publish
  <2>2. /\ roots \in [Trees -> Directories] /\ worker[w].here \in Seq(Inodes) /\ RootOf(worker[w].here) \in Directories
    BY TreeFiles DEF TreeInv, Typed, RootOf, Directories
  <2>3. /\ roots' \in [Trees -> Directories] /\ roots'[t].set /\ roots'[t].files = worker[w].here
        /\ \A u \in Trees : u # t => roots'[u] = roots[u]
    BY <1>3, <2>1, <2>2 DEF RootOf
  <2>4. Grown
    BY <1>1, <2>3 DEF Grown
  <2>5. RootsFaithful'
    <3>1. Len(worker[w].here) = Len(t)
      BY <1>3 DEF Gathered
    <3>2. \A i \in DOMAIN t : InPool(t[i]) /\ worker[w].here[i] = pool[t[i]]
      BY <1>3, <3>1, TreeFiles DEF TreeInv, WorkerOK, StagedShared
    <3> QED BY <1>1, <2>3, <3>1, <3>2 DEF TreeInv, RootsFaithful, InPool
  <2>6. TreeRefsKept' /\ TargetsNamed'
    <3>1. \A n \in Names : treeRefs[n].set => treeRefs[n].files \in Trees
      BY RefTargets DEF TreeInv
    <3>2. \A n \in Names : treeRefs[n].set => roots'[treeRefs[n].files].set
      BY <2>4, <3>1 DEF TreeInv, TreeRefsKept, Grown
    <3>3. \A n \in Names : \A i \in DOMAIN gens[n] : gens[n][i] \in Trees /\ roots'[gens[n][i]].set
      BY <2>4 DEF TreeInv, TreeRefsKept, Grown
    <3> QED BY <1>1, <3>2, <3>3 DEF TreeInv, TreeRefsKept, TargetsNamed
  <2>7. worker' \in [Workers -> CallRecords] /\ Only(w) /\ WorkerOK(w)'
    <3>1. CASE worker[w].op = "intern"
      <4>1. Goto(w, "ok")
        BY <2>1, <3>1 DEF Published
      <4>2. /\ worker' \in [Workers -> CallRecords] /\ Only(w)
            /\ worker'[w].pc = "ok" /\ Closed(worker'[w], worker[w])
        BY <4>1, Returning DEF TreeInv
      <4>3. Finished(w)'
        BY <3>1, <4>2 DEF Finished, WorkerAt, Closed, Same
      <4>4. worker'[w].pc \in {"ok", "error"}
        BY <4>2
      <4> QED BY <1>1, <1>2, <4>2, <4>3, <4>4, EndedCall
    <3>2. CASE worker[w].op = "ensure"
      <4>1. Goto(w, "ref") /\ "ref" \in Busy
        BY <1>2, <2>1, <3>2 DEF Published
      <4>2. /\ worker' \in [Workers -> CallRecords] /\ Only(w)
            /\ worker'[w].pc = "ref" /\ Kept(worker'[w], worker[w])
        BY <4>1, Going DEF TreeInv
      <4>3. worker'[w].pc \in Busy /\ ~WorkerAt(w, "link")'
        BY <4>1, <4>2 DEF WorkerAt
      <4>4. Underway(w)' /\ StagedShared(w)' /\ Finished(w)' /\ StillAble(w)'
        BY <1>1, <1>2, <4>2, <4>3, WentOn DEF Kept
      <4>5. Progress(w)' /\ RefSteps(w)'
        BY <2>3, <3>2, <4>2, <4>4 DEF Progress, RefSteps, WorkerAt, Kept, Same
      <4> QED BY <4>2, <4>4, <4>5 DEF WorkerOK
    <3> QED BY <1>3, <3>1, <3>2
  <2>8. Typed'
    BY <1>1, <2>3, <2>7 DEF TreeInv, Typed
  <2>9. ASSUME NEW v \in Workers, v # w PROVE WorkerOK(v)'
    BY <1>1, <2>4, <2>7, <2>9, OthersKeep DEF TreeInv, Only
  <2> QED BY <2>5, <2>6, <2>7, <2>8, <2>9 DEF TreeInv
<1> QED
  BY <1>4, <1>5

LEMMA ReadRefKeeps ==
  ASSUME TreeInv, contended \subseteq contended', NEW w \in Workers, ReadTreeRef(w)
  PROVE  TreeInv'
<1> DEFINE n == worker[w].name
<1>1. worker[w].pc = "ref" /\ Quiet
  BY DEF ReadTreeRef, WorkerAt, Quiet
<1>2. worker[w].pc \in Busy /\ {"replace", "allocate"} \subseteq Busy \ {"link"}
  BY <1>1 DEF Busy, Pcs
<1>3. worker[w].op = "ensure" /\ roots[worker[w].tree].set /\ worker[w].tree \in Trees /\ n \in Names \cup {NoName}
  BY <1>1, <1>2, TreeFiles DEF TreeInv, WorkerOK, RefSteps, Underway, WorkerAt, CallRecords
<1>4. n # NoName /\ treeRefs[n].set =>
        /\ treeRefs[n].files \in Trees /\ roots[treeRefs[n].files].set
        /\ treeRefs[n].files \in named[n]
  BY <1>3, RefTargets DEF TreeInv, TreeRefsKept, TargetsNamed
<1>5. CASE n = NoName \/ (treeRefs[n].set /\ treeRefs[n].files = worker[w].tree)
  <2>1. Goto(w, "ok")
    BY <1>5 DEF ReadTreeRef, WorkerReturn
  <2>2. /\ worker'[w].pc = "ok" /\ Closed(worker'[w], worker[w]) /\ (Finished(w)' => TreeInv')
    BY <1>1, <1>2, <2>1, GoesAway
  <2>3. Finished(w)'
    BY <1>1, <1>3, <1>4, <1>5, <2>2 DEF Finished, WorkerAt, Closed, Same, Quiet
  <2> QED BY <2>2, <2>3
<1>6. CASE n # NoName /\ ~treeRefs[n].set
  <2>1. Goto(w, "replace")
    BY <1>6 DEF ReadTreeRef
  <2>2. /\ worker'[w].pc = "replace" /\ Kept(worker'[w], worker[w]) /\ StillAble(w)'
        /\ (Progress(w)' /\ RefSteps(w)' => TreeInv')
    BY <1>1, <1>2, <2>1, GoesOn
  <2>3. Progress(w)' /\ RefSteps(w)'
    BY <1>1, <1>3, <1>6, <2>2 DEF Progress, RefSteps, WorkerAt, Kept, Same, Quiet
  <2> QED BY <2>2, <2>3
<1>7. CASE n # NoName /\ treeRefs[n].set /\ treeRefs[n].files # worker[w].tree
  <2>1. worker' = [worker EXCEPT ![w].pc = "allocate", ![w].old = treeRefs[n].files]
    BY <1>7 DEF ReadTreeRef
  <2> DEFINE o == treeRefs[n].files
             c == [[worker[w] EXCEPT !.pc = "allocate"] EXCEPT !.old = o]
  <2>3. worker' = [worker EXCEPT ![w] = c]
    BY <2>1 DEF TreeInv, Typed
  <2>4. o \in Trees /\ roots[o].set /\ worker[w] \in CallRecords
    BY <1>4, <1>7 DEF TreeInv, Typed
  <2>5. /\ c \in CallRecords /\ c.pc = "allocate" /\ Same(c, worker[w]) /\ c.id = worker[w].id /\ c.here = worker[w].here
        /\ c.fresh = worker[w].fresh /\ c.old = o
    <3> HIDE DEF o
    <3> QED BY <2>4 DEF CallRecords, Same, Pcs
  <2> HIDE DEF c
  <2>6. worker'[w] = c /\ worker' \in [Workers -> CallRecords] /\ Only(w)
    BY <2>3, <2>5 DEF TreeInv, Typed, Only
  <2>7. worker'[w].pc \in Busy /\ ~WorkerAt(w, "link")' /\ UNCHANGED <<pool, roots, treeRefs, gens, named>> /\ calls' \in Nat
    BY <1>1, <1>2, <2>5, <2>6 DEF WorkerAt, Quiet, TreeInv, Typed
  <2>8. Underway(w)' /\ StagedShared(w)' /\ Finished(w)' /\ StillAble(w)'
    BY <1>2, <2>5, <2>6, <2>7, WentOn
  <2>9. Progress(w)' /\ RefSteps(w)'
    <3> HIDE DEF o
    <3>1. o = treeRefs[n].files
      BY DEF o
    <3> QED BY <1>3, <1>7, <2>4, <2>5, <2>6, <2>7, <2>8, <3>1 DEF Progress, RefSteps, WorkerAt, Same
  <2> QED BY <2>6, <2>7, <2>8, <2>9, TreeQuietStep DEF WorkerOK
<1> QED
  BY <1>5, <1>6, <1>7

LEMMA AllocateTreeKeeps ==
  ASSUME TreeInv, contended \subseteq contended', NEW w \in Workers, AllocateTreeGeneration(w)
  PROVE  TreeInv'
<1> DEFINE n == worker[w].name
           s == Len(gens[n]) + 1
<1>1. worker[w].pc = "allocate" /\ Quiet
  BY DEF AllocateTreeGeneration, WorkerAt, Quiet
<1>2. worker[w].pc \in Busy /\ "generation" \in Busy \ {"link"}
  BY <1>1 DEF Busy, Pcs
<1>3. /\ worker[w].op = "ensure" /\ roots[worker[w].tree].set /\ n \in Names /\ n # NoName
      /\ worker[w].old \in Trees /\ roots[worker[w].old].set
      /\ n \notin contended => treeRefs[n].set /\ worker[w].old = treeRefs[n].files
  BY <1>1, SettingAssumption DEF TreeInv, WorkerOK, RefSteps
<1>4. Len(gens[n]) \in Nat /\ s \in Nat /\ MaxTreeGenerations \in Nat
  BY <1>3, SettingAssumption DEF TreeInv, Typed
<1>5. CASE s > MaxTreeGenerations
  <2>1. Goto(w, "error")
    BY <1>5 DEF AllocateTreeGeneration, WorkerReturn
  <2>2. /\ worker'[w].pc = "error" /\ Closed(worker'[w], worker[w]) /\ (Finished(w)' => TreeInv')
    BY <1>1, <1>2, <2>1, GoesAway
  <2>3. Len(gens[n]) >= MaxTreeGenerations
    BY <1>4, <1>5
  <2>4. Finished(w)'
    BY <1>1, <1>3, <2>2, <2>3 DEF Finished, WorkerAt, Closed, Same, Quiet
  <2> QED BY <2>2, <2>4
<1>6. CASE ~(s > MaxTreeGenerations)
  <2>1. worker' = [worker EXCEPT ![w].pc = "generation", ![w].slot = s]
    BY <1>6 DEF AllocateTreeGeneration
  <2> DEFINE c == [[worker[w] EXCEPT !.pc = "generation"] EXCEPT !.slot = s]
  <2>3. worker' = [worker EXCEPT ![w] = c]
    BY <2>1 DEF TreeInv, Typed
  <2>4. s \in Nat /\ worker[w] \in CallRecords /\ s = Len(gens[n]) + 1 /\ s \in 1..(Len(gens[n]) + 1)
    BY <1>4 DEF TreeInv, Typed
  <2> HIDE DEF s
  <2>5. /\ c \in CallRecords /\ c.pc = "generation" /\ Same(c, worker[w]) /\ c.id = worker[w].id /\ c.here = worker[w].here
        /\ c.fresh = worker[w].fresh /\ c.slot = s /\ c.old = worker[w].old
    BY <2>4 DEF CallRecords, Same, Pcs
  <2> HIDE DEF c
  <2>6. worker'[w] = c /\ worker' \in [Workers -> CallRecords] /\ Only(w)
    BY <2>3, <2>5 DEF TreeInv, Typed, Only
  <2>7. worker'[w].pc \in Busy /\ ~WorkerAt(w, "link")' /\ UNCHANGED <<pool, roots, treeRefs, gens, named>> /\ calls' \in Nat
    BY <1>1, <1>2, <2>5, <2>6 DEF WorkerAt, Quiet, TreeInv, Typed
  <2>8. Underway(w)' /\ StagedShared(w)' /\ Finished(w)' /\ StillAble(w)'
    BY <1>2, <2>5, <2>6, <2>7, WentOn
  <2>9. Progress(w)' /\ RefSteps(w)'
    BY <1>3, <2>4, <2>5, <2>6, <2>7, <2>8 DEF Progress, RefSteps, WorkerAt, Same
  <2> QED BY <2>6, <2>7, <2>8, <2>9, TreeQuietStep DEF WorkerOK
<1> QED
  BY <1>5, <1>6

\* While a name is not contended, one call at a time updates it.
LEMMA TreeOwnNames ==
  ASSUME Contention \subseteq contended, contended \subseteq contended', NEW w \in Workers, NEW n \in Names \ contended',
         Updating(w, n), NEW v \in Workers, v # w
  PROVE  ~Updating(v, n)
  BY DEF Contention

LEMMA CreateGenerationKeeps ==
  ASSUME TreeInv, contended \subseteq contended', Contention \subseteq contended, NEW w \in Workers, CreateGeneration(w)
  PROVE  TreeInv'
<1> DEFINE n == worker[w].name
           o == worker[w].old
           s == worker[w].slot
           g == gens[n]
           h == IF s \in DOMAIN g THEN [g EXCEPT ![s] = o] ELSE Append(g, o)
<1>1. worker[w].pc = "generation" /\ UNCHANGED <<pool, roots, treeRefs, calls, named>> /\ Goto(w, "replace")
  BY DEF CreateGeneration, WorkerAt
<1>2. worker[w].pc \in Busy /\ "replace" \in Busy
  BY <1>1 DEF Busy, Pcs
<1>3. /\ worker[w].op = "ensure" /\ roots[worker[w].tree].set /\ n \in Names
      /\ o \in Trees /\ roots[o].set /\ s \in 1..(Len(g) + 1)
      /\ n \notin contended => treeRefs[n].set /\ o = treeRefs[n].files /\ s = Len(g) + 1
  BY <1>1 DEF TreeInv, WorkerOK, RefSteps, WorkerAt
<1>4. gens \in [Names -> Seq(Trees)] /\ g \in Seq(Trees) /\ Len(g) \in Nat /\ DOMAIN g = 1..Len(g)
  BY <1>3 DEF TreeInv, Typed
<1>5. gens' = [gens EXCEPT ![n] = h]
  BY <1>3, <1>4 DEF CreateGeneration
<1>6. /\ h \in Seq(Trees) /\ (Len(h) = Len(g) \/ Len(h) = Len(g) + 1)
      /\ \A i \in DOMAIN h : h[i] = o \/ (i \in DOMAIN g /\ h[i] = g[i])
      /\ n \notin contended => /\ \A i \in DOMAIN g : i \in DOMAIN h /\ h[i] = g[i]
                              /\ \E i \in DOMAIN h : h[i] = o
  <2>1. CASE s \in DOMAIN g
    <3>1. h = [g EXCEPT ![s] = o]
      BY <2>1
    <3>2. n \in contended
      BY <1>3, <1>4, <2>1
    <3> HIDE DEF h, g, s, o, n
    <3>3. h \in Seq(Trees) /\ Len(h) = Len(g)
      BY <1>3, <1>4, <2>1, <3>1
    <3>4. \A i \in DOMAIN h : h[i] = o \/ (i \in DOMAIN g /\ h[i] = g[i])
      BY <1>3, <1>4, <2>1, <3>1
    <3> QED BY <3>2, <3>3, <3>4
  <2>2. CASE s \notin DOMAIN g
    <3>1. h = Append(g, o)
      BY <2>2
    <3> HIDE DEF h, g, s, o, n
    <3> QED BY <1>3, <1>4, <3>1
  <2> QED BY <2>1, <2>2
<1> HIDE DEF h
<1>8. /\ gens' \in [Names -> Seq(Trees)] /\ gens'[n] = h
      /\ \A m \in Names : m # n => gens'[m] = gens[m]
  BY <1>3, <1>4, <1>5, <1>6
<1>9. /\ worker' \in [Workers -> CallRecords] /\ Only(w)
      /\ worker'[w].pc = "replace" /\ Kept(worker'[w], worker[w])
  BY <1>1, <1>2, Going DEF TreeInv
<1>10. WorkerOK(w)'
  <2>1. worker'[w].pc \in Busy /\ ~WorkerAt(w, "link")'
    BY <1>2, <1>9 DEF WorkerAt
  <2>2. Underway(w)' /\ StagedShared(w)' /\ Finished(w)' /\ StillAble(w)'
    BY <1>1, <1>2, <1>9, <2>1, WentOn DEF Kept
  <2>3. n \notin contended' => \E i \in DOMAIN gens'[n] : gens'[n][i] = treeRefs[n].files
    BY <1>3, <1>6, <1>8
  <2>4. Progress(w)' /\ RefSteps(w)'
    BY <1>1, <1>3, <1>9, <2>2, <2>3 DEF Progress, RefSteps, WorkerAt, Kept, Same
  <2> QED BY <2>2, <2>4 DEF WorkerOK
<1>11. TreeRefsKept' /\ TargetsNamed'
  <2>1. \A m \in Names : \A i \in DOMAIN gens'[m] : gens'[m][i] \in Trees /\ roots[gens'[m][i]].set
    <3> SUFFICES ASSUME NEW m \in Names, NEW i \in DOMAIN gens'[m]
                 PROVE  gens'[m][i] \in Trees /\ roots[gens'[m][i]].set
      OBVIOUS
    <3>1. CASE m = n
      BY <1>3, <1>6, <1>8, <3>1 DEF TreeInv, TreeRefsKept
    <3>2. CASE m # n
      BY <1>8, <3>2 DEF TreeInv, TreeRefsKept
    <3> QED BY <3>1, <3>2
  <2>2. ASSUME NEW m \in Names, m \notin contended'
        PROVE  {gens[m][i] : i \in DOMAIN gens[m]} \subseteq {gens'[m][i] : i \in DOMAIN gens'[m]}
    <3>1. CASE m = n
      BY <1>6, <1>8, <2>2, <3>1
    <3>2. CASE m # n
      BY <1>8, <3>2
    <3> QED BY <3>1, <3>2
  <2>3. \A m \in Names : m \notin contended' => m \notin contended
    OBVIOUS
  <2> QED BY <1>1, <2>1, <2>2, <2>3 DEF TreeInv, TreeRefsKept, TargetsNamed
<1>12. Typed' /\ RootsFaithful' /\ Grown
  <2>1. \A m \in Names : Len(gens'[m]) = Len(gens[m]) \/ Len(gens'[m]) = Len(gens[m]) + 1
    BY <1>6, <1>8
  <2> QED BY <1>1, <1>8, <1>9, <2>1 DEF TreeInv, Typed, RootsFaithful, Grown, InPool
<1>13. ASSUME NEW v \in Workers, v # w PROVE WorkerOK(v)'
  <2>1. \A m \in Names \ contended' : Updating(v, m) => m # n
    <3>1. Updating(w, n)
      BY <1>1 DEF Updating
    <3> QED BY <1>3, <1>13, <3>1, TreeOwnNames
  <2>2. \A m \in Names \ contended' : Updating(v, m) => treeRefs'[m] = treeRefs[m] /\ gens'[m] = gens[m]
    BY <1>1, <1>8, <2>1
  <2>3. Typed /\ WorkerOK(v) /\ worker'[v] = worker[v]
    BY <1>9, <1>13 DEF TreeInv, Only
  <2> QED BY <1>12, <2>2, <2>3, OthersKeep
<1> QED
  BY <1>10, <1>11, <1>12, <1>13 DEF TreeInv

LEMMA ReplaceRefKeeps ==
  ASSUME TreeInv, contended \subseteq contended', Contention \subseteq contended, NEW w \in Workers, ReplaceTreeRef(w)
  PROVE  TreeInv'
<1> DEFINE n == worker[w].name
           t == worker[w].tree
<1>1. worker[w].pc = "replace" /\ UNCHANGED <<pool, roots, gens, calls>> /\ Goto(w, "ok")
  BY DEF ReplaceTreeRef, WorkerAt, WorkerReturn
<1>2. worker[w].pc \in Busy
  BY <1>1 DEF Busy, Pcs
<1>3. /\ worker[w].op = "ensure" /\ roots[t].set /\ n \in Names /\ t \in Trees
      /\ n \notin contended => (treeRefs[n].set => \E i \in DOMAIN gens[n] : gens[n][i] = treeRefs[n].files)
  BY <1>1 DEF TreeInv, WorkerOK, RefSteps, Underway, WorkerAt
<1>4. /\ treeRefs' = [treeRefs EXCEPT ![n] = RootOf(t)]
      /\ named' = [named EXCEPT ![n] = named[n] \cup {t}]
  BY <1>3 DEF ReplaceTreeRef, TreeInv, Typed
<1>5. treeRefs \in [Names -> Targets] /\ named \in [Names -> SUBSET Trees] /\ RootOf(t) \in Targets
  BY <1>3 DEF TreeInv, Typed, RootOf, Targets
<1>6. /\ treeRefs' \in [Names -> Targets] /\ named' \in [Names -> SUBSET Trees]
      /\ treeRefs'[n] = RootOf(t) /\ named'[n] = named[n] \cup {t}
      /\ \A m \in Names : m # n => treeRefs'[m] = treeRefs[m] /\ named'[m] = named[m]
  BY <1>3, <1>4, <1>5
<1>7. treeRefs'[n].set /\ treeRefs'[n].files = t
  BY <1>6 DEF RootOf
<1>8. /\ worker' \in [Workers -> CallRecords] /\ Only(w)
      /\ worker'[w].pc = "ok" /\ Closed(worker'[w], worker[w])
  BY <1>1, Returning DEF TreeInv
<1>9. WorkerOK(w)'
  <2>1. Finished(w)'
    BY <1>1, <1>3, <1>6, <1>8 DEF Finished, WorkerAt, Closed, Same
  <2>2. worker'[w].pc \in {"ok", "error"}
    BY <1>8
  <2> QED BY <1>1, <1>2, <1>8, <2>1, <2>2, EndedCall
<1>10. TreeRefsKept' /\ TargetsNamed'
  <2>1. ASSUME NEW m \in Names
        PROVE  treeRefs'[m].set => roots[treeRefs'[m].files].set /\ treeRefs'[m].files \in named'[m]
    <3>1. CASE m = n
      BY <1>3, <1>6, <1>7, <3>1
    <3>2. CASE m # n
      BY <1>6, <3>2 DEF TreeInv, TreeRefsKept, TargetsNamed
    <3> QED BY <3>1, <3>2
  <2>2. ASSUME NEW m \in Names, m \notin contended'
        PROVE  named'[m] \subseteq {gens[m][i] : i \in DOMAIN gens[m]}
                                     \cup (IF treeRefs'[m].set THEN {treeRefs'[m].files} ELSE {})
    <3>1. m \notin contended
      BY <2>2
    <3>2. named[m] \subseteq {gens[m][i] : i \in DOMAIN gens[m]} \cup (IF treeRefs[m].set THEN {treeRefs[m].files} ELSE {})
      BY <3>1 DEF TreeInv, TreeRefsKept
    <3>3. CASE m = n
      <4>1. named[n] \subseteq {gens[n][i] : i \in DOMAIN gens[n]}
        BY <1>3, <3>1, <3>2, <3>3
      <4> QED BY <1>3, <1>6, <1>7, <3>3, <4>1
    <3>4. CASE m # n
      BY <1>6, <3>2, <3>4
    <3> QED BY <3>3, <3>4
  <2>3. \A m \in Names : \A i \in DOMAIN gens'[m] : gens'[m][i] \in Trees /\ roots'[gens'[m][i]].set
    BY <1>1 DEF TreeInv, TreeRefsKept
  <2> QED BY <1>1, <2>1, <2>2, <2>3 DEF TreeRefsKept, TargetsNamed
<1>11. Typed' /\ RootsFaithful' /\ Grown
  <2>1. \A m \in Names : named[m] \subseteq named'[m]
    BY <1>6
  <2> QED BY <1>1, <1>6, <1>8, <2>1 DEF TreeInv, Typed, RootsFaithful, Grown, InPool
<1>12. ASSUME NEW v \in Workers, v # w PROVE WorkerOK(v)'
  <2>1. \A m \in Names \ contended' : Updating(v, m) => m # n
    <3>1. Updating(w, n)
      BY <1>1 DEF Updating
    <3> QED BY <1>3, <1>12, <3>1, TreeOwnNames
  <2>2. \A m \in Names \ contended' : Updating(v, m) => treeRefs'[m] = treeRefs[m] /\ gens'[m] = gens[m]
    BY <1>1, <1>6, <2>1
  <2>3. Typed /\ WorkerOK(v) /\ worker'[v] = worker[v]
    BY <1>8, <1>12 DEF TreeInv, Only
  <2> QED BY <1>11, <2>2, <2>3, OthersKeep
<1> QED
  BY <1>9, <1>10, <1>11, <1>12 DEF TreeInv

LEMMA FaultedCall ==
  ASSUME NEW c \in CallRecords, NEW d, d = [c EXCEPT !.fault = TRUE]
  PROVE  d \in CallRecords /\ d.fault /\ d.pc = c.pc /\ Same(d, c) /\ d.id = c.id /\ d.here = c.here /\ d.fresh = c.fresh
<1>1. PICK b \in BOOLEAN : b = TRUE
  OBVIOUS
<1>2. d = [c EXCEPT !.fault = b]
  BY <1>1, Zenon
<1>3. d \in CallRecords /\ d.fault = b /\ d.pc = c.pc /\ Same(d, c) /\ d.id = c.id /\ d.here = c.here /\ d.fresh = c.fresh
  BY <1>2 DEF CallRecords, Same
<1> QED
  BY <1>1, <1>3, Zenon

LEMMA FaultKeeps ==
  ASSUME TreeInv, contended \subseteq contended', NEW w \in Workers, Fault(w)
  PROVE  TreeInv'
<1> DEFINE spoilt == [worker[w] EXCEPT !.fault = TRUE]
<1>1. worker[w].pc \in {"files", "link", "lookup", "publish", "ref", "allocate", "generation", "replace"} /\ Quiet
  BY DEF Fault, Quiet
<1>2. worker[w].pc \in Busy /\ worker[w] \in CallRecords /\ UNCHANGED <<pool, roots, treeRefs, gens, named>> /\ calls' \in Nat
  BY <1>1 DEF Busy, Pcs, Quiet, TreeInv, Typed
<1>3. /\ spoilt \in CallRecords /\ spoilt.fault /\ spoilt.pc = worker[w].pc /\ Same(spoilt, worker[w])
      /\ spoilt.id = worker[w].id /\ spoilt.here = worker[w].here /\ spoilt.fresh = worker[w].fresh
  <2>1. spoilt = [worker[w] EXCEPT !.fault = TRUE]
    OBVIOUS
  <2> HIDE DEF spoilt
  <2> QED BY <1>2, <2>1, FaultedCall
<1>4. CASE WorkerAt(w, "publish") \/ (WorkerAt(w, "files") /\ worker[w].op = "ensure")
  <2> DEFINE c == [spoilt EXCEPT !.pc = "again"]
  <2>1. worker' = [worker EXCEPT ![w] = c]
    <3>1. spoilt.op = worker[w].op
      BY <1>3 DEF Same
    <3> QED BY <1>4, <3>1, Zenon DEF Fault
  <2>2. /\ c \in CallRecords /\ c.pc = "again" /\ Same(c, worker[w]) /\ c.fault
        /\ c.id = worker[w].id /\ c.here = worker[w].here /\ c.fresh = worker[w].fresh
    <3> HIDE DEF spoilt
    <3>1. "again" \in Pcs
      BY DEF Pcs
    <3>2. c \in CallRecords /\ c.pc = "again" /\ Kept(c, spoilt)
      BY <1>3, <3>1, MovedCall
    <3> HIDE DEF c
    <3> QED BY <1>3, <3>2, Zenon DEF Kept, Same
  <2> HIDE DEF c
  <2>3. worker'[w] = c /\ worker' \in [Workers -> CallRecords] /\ Only(w)
    BY <2>1, <2>2 DEF TreeInv, Typed, Only
  <2>4. worker'[w].pc \in Busy /\ ~WorkerAt(w, "link")'
    BY <2>2, <2>3 DEF WorkerAt, Busy, Pcs
  <2>5. Underway(w)' /\ StagedShared(w)' /\ Finished(w)' /\ StillAble(w)'
    BY <1>2, <2>2, <2>3, <2>4, WentOn
  <2>6. worker[w].op # "install"
    BY <1>4 DEF TreeInv, WorkerOK, Progress
  <2>7. Progress(w)' /\ RefSteps(w)'
    BY <2>2, <2>3, <2>5, <2>6 DEF Progress, RefSteps, WorkerAt, Same
  <2> QED BY <1>2, <2>3, <2>5, <2>7, TreeQuietStep DEF WorkerOK
<1>5. CASE ~(WorkerAt(w, "publish") \/ (WorkerAt(w, "files") /\ worker[w].op = "ensure"))
  <2> DEFINE c == Over(spoilt, "error")
  <2>1. worker' = [worker EXCEPT ![w] = c]
    <3>1. spoilt.op = worker[w].op
      BY <1>3 DEF Same
    <3> QED BY <1>5, <3>1, Zenon DEF Fault
  <2>2. c \in CallRecords /\ c.pc = "error" /\ Closed(c, worker[w]) /\ c.fault
    <3> HIDE DEF spoilt
    <3>1. "error" \in Pcs
      BY DEF Pcs
    <3>2. c \in CallRecords /\ c.pc = "error" /\ Closed(c, spoilt) /\ c.fault = spoilt.fault
      BY <1>3, <3>1, ClosedCall
    <3> HIDE DEF c
    <3> QED BY <1>3, <3>2, Zenon DEF Closed, Same
  <2> HIDE DEF c
  <2>3. worker'[w] = c /\ worker' \in [Workers -> CallRecords] /\ Only(w)
    BY <2>1, <2>2 DEF TreeInv, Typed, Only
  <2>4. Finished(w)' /\ worker'[w].pc \in {"ok", "error"} /\ Closed(worker'[w], worker[w])
    BY <2>2, <2>3 DEF Finished, WorkerAt
  <2> QED BY <1>2, <2>3, <2>4, EndedCall, TreeQuietStep
<1> QED
  BY <1>4, <1>5

\* A worker that does nothing satisfies its part.
LEMMA IdleOK ==
  ASSUME NEW w \in Workers, worker[w] = Idle
  PROVE  WorkerOK(w)
<1>1. PICK f : f = FALSE
  OBVIOUS
<1>2. Idle = [pc |-> "idle", op |-> "none", tree |-> <<>>, name |-> NoName, id |-> 0, here |-> <<>>,
              fresh |-> f, able |-> f, fault |-> f, slot |-> 0, old |-> <<>>]
  BY <1>1, Zenon DEF Idle
<1>3. worker[w].pc = "idle" /\ worker[w].op = "none" /\ worker[w].name = NoName /\ worker[w].here = <<>> /\ worker[w].tree = <<>>
  BY <1>2
<1> QED
  BY <1>3 DEF WorkerOK, Underway, StagedShared, Progress, StillAble, RefSteps, Finished, WorkerAt, Busy

LEMMA CrashKeeps ==
  ASSUME TreeInv, contended \subseteq contended', NEW w \in Workers, WorkerCrash(w)
  PROVE  TreeInv'
<1>1. worker' = [worker EXCEPT ![w] = Idle] /\ UNCHANGED <<pool, roots, treeRefs, gens, named>> /\ calls' \in Nat
  BY DEF WorkerCrash, TreeInv, Typed
<1>2. worker' \in [Workers -> CallRecords] /\ Only(w) /\ worker'[w] = Idle
  BY <1>1, IdleCall DEF TreeInv, Typed, Only
<1>3. WorkerOK(w)'
  <2>1. (worker[w] = Idle)'
    BY <1>2 DEF Idle
  <2>2. (worker[w] = Idle)' => WorkerOK(w)'
    BY IdleOK, PTL
  <2> QED BY <2>1, <2>2
<1> QED
  BY <1>1, <1>2, <1>3, TreeQuietStep

LEMMA TreeInit ==
  ASSUME TreesInit
  PROVE  TreeInv
<1>1. worker = [w \in Workers |-> Idle] /\ pool = [h \in FileHashes |-> NoInode] /\ calls = 0
  BY DEF TreesInit
<1>2. roots = [t \in Trees |-> NoRoot] /\ treeRefs = [n \in Names |-> NoRoot] /\ gens = [n \in Names |-> <<>>]
      /\ named = [n \in Names |-> {}]
  BY DEF TreesInit
<1>3. Typed
  <2>1. worker \in [Workers -> CallRecords]
    BY <1>1, IdleCall
  <2>2. pool \in [FileHashes -> Inodes]
    BY <1>1 DEF NoInode, Inodes
  <2>3. roots \in [Trees -> Directories] /\ treeRefs \in [Names -> Targets]
    BY <1>2 DEF Directories, Targets
  <2>4. gens \in [Names -> Seq(Trees)] /\ named \in [Names -> SUBSET Trees]
    BY <1>2
  <2> QED BY <1>1, <2>1, <2>2, <2>3, <2>4 DEF Typed
<1>4. ~NoRoot.set
  <2>1. PICK f : f = FALSE
    OBVIOUS
  <2>2. NoRoot = [set |-> f]
    BY <2>1, Zenon DEF NoRoot
  <2>3. NoRoot.set = f
    BY <2>2
  <2> QED BY <2>1, <2>3, Zenon
<1>5. RootsFaithful
  BY <1>2, <1>4 DEF RootsFaithful
<1>6. TreeRefsKept /\ TargetsNamed
  BY <1>2, <1>4 DEF TreeRefsKept, TargetsNamed
<1>7. \A w \in Workers : WorkerOK(w)
  BY <1>1, IdleOK
<1> QED
  BY <1>3, <1>5, <1>6, <1>7 DEF TreeInv

LEMMA TreeStep ==
  ASSUME TreeInv, Contention \subseteq contended, [TreesNext]_treeVars
  PROVE  TreeInv'
<1>1. CASE UNCHANGED treeVars
  BY <1>1 DEF treeVars, TreeInv, Typed, RootsFaithful, TreeRefsKept, TargetsNamed, WorkerOK, Underway, StagedShared, Progress, StillAble,
              RefSteps, Finished, WorkerAt, Gathered, InPool
<1>2. ASSUME NEW w \in Workers, Step(w), contended \subseteq contended' PROVE TreeInv'
  <2>1. CASE intern_tree(w) \/ import_with_install(w) \/ ensure_materialized_root(w)
    BY <1>2, <2>1, StartKeeps DEF intern_tree, import_with_install, ensure_materialized_root
  <2>2. CASE ScanFile(w)
    BY <1>2, <2>2, ScanFileKeeps
  <2>3. CASE LinkFile(w)
    BY <1>2, <2>3, LinkFileKeeps
  <2>4. CASE Scanned(w)
    BY <1>2, <2>4, ScannedKeeps
  <2>5. CASE LookupRoot(w)
    BY <1>2, <2>5, LookupRootKeeps
  <2>6. CASE MaterializeFile(w)
    BY <1>2, <2>6, MaterializeFileKeeps
  <2>7. CASE Materialized(w)
    BY <1>2, <2>7, MaterializedKeeps
  <2>8. CASE Publish(w)
    BY <1>2, <2>8, PublishKeeps
  <2>9. CASE SecondLookup(w)
    BY <1>2, <2>9, SecondLookupKeeps
  <2>10. CASE ReadTreeRef(w)
    BY <1>2, <2>10, ReadRefKeeps
  <2>11. CASE CreateGeneration(w)
    BY <1>2, <2>11, CreateGenerationKeeps
  <2>12. CASE ReplaceTreeRef(w)
    BY <1>2, <2>12, ReplaceRefKeeps
  <2>13. CASE Fault(w)
    BY <1>2, <2>13, FaultKeeps
  <2>14. CASE WorkerCrash(w)
    BY <1>2, <2>14, CrashKeeps
  <2>15. CASE AllocateTreeGeneration(w)
    BY <1>2, <2>15, AllocateTreeKeeps
  <2> QED
    BY <1>2, <2>1, <2>2, <2>3, <2>4, <2>5, <2>6, <2>7, <2>8, <2>9, <2>10, <2>11, <2>12, <2>13, <2>14, <2>15 DEF Step
<1> QED
  BY <1>1, <1>2 DEF TreesNext

\* However many workers intern, install and materialize whichever trees at the
\* same time, and wherever they fail or are killed: published trees are
\* complete and share the pool's files, no call fails for what another one
\* does, and a name keeps all the trees it has referred to, unless two updates
\* of it have overlapped (fs_tree.rs).
THEOREM TreesAlwaysShared == TreesSpec => []TreesShared
<1>1. TreesInit => TreeInv /\ Contention \subseteq contended
  <2> SUFFICES ASSUME TreesInit PROVE Contention = {}
    BY TreeInit
  <2>1. \A w \in Workers : worker[w].pc = "idle"
    BY IdleCall DEF TreesInit
  <2> QED BY <2>1 DEF Contention, Updating
<1>2. TreeInv /\ Contention \subseteq contended /\ [TreesNext]_treeVars => TreeInv' /\ (Contention \subseteq contended)'
  <2>1. ASSUME Contention \subseteq contended, [TreesNext]_treeVars PROVE (Contention \subseteq contended)'
    BY <2>1 DEF TreesNext, treeVars, Contention, Updating
  <2> QED BY <2>1, TreeStep
<1>3. TreeInv => TreesShared
  BY DEF TreeInv, TreesShared, TreeCallsSucceed, WorkerOK, Finished
<1> QED
  BY <1>1, <1>2, <1>3, PTL DEF TreesSpec
=============================================================================
