-------------------------- MODULE PublicationState --------------------------
(***************************************************************************)
(* The publication state machine of a remote repository (crate bobr-repo:  *)
(* publisher.rs, the validation of master.rs and plan_existing_prepare of  *)
(* main.rs), as operators on values.                                       *)
(*                                                                         *)
(* A master lists slot states in strictly increasing serial order (the     *)
(* code rejects any other list), so a list is a function from the serials  *)
(* in it to their slots.  A slot without a deadline is current, the        *)
(* current one of the highest serial is active; a retired slot stays       *)
(* listed until its deadline.  Every immutable value is stored under its   *)
(* digest, so a key is the pair of its namespace and the value itself.     *)
(* The code treats build and reuse indexes alike, and object and file      *)
(* lists: one index and one list stand for the two of a slot.              *)
(***************************************************************************)
EXTENDS Integers, Sequences, SequencesExt, Functions

CONSTANTS
  MapKeys,     \* build and reuse keys
  NoDeadline   \* retain_until of a current slot

----------------------------------------------------------------------------
(* Slot contents *)

Mapped(c) == UNION {ToSet(c.maps[k]) : k \in MapKeys}

\* SlotContents::validate_closure
ClosureOK(c) == Mapped(c) \subseteq c.objects

\* merge_candidates: the newer candidates first, then the old ones that are not among them.
merge_candidates(old, newer) ==
  newer \o SelectSeq(old, LAMBDA o : o \notin ToSet(newer))

merge_newer(c, newer) ==
  [maps    |-> [k \in MapKeys |-> merge_candidates(c.maps[k], newer.maps[k])],
   objects |-> c.objects \cup newer.objects,
   files   |-> c.files \cup newer.files]

ContentKeys(c) == ({"o"} \X c.objects) \cup ({"f"} \X c.files)
MetadataKeys(c) == {<<"index", c.maps>>, <<"list", <<c.objects, c.files>>>>}
SlotKeys(c) == ContentKeys(c) \cup MetadataKeys(c)

----------------------------------------------------------------------------
(* Slot lists *)

IsCurrent(slot) == slot.retain_until = NoDeadline
CurrentSerials(slots) == {s \in DOMAIN slots : IsCurrent(slots[s])}
Newest(serials) == CHOOSE s \in serials : \A t \in serials : t <= s
ActiveSerial(slots) == Newest(CurrentSerials(slots))
OldestSerial(slots) == CHOOSE s \in CurrentSerials(slots) : \A t \in CurrentSerials(slots) : s <= t

\* Master::validate, and with it PublicationState::metadata.  The order of the
\* serials, which it checks too, is in the representation.
Validate(slots) == DOMAIN slots # {} /\ CurrentSerials(slots) # {}

MetadataOf(slots) == UNION {MetadataKeys(slots[s].contents) : s \in DOMAIN slots}

\* live_keys: everything any listed slot refers to, current or retired.
LiveKeysOfCurrent(slots) == UNION {SlotKeys(slots[s].contents) : s \in CurrentSerials(slots)}
live_keys(slots) == UNION {SlotKeys(slots[s].contents) : s \in DOMAIN slots}

next_serial(slots) == Newest(DOMAIN slots) + 1

Retire(slots, s, until) == [slots EXCEPT ![s].retain_until = until]

\* A new current slot, after all the listed ones.
Push(slots, contents, serial) ==
  [s \in DOMAIN slots \cup {serial} |->
     IF s = serial THEN [retain_until |-> NoDeadline, contents |-> contents] ELSE slots[s]]

initialize(contents) == Push(<<>>, contents, 1)

AppendToActive(slots, incoming, until) ==
  LET a == ActiveSerial(slots)
  IN  Push(Retire(slots, a, until), merge_newer(slots[a].contents, incoming), next_serial(slots))

AddSlot(slots, incoming) == Push(slots, incoming, next_serial(slots))

Rotate(slots, incoming, until) ==
  Push(Retire(slots, OldestSerial(slots), until), incoming, next_serial(slots))

Expired(slot, now) == ~ IsCurrent(slot) /\ slot.retain_until <= now
prune_expired(slots, now) == Restrict(slots, {s \in DOMAIN slots : ~ Expired(slots[s], now)})

----------------------------------------------------------------------------
(* What prepare does with an existing repository: the next slot list and   *)
(* whether anything has to be uploaded for it.                             *)

plan_existing_prepare(slots, action, incoming, now, retention) ==
  LET kept  == prune_expired(slots, now)
      until == now + retention
      next  == CASE action = "append"   -> AppendToActive(kept, incoming, until)
                 [] action = "add-slot" -> AddSlot(kept, incoming)
                 [] action = "rotate"   -> Rotate(kept, incoming, until)
      same  == /\ action = "append"
               /\ kept[ActiveSerial(kept)].contents = next[next_serial(kept)].contents
  IN  IF ~ (Validate(kept) /\ ClosureOK(incoming)) THEN [kind |-> "invalid", slots |-> slots]
      ELSE IF ~ Validate(next) THEN [kind |-> "invalid", slots |-> slots]
      ELSE IF same THEN [kind  |-> IF kept = slots THEN "unchanged" ELSE "prune",
                         slots |-> kept]
      ELSE [kind |-> "upload", slots |-> next]
=============================================================================
