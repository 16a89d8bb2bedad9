----------------------- MODULE RemoteRepository_proofs -----------------------
(***************************************************************************)
(* Proofs about RemoteRepository, for any number of administrators, any    *)
(* contents, any retention and any length of the history: masters form one *)
(* chain in which a serial keeps its meaning, the bucket serves every      *)
(* reader whose slots have not expired, and status never reports a         *)
(* repository as ready on the evidence of another master's listing.        *)
(*                                                                         *)
(* What makes them inductive is a fact about commands in progress: the     *)
(* slot list a command works on, or a candidate file holds, extends the    *)
(* list of the master it is based on (Extends), and, while that master is  *)
(* still the current one, whatever it refers to is in the bucket or is on  *)
(* the command's list of uploads (Backed).                                 *)
(***************************************************************************)
EXTENDS RemoteRepository, TLAPS

\* The slot list a command based on master m starts from.
Base(m) == IF m = 0 THEN <<>> ELSE SlotsOf(m)

\* A slot list as prepare leaves it: positive serials up to a bound, deadlines
\* that are numbers, and a current slot above all the others.
IsSlot(slot) ==
  /\ slot = [retain_until |-> slot.retain_until, contents |-> slot.contents]
  /\ slot.retain_until \in {NoDeadline} \cup 0 .. now + Retention
Listed(slots, bound) ==
  /\ slots = [s \in DOMAIN slots |-> slots[s]]
  /\ DOMAIN slots \subseteq 1 .. bound
  /\ \A s \in DOMAIN slots : IsSlot(slots[s])
  /\ \E top \in DOMAIN slots : IsCurrent(slots[top]) /\ \A s \in DOMAIN slots : s <= top

\* What prepare may do to a slot list: keep a slot's contents, add slots above
\* all the old ones, and drop slots that have expired.
Extends(old, new) ==
  /\ \A s \in DOMAIN new : IF s \in DOMAIN old THEN new[s].contents = old[s].contents
                           ELSE \A t \in DOMAIN old : t < s
  /\ \A s \in DOMAIN old \ DOMAIN new : Expired(old[s], now)
  /\ \A s \in DOMAIN old : \E t \in DOMAIN new : s <= t

Succeeds(base, slots) ==
  base \in 0 .. Current /\ Listed(slots, base + 1) /\ Extends(Base(base), slots)

----------------------------------------------------------------------------
(* The invariant *)

Shapes == /\ candidate = [a \in Admins |-> candidate[a]]
          /\ cmd = [a \in Admins |-> cmd[a]]

GcPCs == {"gc metadata", "gc list", "gc check", "gc delete"}
WorkPCs == {"list", "upload", "write", "put"}

\* A command's fields; only plan and metadata have no slot list yet.
CmdOK(a) ==
  LET c == cmd[a]
  IN  /\ c = [pc |-> c.pc, base |-> c.base, slots |-> c.slots, want |-> c.want, meta |-> c.meta]
      /\ c.pc \in PCs
      /\ c.base \in 0 .. Current
      /\ c.pc = "idle" => c = Idle
      /\ c.pc \in WorkPCs => Succeeds(c.base, c.slots)
      /\ c.pc \in {"gc list", "gc check", "gc delete"} => c.base # 0

\* Uploads that a command still has to make.
Backed(a) ==
  LET c == cmd[a]
  IN  c.base = Current =>
        /\ c.pc = "list" =>
             live_keys(c.slots) \subseteq stored \cup c.want \cup MetadataOf(c.slots)
        /\ c.pc \in {"upload", "write"} =>
             live_keys(c.slots) \subseteq stored \cup c.want \cup c.meta
        /\ c.pc = "put" => live_keys(c.slots) \subseteq stored

CandidateOK(a) ==
  \A c \in candidate[a] :
    /\ Succeeds(c.previous, c.slots)
    /\ c.previous = Current => live_keys(c.slots) \subseteq stored

\* A collection runs alone, and deletes nothing the master it looked at lists.
GcOK(a) ==
  cmd[a].pc \in GcPCs =>
    /\ \A b \in Admins \ {a} : cmd[b].pc = "idle"
    /\ ~ Pending
    /\ cmd[a].pc \in {"gc check", "gc delete"} =>
         cmd[a].want \cap live_keys(SlotsOf(cmd[a].base)) = {}
    /\ cmd[a].pc = "gc delete" => cmd[a].base = Current

\* Every serial ever used is at most the highest one of the current master.
SerialsGrow ==
  \A m \in 1 .. Current : \A s \in DOMAIN SlotsOf(m) :
    \E t \in DOMAIN SlotsOf(Current) : s <= t

\* A slot of any master is still listed, or expired in a master since then.
SlotsKept ==
  \A m \in 1 .. Current : \A s \in DOMAIN SlotsOf(m) :
    \/ s \in DOMAIN SlotsOf(Current)
    \/ \E n \in m .. Current : s \in DOMAIN SlotsOf(n) /\ Expired(SlotsOf(n)[s], now)

HistoryOK ==
  /\ \E S : history \in Seq(S)
  /\ now \in 0 .. MaxTime
  /\ \A m \in 1 .. Current : Listed(SlotsOf(m), m)
  /\ HistoryLinear /\ SerialsGrow /\ SlotsKept

LiveStored == Current # 0 => live_keys(SlotsOf(Current)) \subseteq stored

StatusOK ==
  /\ status = [pc |-> status.pc, attempt |-> status.attempt, base |-> status.base,
               missing |-> status.missing, incomplete |-> status.incomplete]
  /\ status.pc \in {"idle", "master", "absent", "metadata", "list", "confirm"}
  /\ status.base \in 0 .. Current
  /\ status.pc = "list" => status.base # 0
  /\ status.pc = "confirm" /\ status.base = Current => status.missing = {}
  /\ status.incomplete = FALSE

Inv ==
  /\ HistoryOK /\ Shapes
  /\ \A a \in Admins : CmdOK(a) /\ Backed(a) /\ CandidateOK(a) /\ GcOK(a)
  /\ LiveStored
  /\ StatusOK

----------------------------------------------------------------------------
(* Slot lists *)

\* A list that differs from another in deadlines only.
Alike(kept, slots) ==
  /\ slots = [s \in DOMAIN kept |-> slots[s]]
  /\ \A s \in DOMAIN kept : IsSlot(slots[s]) /\ slots[s].contents = kept[s].contents

\* The highest of a set of serials, where there is one.
LEMMA NewestIsTop ==
  ASSUME NEW S \in SUBSET Int, NEW top \in S, \A s \in S : s <= top
  PROVE  Newest(S) = top
<1>1. \E s \in S : \A t \in S : t <= s
  OBVIOUS
<1>2. Newest(S) \in S /\ \A t \in S : t <= Newest(S)
  BY <1>1 DEF Newest
<1>3. Newest(S) <= top /\ top <= Newest(S) /\ Newest(S) \in Int /\ top \in Int
  BY <1>2
<1> HIDE DEF Newest
<1> QED
  BY <1>3

\* prune_expired drops expired slots and nothing else.
LEMMA PruneExtends ==
  ASSUME NEW slots, NEW bound \in Nat, Listed(slots, bound), now \in Nat
  PROVE  /\ Listed(prune_expired(slots, now), bound)
         /\ Extends(slots, prune_expired(slots, now))
         /\ \A s \in DOMAIN prune_expired(slots, now) :
              s \in DOMAIN slots /\ prune_expired(slots, now)[s] = slots[s]
<1> DEFINE kept == prune_expired(slots, now)
<1>1. /\ DOMAIN kept = {s \in DOMAIN slots : ~ Expired(slots[s], now)}
      /\ kept = [s \in DOMAIN kept |-> kept[s]]
      /\ \A s \in DOMAIN kept : kept[s] = slots[s]
  BY DEF prune_expired, Restrict
<1>2. PICK top \in DOMAIN slots : IsCurrent(slots[top]) /\ \A s \in DOMAIN slots : s <= top
  BY DEF Listed
<1>3. top \in DOMAIN kept
  BY <1>1, <1>2 DEF Expired
<1> HIDE DEF kept
<1>4. Listed(kept, bound)
  BY <1>1, <1>2, <1>3 DEF Listed
<1>5. Extends(slots, kept)
  BY <1>1, <1>2, <1>3 DEF Extends
<1> QED
  BY <1>1, <1>4, <1>5 DEF kept

\* Retiring a slot changes its deadline only.
LEMMA RetireAlike ==
  ASSUME NEW slots, NEW bound \in Nat, Listed(slots, bound), NEW i,
         NEW until \in 0 .. now + Retention
  PROVE  Alike(slots, Retire(slots, i, until))
<1> DEFINE new == Retire(slots, i, until)
<1>1. new = [s \in DOMAIN slots |-> IF s = i THEN [slots[s] EXCEPT !.retain_until = until] ELSE slots[s]]
  BY DEF Retire, Listed
<1>2. ASSUME NEW s \in DOMAIN slots
      PROVE  IsSlot(new[s]) /\ new[s].contents = slots[s].contents
  <2>1. slots[s] = [retain_until |-> slots[s].retain_until, contents |-> slots[s].contents]
    BY DEF Listed, IsSlot
  <2>2. CASE s = i
    <3>1. new[s] = [retain_until |-> until, contents |-> slots[s].contents]
      BY <1>1, <2>1, <2>2
    <3> QED
      BY <3>1 DEF IsSlot
  <2>3. CASE s # i
    BY <1>1, <2>3 DEF Listed
  <2> QED
    BY <2>2, <2>3
<1>3. new = [s \in DOMAIN slots |-> new[s]]
  BY <1>1
<1> QED
  BY <1>2, <1>3 DEF Alike

\* What a slot list refers to is what its slots refer to.
LEMMA LiveKeysSplit ==
  ASSUME NEW slots, NEW K, \A s \in DOMAIN slots : ContentKeys(slots[s].contents) \subseteq K
  PROVE  live_keys(slots) \subseteq K \cup MetadataOf(slots)
BY DEF live_keys, SlotKeys, MetadataOf

LEMMA ContentKeysLive ==
  ASSUME NEW slots, NEW s \in DOMAIN slots
  PROVE  /\ SlotKeys(slots[s].contents) \subseteq live_keys(slots)
         /\ ContentKeys(slots[s].contents) \subseteq live_keys(slots)
BY DEF live_keys, SlotKeys

LEMMA MergedKeys ==
  ASSUME NEW c, NEW newer
  PROVE  ContentKeys(merge_newer(c, newer)) = ContentKeys(c) \cup ContentKeys(newer)
<1>1. /\ merge_newer(c, newer).objects = c.objects \cup newer.objects
      /\ merge_newer(c, newer).files = c.files \cup newer.files
  BY DEF merge_newer
<1> QED
  BY <1>1 DEF ContentKeys

\* A publication with new contents: one more slot, and nothing else to upload
\* than the incoming contents and the metadata of the listed slots.
LEMMA PushPlanned ==
  ASSUME NEW old, NEW slots, NEW bound \in Nat, NEW contents, NEW incoming,
         Listed(old, bound), now \in Nat, Alike(prune_expired(old, now), slots),
         \/ contents = incoming
         \/ \E s \in DOMAIN prune_expired(old, now) :
              contents = merge_newer(prune_expired(old, now)[s].contents, incoming)
  PROVE  LET new == Push(slots, contents, next_serial(prune_expired(old, now)))
         IN  /\ Listed(new, bound + 1)
             /\ Extends(old, new)
             /\ live_keys(new) \subseteq live_keys(old) \cup ContentKeys(incoming) \cup MetadataOf(new)
<1> DEFINE kept == prune_expired(old, now)
           n == next_serial(kept)
           new == Push(slots, contents, n)
           K == live_keys(old) \cup ContentKeys(incoming)
<1>1. /\ Listed(kept, bound) /\ Extends(old, kept)
      /\ \A s \in DOMAIN kept : s \in DOMAIN old /\ kept[s] = old[s]
  BY PruneExtends
<1>2. DOMAIN old \subseteq Int /\ Alike(kept, slots)
  BY DEF Listed
<1> HIDE DEF kept, n, new
<1>3. /\ DOMAIN new = DOMAIN kept \cup {n}
      /\ Listed(new, bound + 1)
      /\ Extends(old, new)
      /\ new[n].contents = contents
      /\ \A s \in DOMAIN kept : new[s].contents = kept[s].contents
  <2>1. PICK top \in DOMAIN kept : IsCurrent(kept[top]) /\ \A s \in DOMAIN kept : s <= top
    BY <1>1 DEF Listed
  <2>2. n = top + 1 /\ n \in 1 .. bound + 1 /\ top \in Int /\ n \in Int
    BY <1>1, <2>1, NewestIsTop DEF next_serial, Listed, n
  <2>3. n \notin DOMAIN kept /\ \A s \in DOMAIN kept : s < n
    BY <1>1, <2>1, <2>2 DEF Listed
  <2>4. DOMAIN slots = DOMAIN kept
    BY <1>2 DEF Alike
  <2>5. /\ DOMAIN new = DOMAIN kept \cup {n}
        /\ new = [s \in DOMAIN new |-> new[s]]
        /\ new[n] = [retain_until |-> NoDeadline, contents |-> contents]
        /\ \A s \in DOMAIN kept : new[s] = slots[s]
    BY <2>3, <2>4 DEF Push, new
  <2>6. \A s \in DOMAIN kept : IsSlot(new[s]) /\ new[s].contents = kept[s].contents
    BY <1>2, <2>5 DEF Alike
  <2>7. IsSlot(new[n]) /\ IsCurrent(new[n]) /\ new[n].contents = contents
    BY <2>5 DEF IsSlot, IsCurrent
  <2>8. Listed(new, bound + 1)
    BY <1>1, <2>2, <2>3, <2>5, <2>6, <2>7 DEF Listed
  <2>9. \A s \in DOMAIN old : s < n
    BY <1>1, <1>2, <2>2, <2>3 DEF Extends, Listed
  <2>10. Extends(old, new)
    <3>1. ASSUME NEW s \in DOMAIN new
          PROVE  IF s \in DOMAIN old THEN new[s].contents = old[s].contents
                 ELSE \A t \in DOMAIN old : t < s
      BY <1>1, <2>2, <2>5, <2>6, <2>9 DEF Extends
    <3>2. \A s \in DOMAIN old \ DOMAIN new : Expired(old[s], now)
      BY <1>1, <2>5 DEF Extends
    <3>3. \A s \in DOMAIN old : \E t \in DOMAIN new : s <= t
      BY <1>1, <2>5 DEF Extends
    <3> QED
      BY <3>1, <3>2, <3>3 DEF Extends
  <2> QED
    BY <2>5, <2>6, <2>7, <2>8, <2>10
<1>4. \A s \in DOMAIN kept : ContentKeys(kept[s].contents) \subseteq live_keys(old)
  BY <1>1, ContentKeysLive
<1>5. ContentKeys(contents) \subseteq K
  BY <1>4, MergedKeys DEF kept
<1>6. \A s \in DOMAIN new : ContentKeys(new[s].contents) \subseteq K
  BY <1>3, <1>4, <1>5
<1>7. live_keys(new) \subseteq K \cup MetadataOf(new)
  BY <1>6, LiveKeysSplit
<1> QED
  BY <1>3, <1>7 DEF new, n, kept

\* plan_existing_prepare: whatever it decides to publish succeeds the list it
\* started from.
LEMMA PlanSucceeds ==
  ASSUME NEW old, NEW action \in Actions, NEW incoming, NEW bound \in Nat,
         Listed(old, bound), now \in Nat
  PROVE  LET plan == plan_existing_prepare(old, action, incoming, now, Retention)
         IN  /\ plan.kind = "upload" =>
                  /\ Listed(plan.slots, bound + 1) /\ Extends(old, plan.slots)
                  /\ live_keys(plan.slots)
                       \subseteq live_keys(old) \cup ContentKeys(incoming) \cup MetadataOf(plan.slots)
             /\ plan.kind = "prune" =>
                  /\ Listed(plan.slots, bound + 1) /\ Extends(old, plan.slots)
                  /\ live_keys(plan.slots) \subseteq live_keys(old)
<1> DEFINE plan == plan_existing_prepare(old, action, incoming, now, Retention)
           kept == prune_expired(old, now)
           until == now + Retention
           a == ActiveSerial(kept)
           Good(new) == /\ Listed(new, bound + 1) /\ Extends(old, new)
                        /\ live_keys(new)
                             \subseteq live_keys(old) \cup ContentKeys(incoming) \cup MetadataOf(new)
<1>1. /\ Listed(kept, bound) /\ Extends(old, kept)
      /\ \A s \in DOMAIN kept : s \in DOMAIN old /\ kept[s] = old[s]
  BY PruneExtends
<1>2. until \in 0 .. now + Retention
  BY BoundsAssumption
<1>3. a \in DOMAIN kept
  <2>1. PICK top \in DOMAIN kept : IsCurrent(kept[top]) /\ \A s \in DOMAIN kept : s <= top
    BY <1>1 DEF Listed
  <2>2. CurrentSerials(kept) \in SUBSET Int /\ top \in CurrentSerials(kept)
        /\ \A s \in CurrentSerials(kept) : s <= top
    BY <1>1, <2>1 DEF CurrentSerials, Listed
  <2>3. a = top
    BY <2>2, NewestIsTop DEF ActiveSerial
  <2> QED
    BY <2>3
<1>4. \A i : Alike(kept, Retire(kept, i, until))
  BY <1>1, <1>2, RetireAlike
<1>5. Alike(kept, kept)
  BY <1>1 DEF Alike, Listed
<1>6. Good(AppendToActive(kept, incoming, until))
  BY <1>3, <1>4, PushPlanned DEF AppendToActive
<1>7. Good(AddSlot(kept, incoming))
  BY <1>5, PushPlanned DEF AddSlot
<1>8. Good(Rotate(kept, incoming, until))
  BY <1>4, PushPlanned DEF Rotate
<1>9. plan.kind = "upload" => Good(plan.slots)
  <2> HIDE DEF Good, kept, until
  <2>1. plan.kind = "upload" =>
          \/ action = "append" /\ plan.slots = AppendToActive(kept, incoming, until)
          \/ action = "add-slot" /\ plan.slots = AddSlot(kept, incoming)
          \/ action = "rotate" /\ plan.slots = Rotate(kept, incoming, until)
    BY ActionsAssumption DEF plan_existing_prepare, kept, until
  <2> HIDE DEF plan
  <2> QED
    BY <2>1, <1>6, <1>7, <1>8
<1>10. plan.kind = "prune" => plan.slots = kept
  BY DEF plan_existing_prepare
<1>11. Listed(kept, bound + 1)
  BY <1>1 DEF Listed
<1>12. live_keys(kept) \subseteq live_keys(old)
  BY <1>1 DEF live_keys
<1> HIDE DEF plan, kept
<1> QED
  BY <1>1, <1>9, <1>10, <1>11, <1>12 DEF plan

\* The first slot list of a repository.
LEMMA InitialSucceeds ==
  ASSUME NEW incoming
  PROVE  /\ Listed(initialize(incoming), 1) /\ Extends(<<>>, initialize(incoming))
         /\ live_keys(initialize(incoming))
              \subseteq ContentKeys(incoming) \cup MetadataOf(initialize(incoming))
<1> DEFINE new == initialize(incoming)
<1>1. /\ DOMAIN new = {1} /\ new = [s \in DOMAIN new |-> new[s]]
      /\ new[1] = [retain_until |-> NoDeadline, contents |-> incoming]
  BY DEF initialize, Push
<1> HIDE DEF new
<1>2. IsSlot(new[1]) /\ IsCurrent(new[1]) /\ new[1].contents = incoming
  BY <1>1 DEF IsSlot, IsCurrent
<1>3. Listed(new, 1)
  BY <1>1, <1>2 DEF Listed
<1>4. Extends(<<>>, new)
  BY <1>1 DEF Extends
<1>5. live_keys(new) \subseteq ContentKeys(incoming) \cup MetadataOf(new)
  BY <1>1, <1>2, LiveKeysSplit
<1> QED
  BY <1>3, <1>4, <1>5 DEF new

----------------------------------------------------------------------------
(* What a step that leaves the history alone preserves *)

LEMMA HistoryFrame ==
  ASSUME HistoryOK, UNCHANGED <<history, now>>
  PROVE  HistoryOK'
<1>1. Current' = Current /\ \A m : SlotsOf(m)' = SlotsOf(m)
  BY DEF Current, SlotsOf
<1>2. \A m \in 1 .. Current' : Listed(SlotsOf(m), m)'
  BY <1>1 DEF HistoryOK, Listed, IsSlot, IsCurrent
<1>3. HistoryLinear' /\ SerialsGrow'
  BY <1>1 DEF HistoryOK, HistoryLinear, SerialsGrow
<1>4. SlotsKept'
  BY <1>1 DEF HistoryOK, SlotsKept, Expired, IsCurrent
<1> QED
  BY <1>2, <1>3, <1>4 DEF HistoryOK

LEMMA SucceedsFrame ==
  ASSUME UNCHANGED <<history, now>>
  PROVE  \A b, slots : Succeeds(b, slots) => Succeeds(b, slots)'
BY DEF Succeeds, Listed, IsSlot, IsCurrent, Extends, Expired, Base, SlotsOf, Current

LEMMA CandidateFrame ==
  ASSUME NEW a, CandidateOK(a), UNCHANGED <<history, now>>, candidate'[a] = candidate[a],
         stored \subseteq stored'
  PROVE  CandidateOK(a)'
<1> SUFFICES ASSUME NEW c \in candidate'[a]
             PROVE  /\ Succeeds(c.previous, c.slots)'
                    /\ c.previous = Current' => live_keys(c.slots) \subseteq stored'
  BY DEF CandidateOK
<1>1. Succeeds(c.previous, c.slots) /\ (c.previous = Current => live_keys(c.slots) \subseteq stored)
  BY DEF CandidateOK
<1>2. Succeeds(c.previous, c.slots)'
  BY <1>1, SucceedsFrame
<1> QED
  BY <1>1, <1>2 DEF Current

LEMMA CmdFrame ==
  ASSUME NEW a, CmdOK(a), Backed(a), UNCHANGED <<history, now>>, cmd'[a] = cmd[a],
         stored \subseteq stored'
  PROVE  CmdOK(a)' /\ Backed(a)'
<1>1. CmdOK(a)'
  <2>1. cmd[a].pc \in WorkPCs => Succeeds(cmd[a].base, cmd[a].slots)'
    BY SucceedsFrame DEF CmdOK
  <2> QED
    BY <2>1 DEF CmdOK, Current, PCs, WorkPCs, Idle
<1>2. Backed(a)'
  BY DEF Backed, Current
<1> QED
  BY <1>1, <1>2

\* A step of one administrator that neither publishes nor deletes.
LEMMA AdminFrame ==
  ASSUME Inv, NEW a \in Admins, UNCHANGED <<history, now, status>>, stored \subseteq stored',
         cmd' = [cmd EXCEPT ![a] = cmd'[a]], candidate' = [candidate EXCEPT ![a] = candidate'[a]],
         \A b \in Admins \ {a} : cmd[b].pc \notin GcPCs,
         CmdOK(a)', Backed(a)', GcOK(a)', CandidateOK(a)'
  PROVE  Inv'
<1>1. HistoryOK' /\ Shapes'
  BY HistoryFrame DEF Inv, Shapes
<1>2. ASSUME NEW b \in Admins
      PROVE  CmdOK(b)' /\ Backed(b)' /\ CandidateOK(b)' /\ GcOK(b)'
  <2>1. CASE b = a
    BY <2>1
  <2>2. CASE b # a
    <3>1. cmd'[b] = cmd[b] /\ candidate'[b] = candidate[b]
      BY <2>2 DEF Inv, Shapes
    <3>2. CmdOK(b)' /\ Backed(b)' /\ CandidateOK(b)'
      BY <3>1, CmdFrame, CandidateFrame DEF Inv
    <3>3. GcOK(b)'
      BY <2>2, <3>1 DEF GcOK
    <3> QED
      BY <3>2, <3>3
  <2> QED
    BY <2>1, <2>2
<1>3. LiveStored'
  BY DEF Inv, LiveStored, Current, SlotsOf
<1>4. StatusOK'
  BY DEF Inv, StatusOK, Current
<1> QED
  BY <1>1, <1>2, <1>3, <1>4 DEF Inv

\* While one administrator is at work no other one collects.
LEMMA NoOtherCollects ==
  ASSUME Inv, NEW a \in Admins, cmd[a].pc # "idle" \/ Collecting = {}
  PROVE  \A b \in Admins \ {a} : cmd[b].pc \notin GcPCs
BY DEF Inv, GcOK, Collecting, GcPCs

LEMMA InvInit == Init => Inv
<1> SUFFICES ASSUME Init PROVE Inv
  OBVIOUS
<1>1. Current = 0 /\ history \in Seq({})
  BY DEF Init, Current
<1>2. HistoryOK
  BY <1>1, BoundsAssumption DEF Init, HistoryOK, HistoryLinear, SerialsGrow, SlotsKept
<1>3. Shapes
  BY DEF Init, Shapes
<1>4. ASSUME NEW a \in Admins
      PROVE  CmdOK(a) /\ Backed(a) /\ CandidateOK(a) /\ GcOK(a)
  <2>1. cmd[a] = Idle /\ candidate[a] = {}
    BY DEF Init
  <2> QED
    BY <1>1, <2>1 DEF Idle, CmdOK, Backed, CandidateOK, GcOK, GcPCs, PCs, WorkPCs
<1>5. LiveStored /\ StatusOK
  BY <1>1 DEF Init, LiveStored, StatusOK, StatusIdle
<1> QED
  BY <1>2, <1>3, <1>4, <1>5 DEF Inv

----------------------------------------------------------------------------
(* The steps of prepare *)

LEMMA CmdStep ==
  ASSUME Inv, NEW a \in Admins, UNCHANGED <<history, stored, candidate, now, status>>,
         cmd' = [cmd EXCEPT ![a] = cmd'[a]], cmd[a].pc # "idle" \/ Collecting = {},
         CmdOK(a)', Backed(a)', GcOK(a)'
  PROVE  Inv'
<1>1. CandidateOK(a)'
  BY CandidateFrame DEF Inv
<1>2. candidate' = [candidate EXCEPT ![a] = candidate'[a]]
  BY DEF Inv, Shapes
<1>3. \A b \in Admins \ {a} : cmd[b].pc \notin GcPCs
  BY NoOtherCollects
<1> QED
  BY <1>1, <1>2, <1>3, AdminFrame

LEMMA IdleOK ==
  ASSUME NEW a, cmd'[a] = Idle, Current' \in Nat
  PROVE  CmdOK(a)' /\ Backed(a)' /\ GcOK(a)'
BY DEF CmdOK, Backed, GcOK, Idle, PCs, WorkPCs, GcPCs

LEMMA LengthIsNatural ==
  ASSUME HistoryOK
  PROVE  Current \in Nat
BY DEF HistoryOK, Current

LEMMA FetchableRange ==
  ASSUME Current \in Nat
  PROVE  Fetchable \subseteq 1 .. Current
<1>1. Fetchable = 1 .. Current \/ Fetchable = {Current} \ {0}
  BY Zenon DEF Fetchable
<1> QED
  BY <1>1

LEMMA Ranges ==
  ASSUME Inv
  PROVE  /\ Current \in Nat /\ now \in Nat
         /\ \A a \in Admins : cmd[a].base \in 0 .. Current
<1>1. Current \in Nat
  BY LengthIsNatural DEF Inv
<1>2. now \in Nat
  BY BoundsAssumption DEF Inv, HistoryOK
<1>3. \A a \in Admins : cmd[a].base \in 0 .. Current
  BY DEF Inv, CmdOK
<1> QED
  BY <1>1, <1>2, <1>3

\* Any command may end without a trace in the bucket.
LEMMA IdleStep ==
  ASSUME Inv, NEW a \in Admins, UNCHANGED <<history, stored, candidate, now, status>>,
         Step(a, Idle), cmd[a].pc # "idle"
  PROVE  Inv'
<1>1. cmd'[a] = Idle /\ cmd' = [cmd EXCEPT ![a] = cmd'[a]]
  BY DEF Step, Inv, Shapes
<1>2. Current' \in Nat
  BY LengthIsNatural DEF Inv, Current
<1> QED
  BY <1>1, <1>2, IdleOK, CmdStep

\* A command is a record of five fields.
LEMMA SetPc ==
  ASSUME NEW c, NEW p,
         c = [pc |-> c.pc, base |-> c.base, slots |-> c.slots, want |-> c.want, meta |-> c.meta]
  PROVE  [c EXCEPT !.pc = p]
           = [pc |-> p, base |-> c.base, slots |-> c.slots, want |-> c.want, meta |-> c.meta]
OBVIOUS

IsCmd(c) ==
  c = [pc |-> c.pc, base |-> c.base, slots |-> c.slots, want |-> c.want, meta |-> c.meta]

LEMMA CmdFields ==
  ASSUME NEW a, NEW p, NEW b, NEW l, NEW w, NEW m,
         cmd'[a] = [pc |-> p, base |-> b, slots |-> l, want |-> w, meta |-> m]
  PROVE  /\ IsCmd(cmd[a])' /\ cmd'[a].pc = p /\ cmd'[a].base = b /\ cmd'[a].slots = l
         /\ cmd'[a].want = w /\ cmd'[a].meta = m
BY DEF IsCmd

\* Before a command has a slot list there is little to say about it.
LEMMA EarlyOK ==
  ASSUME NEW a, NEW p \in {"metadata", "plan", "gc metadata", "gc list"}, IsCmd(cmd[a])',
         cmd'[a].pc = p, cmd'[a].base \in 0 .. Current', p = "gc list" => cmd'[a].base # 0
  PROVE  CmdOK(a)' /\ Backed(a)'
<1>1. /\ p \in PCs /\ p # "idle" /\ p \notin WorkPCs
      /\ p \notin {"gc check", "gc delete", "list", "upload", "write", "put"}
  BY DEF PCs, WorkPCs
<1>2. CmdOK(a)'
  BY <1>1 DEF CmdOK, IsCmd
<1>3. Backed(a)'
  BY <1>1 DEF Backed
<1> QED
  BY <1>2, <1>3

LEMMA NotCollecting ==
  ASSUME NEW a, cmd'[a].pc \notin GcPCs
  PROVE  GcOK(a)'
BY DEF GcOK

LEMMA StepOf ==
  ASSUME Inv, NEW a \in Admins
  PROVE  \A r : Step(a, r) => cmd'[a] = r /\ cmd' = [cmd EXCEPT ![a] = cmd'[a]]
BY DEF Step, Inv, Shapes

MetadataThen(pc, next) ==
  \/ pc = "metadata" /\ next = "plan"
  \/ pc = "gc metadata" /\ next = "gc list"

\* The master and the metadata of its slots, for a command of either kind.
LEMMA MetadataStep ==
  ASSUME Inv, NEW a \in Admins, UNCHANGED <<history, stored, candidate, now, status>>,
         NEW next, MetadataThen(cmd[a].pc, next), PublicationMetadata(a, next)
  PROVE  Inv'
<1>1. PICK m \in Fetchable :
        \/ Step(a, [cmd[a] EXCEPT !.pc = next, !.base = m])
        \/ Step(a, Idle)
  BY DEF PublicationMetadata
<1>4. next \in {"plan", "gc list"} /\ cmd[a].pc # "idle"
  BY DEF MetadataThen
<1>2. CASE Step(a, Idle)
  BY <1>2, <1>4, IdleStep
<1>3. CASE Step(a, [cmd[a] EXCEPT !.pc = next, !.base = m])
  <2>1. Current \in Nat /\ Current' = Current
    BY LengthIsNatural DEF Inv, Current
  <2>2. m \in 1 .. Current
    BY <2>1, FetchableRange
  <2>3. cmd'[a] = [cmd[a] EXCEPT !.pc = next, !.base = m] /\ cmd' = [cmd EXCEPT ![a] = cmd'[a]]
    BY <1>3, StepOf
  <2>4. cmd'[a] = [pc |-> next, base |-> m, slots |-> cmd[a].slots, want |-> cmd[a].want,
                   meta |-> cmd[a].meta]
    BY <2>3 DEF Inv, CmdOK
  <2>7. cmd'[a].pc = next /\ cmd'[a].base = m /\ IsCmd(cmd[a])'
    <3>1. cmd'[a].pc = next
      BY <2>4
    <3>2. cmd'[a].base = m
      BY <2>4
    <3>3. IsCmd(cmd[a])'
      BY <2>4 DEF IsCmd
    <3> QED
      BY <3>1, <3>2, <3>3
  <2>5. CmdOK(a)' /\ Backed(a)'
    <3>1. cmd'[a].base \in 0 .. Current' /\ cmd'[a].base # 0
      BY <2>1, <2>2, <2>7
    <3>2. next \in {"metadata", "plan", "gc metadata", "gc list"}
      BY <1>4
    <3> QED
      BY <2>7, <3>1, <3>2, EarlyOK
  <2>6. GcOK(a)'
    <3>1. CASE next = "plan"
      BY <2>7, <3>1 DEF GcOK, GcPCs
    <3>2. CASE next = "gc list"
      <4>1. ~ Pending /\ \A b \in Admins \ {a} : cmd[b].pc = "idle"
        BY <3>2 DEF Inv, GcOK, GcPCs, MetadataThen
      <4>2. ~ Pending'
        BY <4>1 DEF Pending, Current
      <4>3. \A b \in Admins \ {a} : cmd'[b].pc = "idle"
        BY <4>1, <2>3 DEF Inv, Shapes
      <4> QED
        BY <1>4, <4>2, <4>3, <2>7, <3>2 DEF GcOK
    <3> QED
      BY <1>4, <3>1, <3>2
  <2> QED
    BY <1>4, <2>3, <2>5, <2>6, CmdStep
<1> QED
  BY <1>1, <1>2, <1>3

LEMMA PrepareBeginInv ==
  ASSUME Inv, NEW a \in Admins, PrepareBegin(a)
  PROVE  Inv'
<1>1. Current \in Nat /\ Current' = Current
  BY LengthIsNatural DEF Inv, Current, PrepareBegin
<1>2. cmd[a] = Idle /\ Collecting = {}
  BY DEF PrepareBegin, MayStart, At, Inv, CmdOK
<1>3. PICK p \in {"plan", "metadata"} : Step(a, [cmd[a] EXCEPT !.pc = p])
  BY DEF PrepareBegin, Goto
<1>6. cmd'[a] = [cmd[a] EXCEPT !.pc = p] /\ cmd' = [cmd EXCEPT ![a] = cmd'[a]]
  BY <1>3, StepOf
<1>4. cmd'[a] = [pc |-> p, base |-> cmd[a].base, slots |-> cmd[a].slots, want |-> cmd[a].want,
                 meta |-> cmd[a].meta]
  BY <1>6, SetPc DEF Inv, CmdOK
<1>5. CmdOK(a)' /\ Backed(a)' /\ GcOK(a)'
  <2>1. cmd'[a].pc = p /\ cmd'[a].base \in 0 .. Current' /\ IsCmd(cmd[a])'
    BY <1>1, <1>4, Ranges DEF IsCmd
  <2>2. p \notin GcPCs /\ p # "gc list"
    BY DEF GcPCs
  <2> QED
    BY <2>1, <2>2, EarlyOK, NotCollecting
<1> QED
  BY <1>2, <1>6, <1>5, CmdStep DEF PrepareBegin

LEMMA PreparePlanInv ==
  ASSUME Inv, NEW a \in Admins, PreparePlan(a)
  PROVE  Inv'
<1> DEFINE base == cmd[a].base
<1>1. UNCHANGED <<history, stored, candidate, now, status>> /\ cmd[a].pc = "plan"
  BY DEF PreparePlan, At
<1>2. Current \in Nat /\ Current' = Current
  BY <1>1, LengthIsNatural DEF Inv, Current
<1>3. PICK incoming \in Inventories, action \in Actions :
        LET plan == IF base = 0
                    THEN [kind  |-> IF action = "append" THEN "upload" ELSE "invalid",
                          slots |-> initialize(incoming)]
                    ELSE plan_existing_prepare(SlotsOf(base), action, incoming, now, Retention)
            work == [cmd[a] EXCEPT !.slots = plan.slots]
        IN  Step(a, CASE plan.kind = "upload" -> [work EXCEPT !.pc = "list", !.want = ContentKeys(incoming)]
                      [] plan.kind = "prune"  -> [work EXCEPT !.pc = "write"]
                      [] OTHER                -> Idle)
  BY DEF PreparePlan
<1> DEFINE plan == IF base = 0
                   THEN [kind  |-> IF action = "append" THEN "upload" ELSE "invalid",
                         slots |-> initialize(incoming)]
                   ELSE plan_existing_prepare(SlotsOf(base), action, incoming, now, Retention)
           work == [cmd[a] EXCEPT !.slots = plan.slots]
           live == IF base = 0 THEN {} ELSE live_keys(SlotsOf(base))
<1>4. base \in 0 .. Current /\ now \in Nat
  BY Ranges
<1>5. /\ plan.kind = "upload" =>
           /\ Succeeds(base, plan.slots)
           /\ live_keys(plan.slots) \subseteq live \cup ContentKeys(incoming) \cup MetadataOf(plan.slots)
      /\ plan.kind = "prune" => Succeeds(base, plan.slots) /\ live_keys(plan.slots) \subseteq live
  <2>1. CASE base = 0
    <3>1. plan.slots = initialize(incoming) /\ plan.kind # "prune"
      BY <2>1
    <3>2. Base(base) = <<>> /\ base + 1 = 1
      BY <2>1 DEF Base
    <3> HIDE DEF plan
    <3> QED
      BY <3>1, <3>2, <1>4, InitialSucceeds DEF Succeeds
  <2>2. CASE base # 0
    <3>1. Listed(SlotsOf(base), base) /\ base \in Nat
      BY <2>2, <1>2, <1>4 DEF Inv, HistoryOK
    <3>2. plan = plan_existing_prepare(SlotsOf(base), action, incoming, now, Retention)
          /\ live = live_keys(SlotsOf(base)) /\ Base(base) = SlotsOf(base)
      BY <2>2 DEF Base
    <3> HIDE DEF plan, live
    <3> QED
      BY <3>1, <3>2, <1>4, PlanSucceeds DEF Succeeds
  <2> QED
    BY <2>1, <2>2
<1>6. Step(a, CASE plan.kind = "upload" -> [work EXCEPT !.pc = "list", !.want = ContentKeys(incoming)]
                [] plan.kind = "prune"  -> [work EXCEPT !.pc = "write"]
                [] OTHER                -> Idle)
  BY <1>3
<1>7. base = Current => live \subseteq stored
  BY <1>4, <1>2 DEF Inv, LiveStored
<1> HIDE DEF plan, live
<1>8. CASE plan.kind = "upload"
  <2>1. cmd'[a] = [work EXCEPT !.pc = "list", !.want = ContentKeys(incoming)]
        /\ cmd' = [cmd EXCEPT ![a] = cmd'[a]]
    BY <1>6, <1>8, StepOf
  <2>2. cmd'[a] = [pc |-> "list", base |-> base, slots |-> plan.slots,
                   want |-> ContentKeys(incoming), meta |-> cmd[a].meta]
    BY <2>1 DEF Inv, CmdOK
  <2>3. Succeeds(cmd[a].base, cmd[a].slots)'
    BY <1>1, <1>5, <1>8, <2>2, SucceedsFrame
  <2>4. CmdOK(a)'
    BY <1>2, <1>4, <2>2, <2>3 DEF CmdOK, PCs, WorkPCs
  <2>5. Backed(a)' /\ GcOK(a)'
    BY <1>1, <1>2, <1>5, <1>7, <1>8, <2>2 DEF Backed, GcOK, GcPCs
  <2> QED
    BY <1>1, <2>1, <2>4, <2>5, CmdStep
<1>9. CASE plan.kind = "prune"
  <2>1. cmd'[a] = [work EXCEPT !.pc = "write"] /\ cmd' = [cmd EXCEPT ![a] = cmd'[a]]
    BY <1>6, <1>9, StepOf
  <2>2. cmd'[a] = [pc |-> "write", base |-> base, slots |-> plan.slots,
                   want |-> cmd[a].want, meta |-> cmd[a].meta]
    BY <2>1 DEF Inv, CmdOK
  <2>3. Succeeds(cmd[a].base, cmd[a].slots)'
    BY <1>1, <1>5, <1>9, <2>2, SucceedsFrame
  <2>4. CmdOK(a)'
    BY <1>2, <1>4, <2>2, <2>3 DEF CmdOK, PCs, WorkPCs
  <2>5. Backed(a)' /\ GcOK(a)'
    BY <1>1, <1>2, <1>5, <1>7, <1>9, <2>2 DEF Backed, GcOK, GcPCs
  <2> QED
    BY <1>1, <2>1, <2>4, <2>5, CmdStep
<1>10. CASE plan.kind # "upload" /\ plan.kind # "prune"
  BY <1>1, <1>6, <1>10, IdleStep
<1> QED
  BY <1>8, <1>9, <1>10

\* A command past its plan, whose slot list and master stay the same.
LEMMA WorkOK ==
  ASSUME Inv, NEW a \in Admins, UNCHANGED <<history, now>>, NEW p \in WorkPCs, cmd[a].pc \in WorkPCs,
         IsCmd(cmd[a])', cmd'[a].pc = p, cmd'[a].base = cmd[a].base, cmd'[a].slots = cmd[a].slots
  PROVE  CmdOK(a)' /\ GcOK(a)'
<1>1. /\ p \in PCs /\ p # "idle" /\ p \notin GcPCs
      /\ p \notin {"gc list", "gc check", "gc delete"}
  BY DEF PCs, WorkPCs, GcPCs
<1>2. Current' = Current
  BY DEF Current
<1>3. cmd[a].base \in 0 .. Current /\ Succeeds(cmd[a].base, cmd[a].slots)
  BY DEF Inv, CmdOK
<1>4. Succeeds(cmd[a].base, cmd[a].slots)'
  BY <1>3, SucceedsFrame
<1>5. CmdOK(a)'
  BY <1>1, <1>2, <1>3, <1>4 DEF CmdOK, IsCmd
<1> QED
  BY <1>1, <1>5, NotCollecting

LEMMA PrepareListInv ==
  ASSUME Inv, NEW a \in Admins, PrepareList(a)
  PROVE  Inv'
<1> DEFINE c == cmd[a]
<1>1. /\ UNCHANGED <<history, stored, candidate, now, status>> /\ c.pc = "list"
      /\ Step(a, [c EXCEPT !.pc = "upload", !.want = @ \ stored, !.meta = MetadataOf(c.slots)])
  BY DEF PrepareList, At
<1>2. IsCmd(c)
  BY DEF Inv, CmdOK, IsCmd
<1>3. cmd'[a] = [c EXCEPT !.pc = "upload", !.want = @ \ stored, !.meta = MetadataOf(c.slots)]
      /\ cmd' = [cmd EXCEPT ![a] = cmd'[a]]
  BY <1>1, StepOf
<1>4. cmd'[a] = [pc |-> "upload", base |-> c.base, slots |-> c.slots, want |-> c.want \ stored,
                 meta |-> MetadataOf(c.slots)]
  BY <1>2, <1>3 DEF IsCmd
<1>5. /\ IsCmd(cmd[a])' /\ cmd'[a].pc = "upload" /\ cmd'[a].base = c.base /\ cmd'[a].slots = c.slots
      /\ cmd'[a].want = c.want \ stored /\ cmd'[a].meta = MetadataOf(c.slots)
  BY <1>4 DEF IsCmd
<1>6. "upload" \in WorkPCs /\ "list" \in WorkPCs
  BY DEF WorkPCs
<1>7. CmdOK(a)' /\ GcOK(a)'
  BY <1>1, <1>5, <1>6, WorkOK
<1>8. Backed(a)'
  <2>1. c.base = Current => live_keys(c.slots) \subseteq stored \cup c.want \cup MetadataOf(c.slots)
    BY <1>1 DEF Inv, Backed
  <2>2. Current' = Current
    BY <1>1 DEF Current
  <2> QED
    BY <1>1, <1>5, <2>1, <2>2 DEF Backed
<1> QED
  BY <1>1, <1>3, <1>7, <1>8, CmdStep

\* An upload takes a key from one of the command's two lists to the bucket.
LEMMA PrepareUploadInv ==
  ASSUME Inv, NEW a \in Admins, PrepareUpload(a)
  PROVE  Inv'
<1> DEFINE c == cmd[a]
<1>1. UNCHANGED <<history, candidate, now, status>> /\ c.pc = "upload"
  BY DEF PrepareUpload, At
<1>2. PICK k \in Uploadable(a) :
        /\ stored' = stored \cup {k}
        /\ Step(a, [c EXCEPT !.want = @ \ {k}, !.meta = IF c.want = {} THEN @ \ {k} ELSE @])
  BY DEF PrepareUpload
<1>3. IsCmd(c)
  BY DEF Inv, CmdOK, IsCmd
<1>4. PICK left : /\ left \in {c.meta, c.meta \ {k}}
                  /\ Step(a, [c EXCEPT !.want = @ \ {k}, !.meta = left])
  BY <1>2
<1>5. cmd'[a] = [c EXCEPT !.want = @ \ {k}, !.meta = left] /\ cmd' = [cmd EXCEPT ![a] = cmd'[a]]
  BY <1>4, StepOf
<1>6. cmd'[a] = [pc |-> c.pc, base |-> c.base, slots |-> c.slots, want |-> c.want \ {k}, meta |-> left]
  BY <1>3, <1>5 DEF IsCmd
<1>7. /\ IsCmd(cmd[a])' /\ cmd'[a].pc = c.pc /\ cmd'[a].base = c.base /\ cmd'[a].slots = c.slots
      /\ cmd'[a].want = c.want \ {k} /\ cmd'[a].meta = left
  BY <1>6 DEF IsCmd
<1>8. c.pc \in WorkPCs /\ c.pc # "idle"
  BY <1>1 DEF WorkPCs
<1>9. CmdOK(a)' /\ GcOK(a)'
  BY <1>1, <1>7, <1>8, WorkOK
<1>10. Backed(a)'
  <2>1. c.base = Current => live_keys(c.slots) \subseteq stored \cup c.want \cup c.meta
    BY <1>1 DEF Inv, Backed
  <2>2. Current' = Current
    BY <1>1 DEF Current
  <2>3. stored \cup c.want \cup c.meta \subseteq stored' \cup (c.want \ {k}) \cup left
    BY <1>2, <1>4
  <2> QED
    BY <1>1, <1>7, <2>1, <2>2, <2>3 DEF Backed
<1>11. CandidateOK(a)' /\ candidate' = [candidate EXCEPT ![a] = candidate'[a]]
  BY <1>1, <1>2, CandidateFrame DEF Inv, Shapes
<1>12. \A b \in Admins \ {a} : cmd[b].pc \notin GcPCs
  BY <1>8, NoOtherCollects
<1> QED
  BY <1>1, <1>2, <1>5, <1>9, <1>10, <1>11, <1>12, AdminFrame

\* The candidate file is only written when there is nothing left to upload.
LEMMA PrepareWriteInv ==
  ASSUME Inv, NEW a \in Admins, PrepareWrite(a)
  PROVE  Inv'
<1> DEFINE c == cmd[a]
           file == [previous |-> c.base, slots |-> c.slots]
<1>1. /\ UNCHANGED <<history, stored, now, status>> /\ c.pc \in {"upload", "write"}
      /\ c.want = {} /\ c.meta = {}
      /\ candidate' = [candidate EXCEPT ![a] = {file}]
      /\ Step(a, Idle)
  BY DEF PrepareWrite, At
<1>2. cmd'[a] = Idle /\ cmd' = [cmd EXCEPT ![a] = cmd'[a]]
  BY <1>1, StepOf
<1>3. Current' = Current /\ Current \in Nat
  BY <1>1, Ranges DEF Current
<1>4. CmdOK(a)' /\ Backed(a)' /\ GcOK(a)'
  BY <1>2, <1>3, IdleOK
<1>5. candidate'[a] = {file} /\ candidate' = [candidate EXCEPT ![a] = candidate'[a]]
  BY <1>1 DEF Inv, Shapes
<1>6. CandidateOK(a)'
  <2>1. Succeeds(c.base, c.slots)
    BY <1>1 DEF Inv, CmdOK, WorkPCs
  <2>2. c.base = Current => live_keys(c.slots) \subseteq stored
    BY <1>1 DEF Inv, Backed
  <2>3. SUFFICES ASSUME NEW f \in candidate'[a]
                 PROVE  /\ Succeeds(f.previous, f.slots)'
                        /\ f.previous = Current' => live_keys(f.slots) \subseteq stored'
    BY DEF CandidateOK
  <2>4. f.previous = c.base /\ f.slots = c.slots
    BY <1>5
  <2> QED
    BY <1>1, <1>3, <2>1, <2>2, <2>4, SucceedsFrame
<1>7. \A b \in Admins \ {a} : cmd[b].pc \notin GcPCs
  BY <1>1, NoOtherCollects
<1> QED
  BY <1>1, <1>2, <1>4, <1>5, <1>6, <1>7, AdminFrame

LEMMA AbandonInv ==
  ASSUME Inv, NEW a \in Admins, Abandon(a)
  PROVE  Inv'
<1>1. /\ UNCHANGED <<history, stored, cmd, now, status>> /\ cmd[a].pc = "idle" /\ Collecting = {}
      /\ candidate' = [candidate EXCEPT ![a] = {}]
  BY DEF Abandon, MayStart, At
<1>2. candidate'[a] = {} /\ candidate' = [candidate EXCEPT ![a] = candidate'[a]]
      /\ cmd' = [cmd EXCEPT ![a] = cmd'[a]] /\ cmd'[a] = cmd[a]
  BY <1>1 DEF Inv, Shapes
<1>3. CandidateOK(a)'
  BY <1>2 DEF CandidateOK
<1>4. CmdOK(a)' /\ Backed(a)'
  BY <1>1, <1>2, CmdFrame DEF Inv
<1>5. GcOK(a)'
  BY <1>1, <1>2 DEF GcOK, GcPCs
<1>6. \A b \in Admins \ {a} : cmd[b].pc \notin GcPCs
  BY <1>1, NoOtherCollects
<1> QED
  BY <1>1, <1>2, <1>3, <1>4, <1>5, <1>6, AdminFrame

----------------------------------------------------------------------------
(* The steps of publish *)

LEMMA PublishBeginInv ==
  ASSUME Inv, NEW a \in Admins, PublishBegin(a)
  PROVE  Inv'
<1>1. UNCHANGED <<history, stored, candidate, now, status>> /\ Collecting = {}
  BY DEF PublishBegin, MayStart
<1>2. PICK c \in candidate[a] :
        /\ c.previous = Current
        /\ Step(a, [Idle EXCEPT !.pc = "put", !.base = Current, !.slots = c.slots])
  BY DEF PublishBegin
<1>3. cmd'[a] = [Idle EXCEPT !.pc = "put", !.base = Current, !.slots = c.slots]
      /\ cmd' = [cmd EXCEPT ![a] = cmd'[a]]
  BY <1>2, StepOf
<1>4. cmd'[a] = [pc |-> "put", base |-> Current, slots |-> c.slots, want |-> {}, meta |-> {}]
  BY <1>3 DEF Idle
<1>5. IsCmd(cmd[a])' /\ cmd'[a].pc = "put" /\ cmd'[a].base = Current /\ cmd'[a].slots = c.slots
  BY <1>4 DEF IsCmd
<1>6. Current' = Current /\ Current \in Nat
  BY <1>1, Ranges DEF Current
<1>7. Succeeds(Current, c.slots) /\ live_keys(c.slots) \subseteq stored
  BY <1>2 DEF Inv, CandidateOK
<1>8. Succeeds(cmd[a].base, cmd[a].slots)'
  BY <1>1, <1>5, <1>7, SucceedsFrame
<1>9. "put" \in PCs /\ "put" \notin GcPCs
  BY DEF PCs, GcPCs
<1>10. CmdOK(a)'
  BY <1>5, <1>6, <1>8, <1>9 DEF CmdOK, IsCmd
<1>11. Backed(a)'
  BY <1>1, <1>5, <1>7 DEF Backed
<1>12. GcOK(a)'
  BY <1>5, <1>9, NotCollecting
<1> QED
  BY <1>1, <1>3, <1>10, <1>11, <1>12, CmdStep

\* One more master, which succeeds the current one.
Published(slots) ==
  /\ history' = Append(history, [previous |-> Current, slots |-> slots])
  /\ now' = now

LEMMA AppendedMaster ==
  ASSUME HistoryOK, NEW slots, Published(slots)
  PROVE  /\ \E S : history' \in Seq(S)
         /\ Current \in Nat /\ Current' = Current + 1
         /\ history'[Current + 1].slots = slots /\ history'[Current + 1].previous = Current
         /\ \A m \in 1 .. Current : history'[m] = history[m]
<1> DEFINE r == [previous |-> Current, slots |-> slots]
<1>1. PICK S : history \in Seq(S)
  BY DEF HistoryOK
<1>2. history \in Seq(S \cup {r}) /\ r \in S \cup {r}
  BY <1>1
<1>3. history' \in Seq(S \cup {r}) /\ Current \in Nat /\ Current' = Current + 1
  BY <1>2 DEF Published, Current
<1>4. history'[Current + 1] = r
  BY <1>2 DEF Published, Current
<1>5. \A m \in 1 .. Current : history'[m] = history[m]
  BY <1>2 DEF Published, Current
<1> QED
  BY <1>3, <1>4, <1>5

LEMMA SucceedsAppend ==
  ASSUME HistoryOK, NEW slots, Published(slots)
  PROVE  \A b, new : Succeeds(b, new) => Succeeds(b, new)' /\ b # Current'
<1>1. /\ Current \in Nat /\ Current' = Current + 1
      /\ \A m \in 1 .. Current : history'[m] = history[m]
  BY AppendedMaster
<1>2. SUFFICES ASSUME NEW b, NEW new, Succeeds(b, new)
               PROVE  Succeeds(b, new)' /\ b # Current'
  OBVIOUS
<1>3. b \in 0 .. Current /\ b # Current' /\ b \in 0 .. Current'
  BY <1>1, <1>2 DEF Succeeds
<1>4. Base(b)' = Base(b)
  BY <1>1, <1>3 DEF Base, SlotsOf
<1>5. Listed(new, b + 1)' /\ Extends(Base(b), new)'
  BY <1>2, <1>4 DEF Succeeds, Listed, IsSlot, IsCurrent, Extends, Expired, Published
<1> QED
  BY <1>3, <1>5 DEF Succeeds

\* The chain of masters: a serial of the new one means what it has always
\* meant, or is above every serial used before.
LEMMA HistoryAppend ==
  ASSUME HistoryOK, NEW slots, Succeeds(Current, slots), Published(slots)
  PROVE  HistoryOK'
<1> DEFINE n == Current + 1
<1>1. /\ \E S : history' \in Seq(S)
      /\ Current \in Nat /\ Current' = n
      /\ history'[n].slots = slots /\ history'[n].previous = Current
      /\ \A m \in 1 .. Current : history'[m] = history[m]
  BY AppendedMaster
<1>2. \A m \in 1 .. Current : SlotsOf(m)' = SlotsOf(m) /\ m # n
  BY <1>1 DEF SlotsOf
<1>3. \A m : m = n => SlotsOf(m)' = slots
  BY <1>1 DEF SlotsOf
<1>4. \A m \in 1 .. Current' : m \in 1 .. Current \/ m = n
  BY <1>1
<1>5. now' = now
  BY DEF Published
<1>6. /\ Listed(slots, n)
      /\ Current # 0 => Extends(SlotsOf(Current), slots)
  BY DEF Succeeds, Base
<1>7. \A m \in 1 .. Current' : Listed(SlotsOf(m), m)'
  <2> SUFFICES ASSUME NEW m \in 1 .. Current' PROVE Listed(SlotsOf(m), m)'
    OBVIOUS
  <2>1. CASE m \in 1 .. Current
    <3>1. Listed(SlotsOf(m), m)
      BY <2>1 DEF HistoryOK
    <3> QED
      BY <1>2, <1>5, <2>1, <3>1 DEF Listed, IsSlot, IsCurrent
  <2>2. CASE m = n
    BY <1>3, <1>5, <1>6, <2>2 DEF Listed, IsSlot, IsCurrent
  <2> QED
    BY <1>4, <2>1, <2>2
<1>8. \A m \in 1 .. Current : /\ DOMAIN SlotsOf(m) \subseteq Int
                              /\ \A s \in DOMAIN SlotsOf(m) : \E t \in DOMAIN SlotsOf(Current) : s <= t
  BY DEF HistoryOK, Listed, SerialsGrow
<1>9. DOMAIN slots \subseteq Int
  BY <1>6 DEF Listed
<1>10. SerialsGrow'
  <2> SUFFICES ASSUME NEW m \in 1 .. Current', NEW s \in DOMAIN SlotsOf(m)'
               PROVE  \E t \in DOMAIN slots : s <= t
    BY <1>1, <1>3 DEF SerialsGrow
  <2>1. CASE m = n
    BY <1>3, <1>9, <2>1
  <2>2. CASE m \in 1 .. Current
    <3>1. PICK t \in DOMAIN SlotsOf(Current) : s <= t
      BY <1>2, <1>8, <2>2
    <3>2. Current # 0 /\ Current \in 1 .. Current
      BY <1>1, <2>2
    <3>3. PICK u \in DOMAIN slots : t <= u
      BY <1>6, <3>2 DEF Extends
    <3>4. s \in Int /\ t \in Int /\ u \in Int
      BY <1>2, <1>8, <1>9, <2>2, <3>2
    <3>5. s <= u
      BY <3>1, <3>3, <3>4
    <3> QED
      BY <3>5
  <2> QED
    BY <1>4, <2>1, <2>2
<1>11. \A m \in 1 .. Current : \A s \in DOMAIN SlotsOf(m) \cap DOMAIN slots :
         SlotsOf(m)[s].contents = slots[s].contents
  <2> SUFFICES ASSUME NEW m \in 1 .. Current, NEW s \in DOMAIN SlotsOf(m) \cap DOMAIN slots
               PROVE  SlotsOf(m)[s].contents = slots[s].contents
    OBVIOUS
  <2>1. Current # 0 /\ Current \in 1 .. Current
    BY <1>1
  <2>2. s \in DOMAIN SlotsOf(Current)
    <3>1. PICK t \in DOMAIN SlotsOf(Current) : s <= t
      BY <1>8
    <3>2. s \in Int /\ t \in Int
      BY <1>8, <2>1
    <3>3. ~ (t < s)
      BY <3>1, <3>2
    <3> QED
      BY <1>6, <2>1, <3>3 DEF Extends
  <2>3. SlotsOf(Current)[s].contents = slots[s].contents
    BY <1>6, <2>1, <2>2 DEF Extends
  <2>4. SlotsOf(m)[s].contents = SlotsOf(Current)[s].contents
    BY <2>1, <2>2 DEF HistoryOK, HistoryLinear
  <2> QED
    BY <2>3, <2>4
<1>12. HistoryLinear'
  <2>1. \A m \in 1 .. Current' : history'[m].previous = m - 1
    BY <1>1, <1>4 DEF HistoryOK, HistoryLinear
  <2>2. \A k, m \in 1 .. Current' : \A s \in DOMAIN SlotsOf(k)' \cap DOMAIN SlotsOf(m)' :
          SlotsOf(k)'[s].contents = SlotsOf(m)'[s].contents
    <3>1. \A k, m \in 1 .. Current : \A s \in DOMAIN SlotsOf(k) \cap DOMAIN SlotsOf(m) :
            SlotsOf(k)[s].contents = SlotsOf(m)[s].contents
      BY DEF HistoryOK, HistoryLinear
    <3> QED
      BY <1>2, <1>3, <1>4, <1>11, <3>1
  <2> QED
    BY <2>1, <2>2 DEF HistoryLinear
<1>13. SlotsKept'
  <2> SUFFICES ASSUME NEW m \in 1 .. Current', NEW s \in DOMAIN SlotsOf(m)', s \notin DOMAIN slots
               PROVE  \E k \in m .. Current' : s \in DOMAIN SlotsOf(k)' /\ Expired(SlotsOf(k)[s], now)'
    BY <1>1, <1>3 DEF SlotsKept
  <2>1. m \in 1 .. Current /\ s \in DOMAIN SlotsOf(m)
    BY <1>2, <1>3, <1>4
  <2>2. Current # 0 /\ Current \in 1 .. Current
    BY <1>1, <2>1
  <2>3. PICK k \in m .. Current : s \in DOMAIN SlotsOf(k) /\ Expired(SlotsOf(k)[s], now)
    <3>1. CASE s \in DOMAIN SlotsOf(Current)
      <4>1. Expired(SlotsOf(Current)[s], now)
        BY <1>6, <2>2, <3>1 DEF Extends
      <4>2. Current \in m .. Current
        BY <1>1, <2>1
      <4> QED
        BY <3>1, <4>1, <4>2
    <3>2. CASE s \notin DOMAIN SlotsOf(Current)
      BY <2>1, <3>2 DEF HistoryOK, SlotsKept
    <3> QED
      BY <3>1, <3>2
  <2>4. k \in 1 .. Current /\ k \in m .. Current'
    BY <1>1, <2>1
  <2>5. SlotsOf(k)' = SlotsOf(k)
    BY <1>2, <2>4
  <2>6. Expired(SlotsOf(k)[s], now)'
    BY <1>5, <2>3, <2>5 DEF Expired, IsCurrent
  <2> QED
    BY <2>3, <2>4, <2>5, <2>6
<1>14. now' \in 0 .. MaxTime
  BY <1>5 DEF HistoryOK
<1> QED
  BY <1>1, <1>7, <1>10, <1>12, <1>13, <1>14 DEF HistoryOK

\* A put that loses the race changes nothing; one that wins makes every other
\* plan and candidate a plan for a master of the past.
LEMMA PutMasterInv ==
  ASSUME Inv, NEW a \in Admins, put_master(a)
  PROVE  Inv'
<1> DEFINE slots == cmd[a].slots
<1>1. /\ UNCHANGED <<stored, candidate, now, status>> /\ cmd[a].pc = "put" /\ Step(a, Idle)
      /\ history' = IF Current = cmd[a].base
                    THEN Append(history, [previous |-> cmd[a].base, slots |-> slots])
                    ELSE history
  BY DEF put_master, At
<1>2. CASE Current # cmd[a].base
  <2>1. history' = history
    BY <1>1, <1>2
  <2> QED
    BY <1>1, <2>1, IdleStep
<1>3. CASE Current = cmd[a].base
  <2>1. Published(slots)
    BY <1>1, <1>3 DEF Published
  <2>2. Succeeds(Current, slots) /\ live_keys(slots) \subseteq stored
    BY <1>1, <1>3 DEF Inv, CmdOK, Backed, WorkPCs
  <2>3. HistoryOK' /\ HistoryOK
    BY <2>1, <2>2, HistoryAppend DEF Inv
  <2>4. /\ Current \in Nat /\ Current' = Current + 1
        /\ history'[Current + 1].slots = slots
    BY <2>1, <2>3, AppendedMaster
  <2>5. cmd'[a] = Idle /\ cmd' = [cmd EXCEPT ![a] = cmd'[a]]
    BY <1>1, StepOf
  <2>6. Shapes'
    BY <1>1, <2>5 DEF Inv, Shapes
  <2>7. \A b \in Admins \ {a} : cmd[b].pc \notin GcPCs /\ cmd'[b] = cmd[b]
    BY <1>1, <2>5, NoOtherCollects DEF Inv, Shapes
  <2>8. ASSUME NEW b \in Admins
        PROVE  CmdOK(b)' /\ Backed(b)' /\ GcOK(b)'
    <3>1. CASE b = a
      BY <2>4, <2>5, <3>1, IdleOK
    <3>2. CASE b # a
      <4>1. cmd'[b] = cmd[b] /\ cmd[b].base \in 0 .. Current'
        BY <2>4, <2>7, <3>2, Ranges
      <4>2. cmd[b].pc \in WorkPCs => Succeeds(cmd[b].base, cmd[b].slots)
        BY DEF Inv, CmdOK
      <4>3. cmd[b].pc \in WorkPCs => Succeeds(cmd[b].base, cmd[b].slots)'
        BY <2>1, <2>3, <4>1, <4>2, SucceedsAppend
      <4>4. CmdOK(b)'
        BY <4>1, <4>3 DEF Inv, CmdOK, PCs, WorkPCs, Idle
      <4>5. Backed(b)'
        <5>1. cmd[b].base # Current'
          BY <2>4, Ranges
        <5> QED
          BY <4>1, <5>1 DEF Backed
      <4>6. GcOK(b)'
        BY <2>7, <3>2, NotCollecting
      <4> QED
        BY <4>4, <4>5, <4>6
    <3> QED
      BY <3>1, <3>2
  <2>9. ASSUME NEW b \in Admins
        PROVE  CandidateOK(b)'
    <3> SUFFICES ASSUME NEW c \in candidate'[b]
                 PROVE  Succeeds(c.previous, c.slots)' /\ c.previous # Current'
      BY DEF CandidateOK
    <3>1. Succeeds(c.previous, c.slots)
      BY <1>1 DEF Inv, CandidateOK
    <3> QED
      BY <2>1, <2>3, <3>1, SucceedsAppend
  <2>10. LiveStored'
    BY <1>1, <2>2, <2>4 DEF LiveStored, SlotsOf
  <2>11. StatusOK'
    BY <1>1, <2>4 DEF Inv, StatusOK
  <2> QED
    BY <2>3, <2>6, <2>8, <2>9, <2>10, <2>11 DEF Inv
<1> QED
  BY <1>2, <1>3

----------------------------------------------------------------------------
(* The steps of gc *)

\* What a collection knows when it moves on.
GcKnows(p, base, want) ==
  /\ p \in {"gc metadata", "gc check", "gc delete"}
  /\ p # "gc metadata" => base # 0 /\ want \cap live_keys(SlotsOf(base)) = {}
  /\ p = "gc delete" => base = Current

LEMMA GcStep ==
  ASSUME Inv, NEW a \in Admins, UNCHANGED <<history, stored, candidate, now, status>>,
         NEW p, NEW want, GcKnows(p, cmd[a].base, want),
         Step(a, [cmd[a] EXCEPT !.pc = p, !.want = want]),
         \A b \in Admins \ {a} : cmd[b].pc = "idle", ~ Pending,
         cmd[a].pc = "idle" => Collecting = {}
  PROVE  Inv'
<1>1. cmd'[a] = [cmd[a] EXCEPT !.pc = p, !.want = want] /\ cmd' = [cmd EXCEPT ![a] = cmd'[a]]
  BY StepOf
<1>2. cmd'[a] = [pc |-> p, base |-> cmd[a].base, slots |-> cmd[a].slots, want |-> want,
                 meta |-> cmd[a].meta]
  BY <1>1 DEF Inv, CmdOK
<1>3. IsCmd(cmd[a])' /\ cmd'[a].pc = p /\ cmd'[a].base = cmd[a].base /\ cmd'[a].want = want
  BY <1>2, CmdFields
<1>4. Current' = Current /\ Current \in Nat /\ cmd[a].base \in 0 .. Current
  BY Ranges DEF Current
<1>5. /\ p \in PCs /\ p # "idle" /\ p \notin WorkPCs
      /\ p \notin {"gc list", "list", "upload", "write", "put"}
      /\ (p \in {"gc check", "gc delete"} => p # "gc metadata")
  BY DEF PCs, WorkPCs, GcKnows
<1>6. CmdOK(a)'
  BY <1>3, <1>4, <1>5 DEF CmdOK, IsCmd, GcKnows
<1>7. Backed(a)'
  BY <1>3, <1>5 DEF Backed
<1>8. ~ Pending'
  BY DEF Pending, Current
<1>9. \A b \in Admins \ {a} : cmd'[b].pc = "idle"
  BY <1>1 DEF Inv, Shapes
<1>10. SlotsOf(cmd[a].base)' = SlotsOf(cmd[a].base)
  BY <1>3 DEF SlotsOf
<1>11. GcOK(a)'
  BY <1>3, <1>4, <1>5, <1>8, <1>9, <1>10 DEF GcOK, GcKnows
<1> QED
  BY <1>1, <1>6, <1>7, <1>11, CmdStep

LEMMA GcBeginInv ==
  ASSUME Inv, NEW a \in Admins, GcBegin(a)
  PROVE  Inv'
<1>1. /\ UNCHANGED <<history, stored, candidate, now, status>> /\ ~ Pending
      /\ \A b \in Admins : cmd[b].pc = "idle"
      /\ Step(a, [cmd[a] EXCEPT !.pc = "gc metadata"])
  BY DEF GcBegin, At, Goto
<1>2. Collecting = {}
  BY <1>1 DEF Collecting
<1>3. [cmd[a] EXCEPT !.pc = "gc metadata"] = [cmd[a] EXCEPT !.pc = "gc metadata", !.want = cmd[a].want]
  BY DEF Inv, CmdOK
<1>4. GcKnows("gc metadata", cmd[a].base, cmd[a].want)
  BY DEF GcKnows
<1> QED
  BY <1>1, <1>2, <1>3, <1>4, GcStep

LEMMA GcAlone ==
  ASSUME Inv, NEW a \in Admins, cmd[a].pc \in GcPCs
  PROVE  cmd[a].pc # "idle" /\ ~ Pending /\ \A b \in Admins \ {a} : cmd[b].pc = "idle"
BY DEF Inv, GcOK, GcPCs

LEMMA GcListInv ==
  ASSUME Inv, NEW a \in Admins, GcList(a)
  PROVE  Inv'
<1> DEFINE live == live_keys(SlotsOf(cmd[a].base))
<1>1. /\ UNCHANGED <<history, stored, candidate, now, status>> /\ cmd[a].pc = "gc list"
      /\ Step(a, IF live \subseteq stored
                 THEN [cmd[a] EXCEPT !.pc = "gc check", !.want = stored \ live] ELSE Idle)
  BY DEF GcList, At
<1>2. cmd[a].pc # "idle" /\ ~ Pending /\ \A b \in Admins \ {a} : cmd[b].pc = "idle"
  BY <1>1, GcAlone DEF GcPCs
<1>3. cmd[a].base # 0
  BY <1>1 DEF Inv, CmdOK
<1>4. CASE live \subseteq stored
  <2> DEFINE dead == stored \ live
  <2>1. Step(a, [cmd[a] EXCEPT !.pc = "gc check", !.want = dead]) /\ dead \cap live = {}
    BY <1>1, <1>4
  <2> HIDE DEF dead
  <2>2. GcKnows("gc check", cmd[a].base, dead)
    BY <1>3, <2>1 DEF GcKnows
  <2> QED
    BY <1>1, <1>2, <1>3, <2>1, <2>2, GcStep
<1>5. CASE ~ (live \subseteq stored)
  BY <1>1, <1>2, <1>5, IdleStep
<1> QED
  BY <1>4, <1>5

LEMMA GcCheckInv ==
  ASSUME Inv, NEW a \in Admins, GcCheck(a)
  PROVE  Inv'
<1>1. /\ UNCHANGED <<history, stored, candidate, now, status>> /\ cmd[a].pc = "gc check"
      /\ Step(a, IF Current = cmd[a].base /\ cmd[a].want # {}
                 THEN [cmd[a] EXCEPT !.pc = "gc delete"] ELSE Idle)
  BY DEF GcCheck, At
<1>2. cmd[a].pc # "idle" /\ ~ Pending /\ \A b \in Admins \ {a} : cmd[b].pc = "idle"
  BY <1>1, GcAlone DEF GcPCs
<1>3. cmd[a].base # 0 /\ cmd[a].want \cap live_keys(SlotsOf(cmd[a].base)) = {}
  BY <1>1 DEF Inv, CmdOK, GcOK, GcPCs
<1>4. CASE Current = cmd[a].base /\ cmd[a].want # {}
  <2>1. [cmd[a] EXCEPT !.pc = "gc delete"] = [cmd[a] EXCEPT !.pc = "gc delete", !.want = cmd[a].want]
    BY DEF Inv, CmdOK
  <2>2. Step(a, [cmd[a] EXCEPT !.pc = "gc delete", !.want = cmd[a].want])
    BY <1>1, <1>4, <2>1
  <2>3. GcKnows("gc delete", cmd[a].base, cmd[a].want)
    BY <1>3, <1>4 DEF GcKnows
  <2> QED
    BY <1>1, <1>2, <1>3, <1>4, <2>2, <2>3, GcStep
<1>5. CASE ~ (Current = cmd[a].base /\ cmd[a].want # {})
  BY <1>1, <1>2, <1>5, IdleStep
<1> QED
  BY <1>4, <1>5

\* A deletion happens when nobody else is at work, there is no candidate for
\* the current master, and the keys are not that master's.
LEMMA GcDeleteInv ==
  ASSUME Inv, NEW a \in Admins, GcDelete(a)
  PROVE  Inv'
<1>1. /\ UNCHANGED <<history, candidate, now, status>> /\ cmd[a].pc = "gc delete"
      /\ Step(a, Idle)
  BY DEF GcDelete, At
<1>2. PICK deleted \in SUBSET cmd[a].want : stored' = stored \ deleted
  BY DEF GcDelete
<1>3. ~ Pending /\ \A b \in Admins \ {a} : cmd[b].pc = "idle"
  BY <1>1, GcAlone DEF GcPCs
<1>4. cmd[a].base = Current /\ cmd[a].base # 0
      /\ cmd[a].want \cap live_keys(SlotsOf(cmd[a].base)) = {}
  BY <1>1 DEF Inv, CmdOK, GcOK, GcPCs
<1>5. cmd'[a] = Idle /\ cmd' = [cmd EXCEPT ![a] = cmd'[a]]
  BY <1>1, StepOf
<1>6. HistoryOK' /\ Shapes'
  BY <1>1, <1>5, HistoryFrame DEF Inv, Shapes
<1>7. Current' = Current /\ Current \in Nat
  BY <1>1, Ranges DEF Current
<1>8. ASSUME NEW b \in Admins
      PROVE  CmdOK(b)' /\ Backed(b)' /\ GcOK(b)'
  <2>1. cmd'[b] = Idle
    BY <1>3, <1>5 DEF Inv, Shapes, CmdOK
  <2> QED
    BY <1>7, <2>1, IdleOK
<1>9. ASSUME NEW b \in Admins
      PROVE  CandidateOK(b)'
  <2> SUFFICES ASSUME NEW c \in candidate'[b]
               PROVE  Succeeds(c.previous, c.slots)' /\ c.previous # Current'
    BY DEF CandidateOK
  <2>1. Succeeds(c.previous, c.slots)
    BY <1>1 DEF Inv, CandidateOK
  <2>2. c.previous # Current
    BY <1>1, <1>3 DEF Pending
  <2> QED
    BY <1>1, <1>7, <2>1, <2>2, SucceedsFrame
<1>10. LiveStored'
  <2>1. live_keys(SlotsOf(Current)) \subseteq stored /\ cmd[a].want \cap live_keys(SlotsOf(Current)) = {}
    BY <1>4 DEF Inv, LiveStored
  <2>2. SlotsOf(Current)' = SlotsOf(Current)
    BY <1>1 DEF SlotsOf, Current
  <2> QED
    BY <1>2, <2>1, <2>2 DEF LiveStored
<1>11. StatusOK'
  BY <1>1, <1>7 DEF Inv, StatusOK
<1> QED
  BY <1>6, <1>8, <1>9, <1>10, <1>11 DEF Inv

----------------------------------------------------------------------------
(* The steps of status, and the clock *)

LEMMA StatusFrame ==
  ASSUME Inv, UNCHANGED <<history, stored, candidate, cmd, now>>, StatusOK'
  PROVE  Inv'
<1>1. HistoryOK' /\ Shapes' /\ LiveStored'
  BY HistoryFrame DEF Inv, Shapes, LiveStored, SlotsOf, Current
<1>2. ASSUME NEW a \in Admins
      PROVE  CmdOK(a)' /\ Backed(a)' /\ CandidateOK(a)' /\ GcOK(a)'
  <2>1. CmdOK(a)' /\ Backed(a)' /\ CandidateOK(a)'
    BY CmdFrame, CandidateFrame DEF Inv
  <2>2. GcOK(a) /\ Current' = Current /\ (Pending' <=> Pending)
        /\ SlotsOf(cmd[a].base)' = SlotsOf(cmd[a].base)
    BY DEF Inv, Current, Pending, SlotsOf
  <2>3. GcOK(a)'
    BY <2>2 DEF GcOK, GcPCs
  <2> QED
    BY <2>1, <2>3
<1> QED
  BY <1>1, <1>2 DEF Inv

IsStatus(r) ==
  r = [pc |-> r.pc, attempt |-> r.attempt, base |-> r.base, missing |-> r.missing,
       incomplete |-> r.incomplete]

LEMMA SetIncomplete ==
  ASSUME NEW r, NEW x, NEW y, IsStatus(r)
  PROVE  [r EXCEPT !.incomplete = x]
           = [pc |-> r.pc, attempt |-> r.attempt, base |-> r.base, missing |-> r.missing, incomplete |-> x]
BY DEF IsStatus

LEMMA SetStatusPc ==
  ASSUME NEW r, NEW x, NEW y, IsStatus(r)
  PROVE  [r EXCEPT !.pc = x]
           = [pc |-> x, attempt |-> r.attempt, base |-> r.base, missing |-> r.missing, incomplete |-> r.incomplete]
BY DEF IsStatus

LEMMA StatusFields ==
  ASSUME NEW p, NEW n, NEW b, NEW m, NEW i, NEW r,
         r = [pc |-> p, attempt |-> n, base |-> b, missing |-> m, incomplete |-> i]
  PROVE  IsStatus(r) /\ r.pc = p /\ r.attempt = n /\ r.base = b /\ r.missing = m /\ r.incomplete = i
BY DEF IsStatus

LEMMA IdleStatus ==
  /\ IsStatus(StatusIdle) /\ StatusIdle.pc = "idle" /\ StatusIdle.attempt = 0
  /\ StatusIdle.base = 0 /\ StatusIdle.missing = {} /\ StatusIdle.incomplete = FALSE
<1>1. PICK f : f = FALSE
  OBVIOUS
<1>2. PICK r : r = [pc |-> "idle", attempt |-> 0, base |-> 0, missing |-> {}, incomplete |-> f]
  OBVIOUS
<1>3. StatusIdle = r
  BY <1>1, <1>2 DEF StatusIdle
<1>4. IsStatus(r) /\ r.pc = "idle" /\ r.attempt = 0 /\ r.base = 0 /\ r.missing = {}
      /\ r.incomplete = f
  BY <1>2, StatusFields
<1> QED
  BY <1>1, <1>3, <1>4

\* An attempt that starts, or the report of one that ends with nothing missing.
LEMMA RestartOK ==
  ASSUME Current' \in Nat,
         \/ status' = [StatusIdle EXCEPT !.pc = "master"]
         \/ status' = [StatusIdle EXCEPT !.pc = "master", !.attempt = 1]
         \/ status' = [StatusIdle EXCEPT !.incomplete = FALSE]
  PROVE  StatusOK'
<1>1. PICK p, n, i :
        /\ p \in {"idle", "master"} /\ i = FALSE
        /\ status' = [pc |-> p, attempt |-> n, base |-> StatusIdle.base, missing |-> StatusIdle.missing,
                      incomplete |-> i]
  <2>1. CASE status' = [StatusIdle EXCEPT !.pc = "master"]
    <3>1. status' = [pc |-> "master", attempt |-> StatusIdle.attempt, base |-> StatusIdle.base,
                     missing |-> StatusIdle.missing, incomplete |-> StatusIdle.incomplete]
      BY <2>1, IdleStatus, SetStatusPc, Zenon
    <3> QED
      BY <3>1, IdleStatus, Zenon
  <2>2. CASE status' = [StatusIdle EXCEPT !.pc = "master", !.attempt = 1]
    <3>1. status' = [pc |-> "master", attempt |-> 1, base |-> StatusIdle.base,
                     missing |-> StatusIdle.missing, incomplete |-> StatusIdle.incomplete]
      <4>1. PICK r, q : r = StatusIdle /\ q = status' /\ q = [r EXCEPT !.pc = "master", !.attempt = 1]
        BY <2>2
      <4>2. IsStatus(r)
        BY <4>1, IdleStatus
      <4>3. q = [pc |-> "master", attempt |-> 1, base |-> r.base, missing |-> r.missing,
                 incomplete |-> r.incomplete]
        BY <4>1, <4>2 DEF IsStatus
      <4> QED
        BY <4>1, <4>3
    <3> QED
      BY <3>1, IdleStatus, Zenon
  <2>3. CASE status' = [StatusIdle EXCEPT !.incomplete = FALSE]
    <3>1. status' = [pc |-> StatusIdle.pc, attempt |-> StatusIdle.attempt, base |-> StatusIdle.base,
                     missing |-> StatusIdle.missing, incomplete |-> FALSE]
      BY <2>3, IdleStatus, SetIncomplete, Zenon
    <3> QED
      BY <3>1, IdleStatus, Zenon
  <2> QED
    BY <2>1, <2>2, <2>3
<1>2. IsStatus(status)' /\ status'.pc = p /\ status'.base = 0 /\ status'.incomplete = FALSE
  BY <1>1, IdleStatus DEF IsStatus
<1>3. p \in {"idle", "master", "absent", "metadata", "list", "confirm"} /\ p \notin {"list", "confirm"}
  BY <1>1
<1> QED
  BY <1>2, <1>3 DEF StatusOK, IsStatus

LEMMA StatusRestarts ==
  ASSUME Inv, StatusEnd({}) \/ Retry \/ StatusStep([StatusIdle EXCEPT !.pc = "master"])
  PROVE  Inv'
<1>1. ({} # {}) = FALSE
  OBVIOUS
<1>2. StatusEnd({}) => StatusStep([StatusIdle EXCEPT !.incomplete = FALSE])
  BY <1>1, Zenon DEF StatusEnd
<1>3. \/ StatusStep([StatusIdle EXCEPT !.pc = "master"])
      \/ StatusStep([StatusIdle EXCEPT !.pc = "master", !.attempt = 1])
      \/ StatusStep([StatusIdle EXCEPT !.incomplete = FALSE])
  BY <1>2, Zenon DEF Retry
<1>4. UNCHANGED <<history, stored, candidate, cmd, now>>
  BY <1>3 DEF StatusStep
<1>5. \/ status' = [StatusIdle EXCEPT !.pc = "master"]
      \/ status' = [StatusIdle EXCEPT !.pc = "master", !.attempt = 1]
      \/ status' = [StatusIdle EXCEPT !.incomplete = FALSE]
  BY <1>3, Zenon DEF StatusStep
<1>6. Current' \in Nat
  BY <1>4, Ranges DEF Current
<1> QED
  BY <1>4, <1>5, <1>6, RestartOK, StatusFrame

LEMMA StatusMasterInv ==
  ASSUME Inv, StatusMaster
  PROVE  Inv'
<1>1. PICK p \in {"absent", "metadata"} : StatusStep([status EXCEPT !.pc = p, !.base = Current])
  BY DEF StatusMaster
<1>2. status' = [pc |-> p, attempt |-> status.attempt, base |-> Current, missing |-> status.missing,
                 incomplete |-> status.incomplete]
  BY <1>1 DEF Inv, StatusOK, StatusStep
<1>3. UNCHANGED <<history, stored, candidate, cmd, now>> /\ Current' = Current /\ Current \in Nat
  BY <1>1, Ranges DEF StatusStep, Current
<1>4. StatusOK'
  BY <1>2, <1>3 DEF Inv, StatusOK
<1> QED
  BY <1>3, <1>4, StatusFrame

LEMMA StatusMetadataInv ==
  ASSUME Inv, StatusMetadata
  PROVE  Inv'
<1>1. PICK m \in Fetchable :
        \/ StatusStep([status EXCEPT !.pc = "list", !.base = m])
        \/ Retry \/ StatusEnd({})
  BY DEF StatusMetadata
<1>2. CASE StatusStep([status EXCEPT !.pc = "list", !.base = m])
  <2>1. status' = [pc |-> "list", attempt |-> status.attempt, base |-> m, missing |-> status.missing,
                   incomplete |-> status.incomplete]
    BY <1>2 DEF Inv, StatusOK, StatusStep
  <2>2. UNCHANGED <<history, stored, candidate, cmd, now>> /\ Current' = Current /\ Current \in Nat
    BY <1>2, Ranges DEF StatusStep, Current
  <2>3. m \in 1 .. Current
    BY <2>2, FetchableRange
  <2>4. StatusOK'
    BY <2>1, <2>2, <2>3 DEF Inv, StatusOK
  <2> QED
    BY <2>2, <2>4, StatusFrame
<1> QED
  BY <1>1, <1>2, StatusRestarts

\* The listing of the bucket is taken against a master that may be of the past;
\* only if it is the current one must it be complete.
LEMMA StatusListInv ==
  ASSUME Inv, StatusList
  PROVE  Inv'
<1> DEFINE missing == live_keys(SlotsOf(status.base)) \ stored
<1>1. status.pc = "list" /\ StatusStep([status EXCEPT !.pc = "confirm", !.missing = missing])
  BY DEF StatusList
<1>2. status.base = Current => missing = {}
  BY <1>1 DEF Inv, StatusOK, LiveStored
<1> HIDE DEF missing
<1>3. status' = [pc |-> "confirm", attempt |-> status.attempt, base |-> status.base,
                 missing |-> missing, incomplete |-> status.incomplete]
  BY <1>1 DEF Inv, StatusOK, StatusStep
<1>4. UNCHANGED <<history, stored, candidate, cmd, now>> /\ Current' = Current /\ Current \in Nat
  BY <1>1, Ranges DEF StatusStep, Current
<1>5. StatusOK'
  BY <1>2, <1>3, <1>4 DEF Inv, StatusOK
<1> QED
  BY <1>4, <1>5, StatusFrame

LEMMA StatusConfirmInv ==
  ASSUME Inv, StatusConfirm
  PROVE  Inv'
<1>1. CASE Current = status.base
  <2>1. StatusEnd(status.missing) /\ status.missing = {}
    BY <1>1 DEF StatusConfirm, Ready, Inv, StatusOK
  <2>2. StatusEnd({})
    BY <2>1 DEF StatusEnd
  <2> QED
    BY <2>2, StatusRestarts
<1>2. CASE Current # status.base
  BY <1>2, StatusRestarts DEF StatusConfirm
<1> QED
  BY <1>1, <1>2

\* Time makes deadlines pass and changes nothing else.
LEMMA ExpiredStays ==
  ASSUME NEW slot, IsSlot(slot), now \in Nat, now' = now + 1
  PROVE  IsSlot(slot)' /\ (Expired(slot, now) => Expired(slot, now'))
<1>1. slot.retain_until \in {NoDeadline} \cup 0 .. now + Retention
  BY DEF IsSlot
<1>2. slot.retain_until \in {NoDeadline} \cup 0 .. now' + Retention
  BY <1>1, BoundsAssumption
<1>3. Expired(slot, now) => Expired(slot, now')
  BY <1>1, BoundsAssumption DEF Expired, IsCurrent
<1> QED
  BY <1>2, <1>3 DEF IsSlot

LEMMA TickInv ==
  ASSUME Inv, Tick
  PROVE  Inv'
<1>1. UNCHANGED <<history, stored, candidate, cmd, status>> /\ now' = now + 1 /\ now < MaxTime
  BY DEF Tick
<1>2. now \in Nat /\ Current' = Current /\ Current \in Nat /\ \A m : SlotsOf(m)' = SlotsOf(m)
  BY <1>1, Ranges DEF SlotsOf, Current
<1>3. \A slots, bound : Listed(slots, bound) => Listed(slots, bound)'
  <2> SUFFICES ASSUME NEW slots, NEW bound, Listed(slots, bound) PROVE Listed(slots, bound)'
    OBVIOUS
  <2>1. \A s \in DOMAIN slots : IsSlot(slots[s])'
    BY <1>1, <1>2, ExpiredStays DEF Listed
  <2> QED
    BY <2>1 DEF Listed, IsCurrent
<1>4. \A m \in 1 .. Current : Listed(SlotsOf(m), m)
  BY DEF Inv, HistoryOK
<1>5. \A m \in 1 .. Current' : Listed(SlotsOf(m), m)'
  <2> SUFFICES ASSUME NEW m \in 1 .. Current' PROVE Listed(SlotsOf(m), m)'
    OBVIOUS
  <2>1. Listed(SlotsOf(m), m)
    BY <1>2, <1>4
  <2> QED
    BY <1>2, <1>3, <2>1
<1>6. \A m \in 1 .. Current : \A s \in DOMAIN SlotsOf(m) :
        Expired(SlotsOf(m)[s], now) => Expired(SlotsOf(m)[s], now')
  BY <1>1, <1>2, <1>4, ExpiredStays DEF Listed
<1>7. \A b, slots : Succeeds(b, slots) => Succeeds(b, slots)'
  <2> SUFFICES ASSUME NEW b, NEW slots, Succeeds(b, slots) PROVE Succeeds(b, slots)'
    OBVIOUS
  <2>1. b \in 0 .. Current /\ Listed(slots, b + 1) /\ Extends(Base(b), slots)
    BY DEF Succeeds
  <2>2. Base(b)' = Base(b)
    BY <1>2 DEF Base
  <2>3. \A s \in DOMAIN Base(b) : Expired(Base(b)[s], now) => Expired(Base(b)[s], now')
    <3>1. CASE b = 0
      BY <3>1 DEF Base
    <3>2. CASE b # 0
      BY <1>2, <1>6, <2>1, <3>2 DEF Base
    <3> QED
      BY <3>1, <3>2
  <2>4. Extends(Base(b), slots)'
    <3>1. \A s \in DOMAIN Base(b) \ DOMAIN slots : Expired(Base(b)[s], now')
      BY <2>1, <2>3 DEF Extends
    <3>2. \A s \in DOMAIN Base(b) \ DOMAIN slots : Expired(Base(b)[s], now)'
      BY <2>2, <3>1 DEF Expired, IsCurrent
    <3> QED
      BY <2>1, <2>2, <3>2 DEF Extends
  <2>5. Listed(slots, b + 1)'
    BY <1>3, <2>1
  <2> QED
    BY <1>2, <2>1, <2>4, <2>5 DEF Succeeds
<1>8. HistoryLinear' /\ SerialsGrow'
  BY <1>1, <1>2 DEF Inv, HistoryOK, HistoryLinear, SerialsGrow
<1>9. SlotsKept'
  <2> SUFFICES ASSUME NEW m \in 1 .. Current', NEW s \in DOMAIN SlotsOf(m)',
                      s \notin DOMAIN SlotsOf(Current)'
               PROVE  \E n \in m .. Current' : s \in DOMAIN SlotsOf(n)' /\ Expired(SlotsOf(n)[s], now)'
    BY DEF SlotsKept
  <2>1. m \in 1 .. Current /\ s \in DOMAIN SlotsOf(m) /\ s \notin DOMAIN SlotsOf(Current)
    BY <1>1, <1>2 DEF SlotsOf
  <2>2. PICK n \in m .. Current : s \in DOMAIN SlotsOf(n) /\ Expired(SlotsOf(n)[s], now)
    BY <2>1 DEF Inv, HistoryOK, SlotsKept
  <2>3. n \in 1 .. Current
    BY <1>2, <2>1
  <2>4. Expired(SlotsOf(n)[s], now')
    BY <1>6, <2>2, <2>3
  <2>5. Expired(SlotsOf(n)[s], now)'
    BY <1>2, <2>4 DEF Expired, IsCurrent
  <2> QED
    BY <1>2, <2>2, <2>5
<1>10. HistoryOK' /\ Shapes' /\ LiveStored' /\ StatusOK'
  <2>1. now' \in 0 .. MaxTime
    BY <1>1, <1>2, BoundsAssumption
  <2>2. HistoryOK'
    BY <1>1, <1>5, <1>8, <1>9, <2>1 DEF Inv, HistoryOK
  <2> QED
    BY <1>1, <1>2, <2>2 DEF Inv, Shapes, LiveStored, StatusOK
<1>11. ASSUME NEW a \in Admins
       PROVE  CmdOK(a)' /\ Backed(a)' /\ CandidateOK(a)' /\ GcOK(a)'
  <2>1. cmd[a].pc \in WorkPCs => Succeeds(cmd[a].base, cmd[a].slots)'
    BY <1>1, <1>7 DEF Inv, CmdOK
  <2>2. CmdOK(a)'
    BY <1>1, <1>2, <2>1 DEF Inv, CmdOK, PCs, WorkPCs, Idle
  <2>3. Backed(a)'
    BY <1>1, <1>2 DEF Inv, Backed
  <2>4. CandidateOK(a)'
    BY <1>1, <1>2, <1>7 DEF Inv, CandidateOK
  <2>5. GcOK(a) /\ (Pending' <=> Pending) /\ SlotsOf(cmd[a].base)' = SlotsOf(cmd[a].base)
    BY <1>1, <1>2 DEF Inv, Pending, SlotsOf
  <2>6. GcOK(a)'
    BY <1>1, <1>2, <2>5 DEF GcOK, GcPCs
  <2> QED
    BY <2>2, <2>3, <2>4, <2>6
<1> QED
  BY <1>10, <1>11 DEF Inv

----------------------------------------------------------------------------
(* The theorems *)

LEMMA InvNext == Inv /\ [Next]_vars => Inv'
<1> SUFFICES ASSUME Inv, [Next]_vars PROVE Inv'
  OBVIOUS
<1>1. ASSUME NEW a \in Admins,
             \/ PrepareBegin(a) \/ PrepareMetadata(a) \/ PreparePlan(a) \/ PrepareList(a)
             \/ PrepareUpload(a) \/ PrepareWrite(a) \/ Abandon(a)
      PROVE  Inv'
  <2>1. CASE PrepareMetadata(a)
    BY <2>1, MetadataStep DEF PrepareMetadata, At, MetadataThen
  <2> QED
    BY <1>1, <2>1, PrepareBeginInv, PreparePlanInv, PrepareListInv, PrepareUploadInv,
       PrepareWriteInv, AbandonInv
<1>2. ASSUME NEW a \in Admins, PublishBegin(a) \/ put_master(a)
      PROVE  Inv'
  BY <1>2, PublishBeginInv, PutMasterInv
<1>3. ASSUME NEW a \in Admins,
             GcBegin(a) \/ GcMetadata(a) \/ GcList(a) \/ GcCheck(a) \/ GcDelete(a) \/ Interrupt(a)
      PROVE  Inv'
  <2>1. CASE GcMetadata(a)
    BY <2>1, MetadataStep DEF GcMetadata, At, MetadataThen
  <2>2. CASE Interrupt(a)
    BY <2>2, IdleStep DEF Interrupt, At
  <2> QED
    BY <1>3, <2>1, <2>2, GcBeginInv, GcListInv, GcCheckInv, GcDeleteInv
<1>4. CASE StatusBegin \/ StatusMaster \/ StatusAbsent \/ StatusMetadata \/ StatusList \/ StatusConfirm
  <2>1. CASE StatusBegin
    BY <2>1, StatusRestarts DEF StatusBegin
  <2>2. CASE StatusAbsent
    BY <2>2, StatusRestarts DEF StatusAbsent
  <2> QED
    BY <1>4, <2>1, <2>2, StatusMasterInv, StatusMetadataInv, StatusListInv, StatusConfirmInv
<1>5. CASE UNCHANGED vars
  <2>1. UNCHANGED <<history, stored, candidate, cmd, now>> /\ status' = status
    BY <1>5 DEF vars
  <2>2. StatusOK'
    BY <2>1 DEF Inv, StatusOK, Current
  <2> QED
    BY <2>1, <2>2, StatusFrame
<1> QED
  BY <1>1, <1>2, <1>3, <1>4, <1>5, TickInv DEF Next

LEMMA SpecInv == Spec => []Inv
BY InvInit, InvNext, PTL DEF Spec

\* The types of the variables, and that a master has used at most one serial
\* per publication, whatever was interrupted in between.
THEOREM RepositoryTypes == Spec => []TypeOK
<1>1. Inv => TypeOK
  <2> SUFFICES ASSUME Inv PROVE TypeOK
    OBVIOUS
  <2>1. Current \in Nat /\ now \in 0 .. MaxTime
    BY Ranges DEF Inv, HistoryOK
  <2>2. ASSUME NEW m \in 1 .. Current
        PROVE  /\ history[m].previous \in 0 .. Current
               /\ DOMAIN SlotsOf(m) \subseteq 1 .. m
               /\ \A s \in DOMAIN SlotsOf(m) :
                    SlotsOf(m)[s].retain_until \in {NoDeadline} \cup 0 .. now + Retention
    <3>1. history[m].previous = m - 1
      BY DEF Inv, HistoryOK, HistoryLinear
    <3>2. history[m].previous \in 0 .. Current
      BY <2>1, <3>1
    <3>3. Listed(SlotsOf(m), m)
      BY DEF Inv, HistoryOK
    <3> QED
      BY <3>2, <3>3 DEF Listed, IsSlot
  <2>3. \A a \in Admins : cmd[a].pc \in PCs /\ cmd[a].base \in 0 .. Current
    BY DEF Inv, CmdOK
  <2> QED
    BY <2>1, <2>2, <2>3 DEF TypeOK
<1> QED
  BY <1>1, SpecInv, PTL

\* Masters form one chain whoever races whom, and a serial means the same
\* contents in every master ever published.
THEOREM PublicationsLinear == Spec => []HistoryLinear
<1>1. Inv => HistoryLinear
  BY DEF Inv, HistoryOK
<1> QED
  BY <1>1, SpecInv, PTL

\* The bucket holds what the current master refers to and what any older
\* master's unexpired slots refer to, through every race and interruption.
THEOREM ReadersAlwaysServed == Spec => []ReadersServed
<1>1. Inv => ReadersServed
  <2> SUFFICES ASSUME Inv PROVE ReadersServed
    OBVIOUS
  <2>1. Current # 0 => live_keys(SlotsOf(Current)) \subseteq stored
    BY DEF Inv, LiveStored
  <2>2. ASSUME NEW m \in 1 .. Current, NEW s \in CurrentSerials(SlotsOf(m)),
               \A n \in m .. Current : s \in DOMAIN SlotsOf(n) => ~ Expired(SlotsOf(n)[s], now)
        PROVE  SlotKeys(SlotsOf(m)[s].contents) \subseteq stored
    <3>1. s \in DOMAIN SlotsOf(m) /\ Current # 0 /\ Current \in 1 .. Current
      BY Ranges DEF CurrentSerials
    <3>2. s \in DOMAIN SlotsOf(Current)
      BY <2>2, <3>1 DEF Inv, HistoryOK, SlotsKept
    <3>3. SlotsOf(m)[s].contents = SlotsOf(Current)[s].contents
      BY <3>1, <3>2 DEF Inv, HistoryOK, HistoryLinear
    <3>4. SlotKeys(SlotsOf(Current)[s].contents) \subseteq live_keys(SlotsOf(Current))
      BY <3>2, ContentKeysLive
    <3> QED
      BY <2>1, <3>1, <3>3, <3>4
  <2> QED
    BY <2>1, <2>2 DEF ReadersServed, Served
<1> QED
  BY <1>1, SpecInv, PTL

\* Status never reports a repository as ready without its keys.
THEOREM StatusAlwaysComplete == Spec => []StatusComplete
<1>1. Inv => StatusComplete
  BY DEF Inv, StatusOK, StatusComplete
<1> QED
  BY <1>1, SpecInv, PTL
=============================================================================
