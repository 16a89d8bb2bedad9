-------------------------- MODULE RemoteRepository --------------------------
(***************************************************************************)
(* A remote repository in an object store, the commands that change it     *)
(* (prepare, publish and gc of bobr-repo/src/main.rs over s3.rs), and the  *)
(* status command.  A client fetches a master once and works from it for   *)
(* the length of a run; it leaves no trace here, so any master of the      *)
(* history may still have a client.                                        *)
(*                                                                         *)
(* The bucket is one mutable object, master, and a set of immutable keys.  *)
(* history is every master that was ever current: the last one is the      *)
(* bucket's, its position stands for its hash and for its ETag (two        *)
(* masters never have the same bytes, as each contains its predecessor's   *)
(* hash), and 0 for no master.  A command is a sequence of requests; it    *)
(* can fail or be killed between any two of them.                          *)
(***************************************************************************)
EXTENDS PublicationState

CONSTANTS
  Admins,       \* who runs prepare, publish and gc
  Inventories,  \* contents a local store can have when it is scanned
  Actions,      \* prepare actions in use: subset of {"append", "add-slot", "rotate"}
  Retention,    \* --retention
  SharedCache,  \* whether --cache names a directory other processes write too
  StatusRuns,   \* whether the status command is run
  MaxMasters, MaxTime  \* bounds

ASSUME BoundsAssumption == Retention \in Nat /\ MaxMasters \in Nat /\ MaxTime \in Nat
ASSUME DeadlineAssumption == NoDeadline \notin Int
ASSUME InventoriesAssumption == \A c \in Inventories : ClosureOK(c)
ASSUME ActionsAssumption == Actions \subseteq {"append", "add-slot", "rotate"}
ASSUME SwitchesAssumption == {SharedCache, StatusRuns} \subseteq BOOLEAN

VARIABLES
  history,    \* masters in the order in which they were put
  stored,     \* immutable keys of the bucket
  candidate,  \* per admin, the candidate file: a set with at most one master
  cmd,        \* per admin, the command in progress
  now,        \* the clock
  status      \* the status command

vars == <<history, stored, candidate, cmd, now, status>>

Current == Len(history)
SlotsOf(m) == history[m].slots

Idle == [pc |-> "idle", base |-> 0, slots |-> <<>>, want |-> {}, meta |-> {}]
StatusIdle == [pc |-> "idle", attempt |-> 0, base |-> 0, missing |-> {}, incomplete |-> FALSE]

Init ==
  /\ history = <<>> /\ stored = {} /\ now = 0
  /\ candidate = [a \in Admins |-> {}]
  /\ cmd = [a \in Admins |-> Idle]
  /\ status = StatusIdle

At(a, pc) == cmd[a].pc = pc
Step(a, r) == cmd' = [cmd EXCEPT ![a] = r]
Goto(a, pc) == Step(a, [cmd[a] EXCEPT !.pc = pc])

\* What the documentation asks of the operators and gc relies on: nothing else
\* runs while gc does.  Preparations and publications may race.
Collecting == {a \in Admins : cmd[a].pc \in {"gc metadata", "gc list", "gc check", "gc delete"}}
MayStart(a) == At(a, "idle") /\ Collecting = {}
\* A candidate is pending until it is published, superseded or abandoned.
Pending == \E a \in Admins : \E c \in candidate[a] : c.previous = Current

----------------------------------------------------------------------------
(* RepositoryReader::publication_metadata over the S3 transport: the       *)
(* master, revalidated, and then the metadata of every slot it lists.      *)
(* Through a cache that is shared the revalidated master may be an older   *)
(* one (see RepositoryReader), and metadata may come from the cache.       *)

Fetchable == IF SharedCache THEN 1 .. Current ELSE {Current} \ {0}
MetadataAvailable(m) == MetadataOf(SlotsOf(m)) \subseteq stored

PublicationMetadata(a, next) ==
  \E m \in Fetchable :
    \/ /\ MetadataAvailable(m) \/ SharedCache
       /\ Step(a, [cmd[a] EXCEPT !.pc = next, !.base = m])
    \/ ~ MetadataAvailable(m) /\ Step(a, Idle)

----------------------------------------------------------------------------
(* prepare *)

PrepareBegin(a) ==
  /\ MayStart(a)
  /\ Goto(a, IF Current = 0 THEN "plan" ELSE "metadata")
  /\ UNCHANGED <<history, stored, candidate, now, status>>

PrepareMetadata(a) ==
  /\ At(a, "metadata")
  /\ PublicationMetadata(a, "plan")
  /\ UNCHANGED <<history, stored, candidate, now, status>>

\* The store is scanned, the clock read and the next slot list computed.
PreparePlan(a) ==
  /\ At(a, "plan")
  /\ \E incoming \in Inventories, action \in Actions :
       LET base == cmd[a].base
           plan == IF base = 0
                   THEN [kind  |-> IF action = "append" THEN "upload" ELSE "invalid",
                         slots |-> initialize(incoming)]
                   ELSE plan_existing_prepare(SlotsOf(base), action, incoming, now, Retention)
           work == [cmd[a] EXCEPT !.slots = plan.slots]
       IN  Step(a, CASE plan.kind = "upload" -> [work EXCEPT !.pc = "list", !.want = ContentKeys(incoming)]
                     [] plan.kind = "prune"  -> [work EXCEPT !.pc = "write"]
                     [] OTHER                -> Idle)
  /\ UNCHANGED <<history, stored, candidate, now, status>>

\* upload_inventory lists the bucket once and leaves out what it saw there.
PrepareList(a) ==
  /\ At(a, "list")
  /\ Step(a, [cmd[a] EXCEPT !.pc = "upload", !.want = @ \ stored,
                            !.meta = MetadataOf(cmd[a].slots)])
  /\ UNCHANGED <<history, stored, candidate, now, status>>

\* put_immutable: writes the key or finds it there.  Objects go before files and
\* content before metadata, which is written one value after another.
Uploadable(a) ==
  LET objects == {k \in cmd[a].want : k[1] = "o"}
  IN  IF objects # {} THEN objects
      ELSE IF cmd[a].want # {} THEN cmd[a].want
      ELSE IF cmd[a].meta # {} THEN {CHOOSE k \in cmd[a].meta : TRUE} ELSE {}

PrepareUpload(a) ==
  /\ At(a, "upload")
  /\ \E k \in Uploadable(a) :
       /\ stored' = stored \cup {k}
       /\ Step(a, [cmd[a] EXCEPT !.want = @ \ {k}, !.meta = IF cmd[a].want = {} THEN @ \ {k} ELSE @])
  /\ UNCHANGED <<history, candidate, now, status>>

\* The candidate file is replaced when everything it refers to is in the bucket.
PrepareWrite(a) ==
  /\ At(a, "upload") \/ At(a, "write")
  /\ cmd[a].want = {} /\ cmd[a].meta = {}
  /\ candidate' = [candidate EXCEPT ![a] = {[previous |-> cmd[a].base, slots |-> cmd[a].slots]}]
  /\ Step(a, Idle)
  /\ UNCHANGED <<history, stored, now, status>>

\* The operator gives a candidate up (documented workflow, no code).
Abandon(a) ==
  /\ MayStart(a) /\ candidate[a] # {}
  /\ candidate' = [candidate EXCEPT ![a] = {}]
  /\ UNCHANGED <<history, stored, cmd, now, status>>

----------------------------------------------------------------------------
(* publish: the predecessor named by the candidate must be the current     *)
(* master, and the put is conditional on that master's ETag.  The command  *)
(* reads the master back afterwards, which changes nothing.                *)

PublishBegin(a) ==
  /\ MayStart(a) /\ Current < MaxMasters
  /\ \E c \in candidate[a] :
       /\ Validate(c.slots) /\ c.previous = Current
       /\ Step(a, [Idle EXCEPT !.pc = "put", !.base = Current, !.slots = c.slots])
  /\ UNCHANGED <<history, stored, candidate, now, status>>

PutUnconditionally(a) ==
  /\ At(a, "put")
  /\ Current < MaxMasters
  /\ history' = Append(history, [previous |-> cmd[a].base, slots |-> cmd[a].slots])
  /\ Step(a, Idle)
  /\ UNCHANGED <<stored, candidate, now, status>>

put_master(a) ==
  /\ At(a, "put")
  /\ history' = IF Current = cmd[a].base
                THEN Append(history, [previous |-> cmd[a].base, slots |-> cmd[a].slots])
                ELSE history
  /\ Step(a, Idle)
  /\ UNCHANGED <<stored, candidate, now, status>>

----------------------------------------------------------------------------
(* gc *)

GcBegin(a) ==
  /\ Current # 0 /\ ~ Pending /\ \A b \in Admins : At(b, "idle")
  /\ Goto(a, "gc metadata")
  /\ UNCHANGED <<history, stored, candidate, now, status>>

GcMetadata(a) ==
  /\ At(a, "gc metadata")
  /\ PublicationMetadata(a, "gc list")
  /\ UNCHANGED <<history, stored, candidate, now, status>>

\* The deletion set; a live key that is missing aborts the collection.
GcList(a) ==
  /\ At(a, "gc list")
  /\ LET live == live_keys(SlotsOf(cmd[a].base))
     IN  Step(a, IF live \subseteq stored
                 THEN [cmd[a] EXCEPT !.pc = "gc check", !.want = stored \ live]
                 ELSE Idle)
  /\ UNCHANGED <<history, stored, candidate, now, status>>

\* Immediately before it deletes, gc compares the master with the one it analysed.
GcCheck(a) ==
  /\ At(a, "gc check")
  /\ Step(a, IF Current = cmd[a].base /\ cmd[a].want # {}
             THEN [cmd[a] EXCEPT !.pc = "gc delete"] ELSE Idle)
  /\ UNCHANGED <<history, stored, candidate, now, status>>

\* One batch; whatever part of it the store rejects, the command ends in an error.
GcDelete(a) ==
  /\ At(a, "gc delete")
  /\ \E deleted \in SUBSET cmd[a].want : stored' = stored \ deleted
  /\ Step(a, Idle)
  /\ UNCHANGED <<history, candidate, now, status>>

\* A request fails, a batch is rejected, --dry-run ends here, or the process is killed.
Interrupt(a) ==
  /\ ~ At(a, "idle")
  /\ Step(a, Idle)
  /\ UNCHANGED <<history, stored, candidate, now, status>>

----------------------------------------------------------------------------
(* status --scan-storage: administrative_status_from, two attempts.        *)

StatusStep(r) == status' = r /\ UNCHANGED <<history, stored, candidate, cmd, now>>
\* Of a report only matters whether it has keys missing.
StatusEnd(missing) == StatusStep([StatusIdle EXCEPT !.incomplete = (missing # {})])
Retry == IF status.attempt = 0 THEN StatusStep([StatusIdle EXCEPT !.pc = "master", !.attempt = 1])
         ELSE StatusEnd({})

StatusBegin ==
  /\ StatusRuns /\ status.pc = "idle"
  /\ StatusStep([StatusIdle EXCEPT !.pc = "master"])

\* base is the master observed here; without one the master is looked for once more.
StatusMaster ==
  /\ status.pc = "master"
  /\ StatusStep([status EXCEPT !.pc = IF Current = 0 THEN "absent" ELSE "metadata", !.base = Current])

StatusAbsent ==
  /\ status.pc = "absent"
  /\ IF Current = 0 THEN StatusEnd({}) ELSE Retry

\* Metadata that is gone is an error unless the master has changed since it was observed.
StatusMetadata ==
  /\ status.pc = "metadata"
  /\ \E m \in Fetchable :
       \/ /\ MetadataAvailable(m) \/ SharedCache
          /\ StatusStep([status EXCEPT !.pc = "list", !.base = m])
       \/ /\ ~ MetadataAvailable(m)
          /\ IF Current # status.base THEN Retry ELSE StatusEnd({})

\* What the report needs of the listing: the advertised keys that are not in it.
StatusList ==
  /\ status.pc = "list"
  /\ StatusStep([status EXCEPT !.pc = "confirm", !.missing = live_keys(SlotsOf(status.base)) \ stored])

\* StatusReport::ready
Ready == StatusEnd(status.missing)

StatusUnconfirmed == status.pc = "confirm" /\ Ready

StatusConfirm ==
  /\ status.pc = "confirm"
  /\ IF Current = status.base THEN Ready ELSE Retry

----------------------------------------------------------------------------
(* The clock *)

Tick ==
  /\ now < MaxTime
  /\ now' = now + 1
  /\ UNCHANGED <<history, stored, candidate, cmd, status>>

Next ==
  \/ \E a \in Admins :
       \/ PrepareBegin(a) \/ PrepareMetadata(a) \/ PreparePlan(a) \/ PrepareList(a)
       \/ PrepareUpload(a) \/ PrepareWrite(a) \/ Abandon(a)
       \/ PublishBegin(a) \/ put_master(a)
       \/ GcBegin(a) \/ GcMetadata(a) \/ GcList(a) \/ GcCheck(a) \/ GcDelete(a)
       \/ Interrupt(a)
  \/ StatusBegin \/ StatusMaster \/ StatusAbsent \/ StatusMetadata \/ StatusList \/ StatusConfirm
  \/ Tick

Spec == Init /\ [][Next]_vars

----------------------------------------------------------------------------
(* Properties *)

\* Types of the variables; a master has used at most one serial per publication.
PCs == {"idle", "metadata", "plan", "list", "upload", "write", "put",
        "gc metadata", "gc list", "gc check", "gc delete"}
TypeOK ==
  /\ \A m \in 1 .. Current :
       /\ history[m].previous \in 0 .. Current
       /\ DOMAIN SlotsOf(m) \subseteq 1 .. m
       /\ \A s \in DOMAIN SlotsOf(m) :
            SlotsOf(m)[s].retain_until \in {NoDeadline} \cup 0 .. now + Retention
  /\ \A a \in Admins : cmd[a].pc \in PCs /\ cmd[a].base \in 0 .. Current
  /\ now \in 0 .. MaxTime

\* The bucket holds everything the current master refers to, retired slots
\* included, whatever preparations, publications and collections were
\* interrupted before (prepare, publish and gc of main.rs); and a client that
\* works from an older master finds everything its slots refer to as long as
\* no deadline given to one of them has passed: pruning waits for the deadline,
\* and gc for the prune to be published.
Served(m) ==
  \A s \in CurrentSerials(SlotsOf(m)) :
    (\A n \in m .. Current : s \in DOMAIN SlotsOf(n) => ~ Expired(SlotsOf(n)[s], now))
      => SlotKeys(SlotsOf(m)[s].contents) \subseteq stored
ReadersServed ==
  /\ Current # 0 => live_keys(SlotsOf(Current)) \subseteq stored
  /\ \A m \in 1 .. Current : Served(m)

\* Masters form one chain: each names the one it replaced, also when two
\* publishers race (the predecessor check of publish and put_master); and a
\* serial always means the same contents, in every master ever published
\* (next_serial of PublicationState::publish after any pruning).
HistoryLinear ==
  /\ \A m \in 1 .. Current : history[m].previous = m - 1
  /\ \A m, n \in 1 .. Current : \A s \in DOMAIN SlotsOf(m) \cap DOMAIN SlotsOf(n) :
       SlotsOf(m)[s].contents = SlotsOf(n)[s].contents

\* Whoever is told that the repository is ready was shown a listing that has
\* every key of the master it reports: the master is confirmed after the bucket
\* was listed (administrative_status_from).
StatusComplete == ~ status.incomplete
=============================================================================
