------------------------ MODULE RunTransport_proofs -------------------------
(***************************************************************************)
(* Proofs about the failure memory of a run, for every number of callers,  *)
(* URLs and gates.                                                         *)
(*                                                                         *)
(* FailureRemembered is not inductive: it speaks of callers and URLs, and  *)
(* only the gates connect them.  The invariant says how: a caller that     *)
(* waits for a gate, requests or cleans up finds its gate in the map       *)
(* (InMap), so callers of one URL that may still request it share one      *)
(* gate; a gate has one user at a time (OneUser); and a failed URL keeps a *)
(* gate that says so in the map (Remembered), because only a caller whose  *)
(* URL has not failed removes an entry (Asking).                           *)
(***************************************************************************)
EXTENDS RunTransport, FiniteSetTheorems, TLAPS

Gate == [locked : BOOLEAN, failure : BOOLEAN]
Using == {"requesting", "cleaning", "leaving"}

TypeInv ==
  /\ \E n \in Nat : gates \in [1..n -> Gate]
  /\ resources \in [Urls -> {0} \cup GateIds]
  /\ pc \in [Callers -> {"idle", "waiting", "unlocked"} \cup Using]
  /\ url \in [Callers -> Urls]
  /\ gate \in [Callers -> {0} \cup GateIds]

Held == \A c \in Callers : gate[c] = 0 <=> pc[c] = "idle"
MapOnce == \A u, v \in Urls : resources[u] = resources[v] /\ resources[u] # 0 => u = v
OwnUrl == \A c \in Callers, u \in Urls : gate[c] # 0 /\ resources[u] = gate[c] => url[c] = u
InMap ==
  \A c \in Callers : pc[c] \in {"waiting", "requesting", "cleaning"} => resources[url[c]] = gate[c]
OneUser ==
  /\ \A g \in GateIds : gates[g].locked <=> \E c \in Callers : gate[c] = g /\ pc[c] \in Using
  /\ \A c, d \in Callers : pc[c] \in Using /\ pc[d] \in Using /\ gate[c] = gate[d] => c = d
Remembered == \A u \in failed : u \in Urls /\ resources[u] # 0 /\ gates[resources[u]].failure
Asking ==
  \A c \in Callers : pc[c] \in {"requesting", "cleaning"} =>
    ~gates[gate[c]].failure /\ url[c] \notin failed

MemoryInv ==
  /\ TypeInv /\ Held /\ MapOnce /\ OwnUrl /\ InMap /\ OneUser /\ Remembered /\ Asking
  /\ repeated = {}

----------------------------------------------------------------------------
\* Gate numbers are never 0, and the next one is new.
LEMMA GateNumbers ==
  ASSUME TypeInv
  PROVE  /\ 0 \notin GateIds /\ gates \in [GateIds -> Gate]
         /\ \E n \in Nat : GateIds = 1..n /\ Cardinality(GateIds) = n
<1>1. PICK n \in Nat : gates \in [1..n -> Gate]
  BY DEF TypeInv
<1>2. GateIds = 1..n
  BY <1>1 DEF GateIds
<1>3. Cardinality(1..n) = n
  BY FS_Interval
<1> QED
  BY <1>1, <1>2, <1>3

\* A gate of which the map and this caller hold the only references has no
\* other holder.
LEMMA SoleHolder ==
  ASSUME MemoryInv, NEW c \in Callers, pc[c] = "cleaning", strong_count(gate[c]) = 2,
         NEW d \in Callers, gate[d] = gate[c]
  PROVE  d = c
<1> DEFINE g == gate[c]
           M == {u \in Urls : resources[u] = g}
           H == {x \in Callers : gate[x] = g}
<1>1. url[c] \in Urls /\ resources[url[c]] = g /\ g # 0
  BY DEF MemoryInv, TypeInv, InMap, Held
<1>2. M = {url[c]}
  BY <1>1 DEF MemoryInv, MapOnce
<1>3. Cardinality(M) = 1
  BY <1>2, FS_Singleton
<1>4. IsFiniteSet(H) /\ Cardinality(H) \in Nat
  BY CallersAssumption, FS_Subset, FS_CardinalityType
<1>5. Cardinality(H) = 1
  BY <1>3, <1>4 DEF strong_count
<1>6. \E x : H = {x}
  BY <1>4, <1>5, FS_Singleton
<1>7. c \in H /\ d \in H
  OBVIOUS
<1> QED
  BY <1>6, <1>7

LEMMA MemoryInit == Init => MemoryInv
<1> SUFFICES ASSUME Init PROVE MemoryInv
  OBVIOUS
<1>1. 1..0 = {}
  OBVIOUS
<1>2. gates \in [1..0 -> Gate] /\ GateIds = {}
  BY <1>1 DEF Init, GateIds
<1>3. TypeInv
  BY <1>2 DEF Init, TypeInv, Using
<1> QED
  BY <1>2, <1>3 DEF Init, MemoryInv, Held, MapOnce, OwnUrl, InMap, OneUser, Remembered, Asking, Using

----------------------------------------------------------------------------
(* One step.  Enter may create a gate; the other steps keep the gates'     *)
(* numbers, so their cases need no more than the facts of Fixed.           *)
Fixed ==
  /\ GateIds' = GateIds
  /\ gates' \in [GateIds -> Gate]

LEMMA TypeKept ==
  ASSUME TypeInv, Fixed,
         resources' \in [Urls -> {0} \cup GateIds],
         pc' \in [Callers -> {"idle", "waiting", "unlocked"} \cup Using],
         url' \in [Callers -> Urls],
         gate' \in [Callers -> {0} \cup GateIds]
  PROVE  TypeInv'
<1>1. PICK n \in Nat : gates \in [1..n -> Gate]
  BY DEF TypeInv
<1>2. GateIds = 1..n
  BY <1>1 DEF GateIds
<1>3. gates' \in [1..n -> Gate]
  BY <1>2 DEF Fixed
<1>4. \E m \in Nat : gates' \in [1..m -> Gate]
  BY <1>3
<1> QED
  BY <1>4 DEF TypeInv, Fixed

LEMMA EnterKeeps ==
  ASSUME MemoryInv, NEW c \in Callers, NEW u \in Urls, Enter(c, u)
  PROVE  MemoryInv'
<1> USE DEF MemoryInv
<1>1. PICK n \in Nat : GateIds = 1..n /\ Cardinality(GateIds) = n
  BY GateNumbers
<1>2. gates \in [GateIds -> Gate] /\ 0 \notin GateIds
  BY GateNumbers
<1>3. CASE resources[u] # 0
  <2>1. /\ gates' = gates /\ resources' = resources /\ url' = [url EXCEPT ![c] = u]
        /\ gate' = [gate EXCEPT ![c] = resources[u]] /\ pc' = [pc EXCEPT ![c] = "waiting"]
        /\ failed' = failed /\ repeated' = repeated /\ pc[c] = "idle" /\ resources[u] \in GateIds
    BY <1>3 DEF Enter, TypeInv
  <2>2. Fixed
    BY <1>2, <2>1 DEF Fixed, GateIds
  <2>3. TypeInv'
    BY <2>1, <2>2, TypeKept DEF TypeInv
  <2>4. Held' /\ MapOnce' /\ InMap'
    BY <1>3, <2>1 DEF TypeInv, Held, MapOnce, InMap
  <2>5. OwnUrl'
    BY <1>3, <2>1 DEF TypeInv, OwnUrl, MapOnce
  <2>6. OneUser'
    BY <1>3, <2>1, <2>2 DEF TypeInv, OneUser, Using, Fixed
  <2>7. Remembered' /\ Asking'
    BY <1>3, <2>1, <2>2 DEF TypeInv, Remembered, Asking
  <2> QED
    BY <2>1, <2>3, <2>4, <2>5, <2>6, <2>7
<1>4. CASE resources[u] = 0
  <2> DEFINE g == n + 1
  <2>1. /\ resources' = [resources EXCEPT ![u] = g] /\ url' = [url EXCEPT ![c] = u]
        /\ gate' = [gate EXCEPT ![c] = g] /\ pc' = [pc EXCEPT ![c] = "waiting"]
        /\ failed' = failed /\ repeated' = repeated /\ pc[c] = "idle"
    BY <1>1, <1>4 DEF Enter
  <2>2. gates' = [h \in GateIds \cup {g} |->
                    IF h = g THEN [locked |-> FALSE, failure |-> FALSE] ELSE gates[h]]
    BY <1>1, <1>4 DEF Enter
  <2>3. g \notin GateIds /\ g # 0 /\ GateIds \cup {g} = 1..(n + 1) /\ n + 1 \in Nat
    BY <1>1
  <2>4. gates' \in [1..(n + 1) -> Gate] /\ GateIds' = GateIds \cup {g}
    BY <1>2, <2>2, <2>3 DEF Gate, GateIds
  <2>5. gates'[g] = [locked |-> FALSE, failure |-> FALSE] /\ \A h \in GateIds : gates'[h] = gates[h]
    BY <2>2, <2>3
  <2>6. TypeInv'
    <3>1. \E m \in Nat : gates' \in [1..m -> Gate]
      BY <2>3, <2>4
    <3> QED
      BY <2>1, <2>4, <3>1 DEF TypeInv
  <2>7. (\A v \in Urls : resources[v] # g) /\ (\A d \in Callers : gate[d] # g)
    BY <2>3 DEF TypeInv
  <2>8. Held' /\ MapOnce' /\ InMap'
    BY <1>4, <2>1, <2>3, <2>7 DEF TypeInv, Held, MapOnce, InMap
  <2>9. OwnUrl'
    BY <1>4, <2>1, <2>3, <2>7 DEF TypeInv, OwnUrl, MapOnce
  <2>10. OneUser'
    <3>1. /\ pc'[c] \notin Using /\ gate'[c] = g /\ pc[c] \notin Using
          /\ \A d \in Callers : d # c => pc'[d] = pc[d] /\ gate'[d] = gate[d]
      BY <2>1 DEF TypeInv, Using
    <3>2. \A h \in GateIds' : gates'[h].locked <=> \E d \in Callers : gate'[d] = h /\ pc'[d] \in Using
      <4> SUFFICES ASSUME NEW h \in GateIds \cup {g}
                   PROVE  gates'[h].locked <=> \E d \in Callers : gate'[d] = h /\ pc'[d] \in Using
        BY <2>4
      <4>1. CASE h = g
        <5>1. ~gates'[h].locked
          BY <2>5, <4>1
        <5> QED
          BY <2>7, <3>1, <4>1, <5>1
      <4>2. CASE h \in GateIds
        BY <2>5, <3>1, <4>2 DEF OneUser
      <4> QED
        BY <4>1, <4>2
    <3> QED
      BY <3>1, <3>2 DEF OneUser
  <2>11. Remembered'
    <3> SUFFICES ASSUME NEW v \in failed
                 PROVE  v \in Urls /\ resources'[v] # 0 /\ gates'[resources'[v]].failure
      BY <2>1 DEF Remembered
    <3>1. v \in Urls /\ resources[v] # 0 /\ gates[resources[v]].failure
      BY DEF Remembered
    <3>2. resources[v] \in GateIds /\ resources'[v] = resources[v]
      BY <1>4, <2>1, <3>1 DEF TypeInv
    <3> QED
      BY <2>5, <3>1, <3>2
  <2>12. Asking'
    <3> SUFFICES ASSUME NEW d \in Callers, pc'[d] \in {"requesting", "cleaning"}
                 PROVE  ~gates'[gate'[d]].failure /\ url'[d] \notin failed'
      BY DEF Asking
    <3>1. d # c /\ pc[d] = pc'[d] /\ gate'[d] = gate[d] /\ url'[d] = url[d]
      BY <2>1 DEF TypeInv
    <3>2. gate[d] \in GateIds
      BY <3>1 DEF TypeInv, Held
    <3> QED
      BY <2>1, <2>5, <3>1, <3>2 DEF Asking
  <2> QED
    BY <2>1, <2>6, <2>8, <2>9, <2>10, <2>11, <2>12
<1> QED
  BY <1>3, <1>4

\* What holds of the caller of a step and of its gate.
LEMMA Caller ==
  ASSUME MemoryInv, NEW c \in Callers, pc[c] # "idle"
  PROVE  gate[c] \in GateIds /\ gates[gate[c]] \in Gate /\ url[c] \in Urls
BY GateNumbers DEF MemoryInv, TypeInv, Held

LEMMA LockKeeps ==
  ASSUME MemoryInv, NEW c \in Callers, Lock(c)
  PROVE  MemoryInv'
<1> DEFINE g == gate[c]
<1>1. g \in GateIds /\ gates[g] \in Gate /\ url[c] \in Urls /\ pc[c] = "waiting" /\ ~gates[g].locked
  BY Caller DEF Lock
<1>2. gates \in [GateIds -> Gate] /\ 0 \notin GateIds
  BY GateNumbers DEF MemoryInv
<1>3. /\ gates' = [gates EXCEPT ![g].locked = TRUE]
      /\ pc' = [pc EXCEPT ![c] = IF gates[g].failure THEN "leaving" ELSE "requesting"]
      /\ repeated' = IF gates[g].failure THEN repeated ELSE repeated \cup ({url[c]} \cap failed)
      /\ resources' = resources /\ url' = url /\ gate' = gate /\ failed' = failed
  BY DEF Lock, SetLocked
<1>4. Fixed
  BY <1>1, <1>2, <1>3 DEF Fixed, GateIds, Gate
<1>5. gates'[g].locked /\ \A h \in GateIds : gates'[h].failure = gates[h].failure
                                             /\ (h # g => gates'[h] = gates[h])
  BY <1>1, <1>2, <1>3 DEF Gate
<1>6. TypeInv'
  BY <1>3, <1>4, TypeKept DEF MemoryInv, TypeInv, Using
<1>7. Held' /\ MapOnce' /\ OwnUrl' /\ InMap'
  BY <1>1, <1>3 DEF MemoryInv, TypeInv, Held, MapOnce, OwnUrl, InMap
<1>8. \A d \in Callers : pc[d] \in Using => gate[d] # g
  BY <1>1 DEF MemoryInv, OneUser
<1>9. OneUser'
  <2>1. pc'[c] \in Using /\ \A d \in Callers : d # c => pc'[d] = pc[d]
    BY <1>3 DEF MemoryInv, TypeInv, Using
  <2>2. \A h \in GateIds' : gates'[h].locked <=> \E d \in Callers : gate'[d] = h /\ pc'[d] \in Using
    <3> SUFFICES ASSUME NEW h \in GateIds
                 PROVE  gates'[h].locked <=> \E d \in Callers : gate[d] = h /\ pc'[d] \in Using
      BY <1>3, <1>4 DEF Fixed
    <3>1. CASE h = g
      BY <1>5, <2>1, <3>1
    <3>2. CASE h # g
      <4>1. gates'[h].locked = gates[h].locked
        BY <1>5, <3>2
      <4>2. \A d \in Callers : gate[d] = h => d # c
        BY <3>2
      <4> QED
        BY <2>1, <4>1, <4>2 DEF MemoryInv, OneUser
    <3> QED
      BY <3>1, <3>2
  <2>3. \A d, e \in Callers : pc'[d] \in Using /\ pc'[e] \in Using /\ gate'[d] = gate'[e] => d = e
    BY <1>3, <1>8, <2>1 DEF MemoryInv, OneUser
  <2> QED
    BY <2>2, <2>3 DEF OneUser
<1>10. Remembered'
  BY <1>2, <1>3, <1>5 DEF MemoryInv, TypeInv, Remembered
<1>11. ~gates[g].failure => url[c] \notin failed
  BY <1>1 DEF MemoryInv, InMap, Remembered
<1>12. Asking'
  BY <1>1, <1>3, <1>5, <1>11, Caller DEF MemoryInv, TypeInv, Asking
<1>13. repeated' = {}
  BY <1>3, <1>11 DEF MemoryInv
<1> QED
  BY <1>6, <1>7, <1>9, <1>10, <1>12, <1>13 DEF MemoryInv

LEMMA AnswerKeeps ==
  ASSUME MemoryInv, NEW c \in Callers, Answer(c)
  PROVE  MemoryInv'
<1> DEFINE g == gate[c]
<1>1. g \in GateIds /\ gates[g] \in Gate /\ url[c] \in Urls /\ pc[c] = "requesting"
  BY Caller DEF Answer
<1>2. gates \in [GateIds -> Gate] /\ 0 \notin GateIds
  BY GateNumbers DEF MemoryInv
<1>3. resources' = resources /\ url' = url /\ gate' = gate /\ repeated' = repeated
  BY DEF Answer
<1>4. PICK a \in Answers[url[c]] :
        /\ gates' = [gates EXCEPT ![g].failure = (a = "transport")]
        /\ failed' = IF a = "transport" THEN failed \cup {url[c]} ELSE failed
        /\ pc' = [pc EXCEPT ![c] = IF a = "transport" THEN "leaving" ELSE "cleaning"]
  BY DEF Answer
<1>5. Fixed
  BY <1>1, <1>2, <1>4 DEF Fixed, GateIds, Gate
<1>6. /\ gates'[g].failure <=> a = "transport"
      /\ \A h \in GateIds : (gates'[h].locked <=> gates[h].locked) /\ (h # g => gates'[h] = gates[h])
  BY <1>1, <1>2, <1>4 DEF Gate
<1>7. TypeInv'
  BY <1>3, <1>4, <1>5, TypeKept DEF MemoryInv, TypeInv, Using
<1>8. Held' /\ MapOnce' /\ OwnUrl' /\ InMap'
  BY <1>1, <1>3, <1>4 DEF MemoryInv, TypeInv, Held, MapOnce, OwnUrl, InMap
<1>9. \A d \in Callers : (pc'[d] \in Using <=> pc[d] \in Using) /\ (d # c => pc'[d] = pc[d])
  BY <1>1, <1>4 DEF MemoryInv, TypeInv, Using
<1>10. OneUser'
  BY <1>3, <1>5, <1>6, <1>9 DEF MemoryInv, OneUser, Fixed
<1>11. resources[url[c]] = g /\ url[c] \notin failed
  BY <1>1 DEF MemoryInv, InMap, Asking
<1>12. \A u \in failed : resources[u] \in GateIds /\ resources[u] # g
  BY <1>1, <1>2, <1>11 DEF MemoryInv, TypeInv, Remembered, MapOnce
<1>13. Remembered'
  <2> SUFFICES ASSUME NEW u \in failed'
               PROVE  u \in Urls /\ resources[u] # 0 /\ gates'[resources[u]].failure
    BY <1>3 DEF Remembered
  <2>1. CASE u \in failed
    BY <1>6, <1>12, <2>1 DEF MemoryInv, Remembered
  <2>2. CASE u \notin failed
    <3>1. u = url[c] /\ a = "transport"
      BY <1>4, <2>2
    <3> QED
      BY <1>1, <1>2, <1>6, <1>11, <3>1
  <2> QED
    BY <2>1, <2>2
<1>14. Asking'
  <2> SUFFICES ASSUME NEW d \in Callers, pc'[d] \in {"requesting", "cleaning"}
               PROVE  ~gates'[gate[d]].failure /\ url[d] \notin failed'
    BY <1>3 DEF Asking
  <2>1. CASE d = c
    <3>1. a # "transport"
      BY <1>4, <2>1 DEF MemoryInv, TypeInv
    <3> QED
      BY <1>4, <1>6, <1>11, <2>1, <3>1
  <2>2. CASE d # c
    <3>1. pc[d] \in {"requesting", "cleaning"} /\ pc[d] \in Using
      BY <1>9, <2>2 DEF Using
    <3>2. gate[d] # g /\ gate[d] \in GateIds
      BY <1>1, <2>2, <3>1, Caller DEF MemoryInv, OneUser, Using
    <3>3. url[d] # url[c]
      BY <1>11, <3>1, <3>2 DEF MemoryInv, InMap
    <3> QED
      BY <1>4, <1>6, <3>1, <3>2, <3>3 DEF MemoryInv, Asking
  <2> QED
    BY <2>1, <2>2
<1> QED
  BY <1>3, <1>7, <1>8, <1>10, <1>13, <1>14 DEF MemoryInv

LEMMA CleanKeeps ==
  ASSUME MemoryInv, NEW c \in Callers, Clean(c)
  PROVE  MemoryInv'
<1> DEFINE g == gate[c]
<1>1. g \in GateIds /\ gates[g] \in Gate /\ url[c] \in Urls /\ pc[c] = "cleaning"
  BY Caller DEF Clean
<1>2. gates \in [GateIds -> Gate] /\ 0 \notin GateIds
  BY GateNumbers DEF MemoryInv
<1>3. /\ resources' = IF strong_count(g) = 2 THEN [resources EXCEPT ![url[c]] = 0] ELSE resources
      /\ pc' = [pc EXCEPT ![c] = "leaving"]
      /\ gates' = gates /\ url' = url /\ gate' = gate /\ failed' = failed /\ repeated' = repeated
  BY DEF Clean
<1>4. Fixed
  BY <1>2, <1>3 DEF Fixed, GateIds
<1>5. TypeInv'
  <2>1. resources' \in [Urls -> {0} \cup GateIds]
    BY <1>1, <1>3 DEF MemoryInv, TypeInv
  <2> QED
    BY <1>3, <1>4, <2>1, TypeKept DEF MemoryInv, TypeInv, Using
<1>6. \A u \in Urls : resources'[u] = resources[u] \/ (resources'[u] = 0 /\ u = url[c] /\ strong_count(g) = 2)
  BY <1>1, <1>3 DEF MemoryInv, TypeInv
<1>7. Held' /\ MapOnce' /\ OwnUrl'
  BY <1>1, <1>3, <1>6 DEF MemoryInv, TypeInv, Held, MapOnce, OwnUrl
<1>8. InMap'
  <2> SUFFICES ASSUME NEW d \in Callers, pc'[d] \in {"waiting", "requesting", "cleaning"}
               PROVE  resources'[url[d]] = gate[d]
    BY <1>3 DEF InMap
  <2>1. d # c /\ pc[d] = pc'[d]
    BY <1>3 DEF MemoryInv, TypeInv
  <2>2. resources[url[d]] = gate[d] /\ url[d] \in Urls
    BY <2>1 DEF MemoryInv, TypeInv, InMap
  <2>3. resources[url[c]] = g
    BY <1>1 DEF MemoryInv, InMap
  <2>4. url[d] = url[c] => strong_count(g) # 2
    BY <1>1, <2>1, <2>2, <2>3, SoleHolder
  <2> QED
    BY <1>6, <2>2, <2>4
<1>9. \A d \in Callers : (pc'[d] \in Using <=> pc[d] \in Using) /\ (d # c => pc'[d] = pc[d])
  BY <1>1, <1>3 DEF MemoryInv, TypeInv, Using
<1>10. OneUser'
  BY <1>3, <1>4, <1>9 DEF MemoryInv, OneUser, Fixed
<1>11. Remembered'
  BY <1>1, <1>3, <1>6 DEF MemoryInv, Remembered, Asking
<1>12. Asking'
  BY <1>3, <1>9 DEF MemoryInv, TypeInv, Asking
<1> QED
  BY <1>3, <1>5, <1>7, <1>8, <1>10, <1>11, <1>12 DEF MemoryInv

LEMMA UnlockKeeps ==
  ASSUME MemoryInv, NEW c \in Callers, Unlock(c)
  PROVE  MemoryInv'
<1> DEFINE g == gate[c]
<1>1. g \in GateIds /\ gates[g] \in Gate /\ url[c] \in Urls /\ pc[c] = "leaving"
  BY Caller DEF Unlock
<1>2. gates \in [GateIds -> Gate] /\ 0 \notin GateIds
  BY GateNumbers DEF MemoryInv
<1>3. /\ gates' = [gates EXCEPT ![g].locked = FALSE]
      /\ pc' = [pc EXCEPT ![c] = "unlocked"]
      /\ resources' = resources /\ url' = url /\ gate' = gate /\ failed' = failed /\ repeated' = repeated
  BY DEF Unlock, SetLocked
<1>4. Fixed
  BY <1>1, <1>2, <1>3 DEF Fixed, GateIds, Gate
<1>5. ~gates'[g].locked /\ \A h \in GateIds : gates'[h].failure = gates[h].failure
                                              /\ (h # g => gates'[h] = gates[h])
  BY <1>1, <1>2, <1>3 DEF Gate
<1>6. TypeInv'
  BY <1>3, <1>4, TypeKept DEF MemoryInv, TypeInv, Using
<1>7. Held' /\ MapOnce' /\ OwnUrl' /\ InMap'
  BY <1>1, <1>3 DEF MemoryInv, TypeInv, Held, MapOnce, OwnUrl, InMap
<1>8. OneUser'
  <2>1. pc'[c] \notin Using /\ \A d \in Callers : d # c => pc'[d] = pc[d]
    BY <1>3 DEF MemoryInv, TypeInv, Using
  <2>2. \A d \in Callers : pc'[d] \in Using => gate[d] # g
    BY <1>1, <2>1 DEF MemoryInv, OneUser, Using
  <2>3. \A h \in GateIds' : gates'[h].locked <=> \E d \in Callers : gate'[d] = h /\ pc'[d] \in Using
    <3> SUFFICES ASSUME NEW h \in GateIds
                 PROVE  gates'[h].locked <=> \E d \in Callers : gate[d] = h /\ pc'[d] \in Using
      BY <1>3, <1>4 DEF Fixed
    <3>1. CASE h = g
      BY <1>5, <2>2, <3>1
    <3>2. CASE h # g
      <4>1. gates'[h].locked = gates[h].locked
        BY <1>5, <3>2
      <4>2. \A d \in Callers : gate[d] = h => d # c
        BY <3>2
      <4> QED
        BY <2>1, <4>1, <4>2 DEF MemoryInv, OneUser
    <3> QED
      BY <3>1, <3>2
  <2>4. \A d, e \in Callers : pc'[d] \in Using /\ pc'[e] \in Using /\ gate'[d] = gate'[e] => d = e
    BY <1>3, <2>1 DEF MemoryInv, OneUser
  <2> QED
    BY <2>3, <2>4 DEF OneUser
<1>9. Remembered'
  BY <1>2, <1>3, <1>5 DEF MemoryInv, TypeInv, Remembered
<1>10. Asking'
  BY <1>1, <1>3, <1>5, Caller DEF MemoryInv, TypeInv, Asking
<1> QED
  BY <1>3, <1>6, <1>7, <1>8, <1>9, <1>10 DEF MemoryInv

\* A caller that lets go of a gate it does not use leaves the others as they were.
LetGo(c) ==
  /\ pc[c] \in {"waiting", "unlocked"}
  /\ gate' = [gate EXCEPT ![c] = 0]
  /\ pc' = [pc EXCEPT ![c] = "idle"]
  /\ UNCHANGED <<gates, resources, url, failed, repeated>>

LEMMA LetGoKeeps ==
  ASSUME MemoryInv, NEW c \in Callers, LetGo(c)
  PROVE  MemoryInv'
<1>1. gates \in [GateIds -> Gate] /\ 0 \notin GateIds
  BY GateNumbers DEF MemoryInv
<1>2. Fixed
  BY <1>1 DEF Fixed, GateIds, LetGo
<1>3. TypeInv'
  BY <1>2, TypeKept DEF MemoryInv, TypeInv, LetGo
<1>4. /\ pc'[c] = "idle" /\ gate'[c] = 0 /\ pc[c] \notin Using
      /\ \A d \in Callers : d # c => pc'[d] = pc[d] /\ gate'[d] = gate[d]
  BY DEF LetGo, MemoryInv, TypeInv, Using
<1>5. Held' /\ MapOnce' /\ OwnUrl' /\ InMap' /\ Remembered' /\ Asking'
  BY <1>4 DEF LetGo, MemoryInv, TypeInv, Held, MapOnce, OwnUrl, InMap, Remembered, Asking
<1>6. \A d \in Callers, h \in GateIds : gate'[d] = h /\ pc'[d] \in Using <=> gate[d] = h /\ pc[d] \in Using
  BY <1>1, <1>4
<1>7. OneUser'
  <2>1. \A h \in GateIds' : gates'[h].locked <=> \E d \in Callers : gate'[d] = h /\ pc'[d] \in Using
    BY <1>2, <1>6 DEF LetGo, MemoryInv, OneUser, Fixed
  <2>2. \A d, e \in Callers : pc'[d] \in Using /\ pc'[e] \in Using /\ gate'[d] = gate'[e] => d = e
    BY <1>4 DEF MemoryInv, OneUser, Using
  <2> QED
    BY <2>1, <2>2 DEF OneUser
<1> QED
  BY <1>3, <1>5, <1>7 DEF LetGo, MemoryInv

\* A caller dropped in the middle of a request only stops asking.
LEMMA AbandonKeeps ==
  ASSUME MemoryInv, NEW c \in Callers, pc[c] = "requesting", pc' = [pc EXCEPT ![c] = "leaving"],
         UNCHANGED <<gates, resources, url, gate, failed, repeated>>
  PROVE  MemoryInv'
<1>1. gates \in [GateIds -> Gate] /\ 0 \notin GateIds
  BY GateNumbers DEF MemoryInv
<1>2. Fixed
  BY <1>1 DEF Fixed, GateIds
<1>3. TypeInv'
  BY <1>2, TypeKept DEF MemoryInv, TypeInv, Using
<1>4. \A d \in Callers : (pc'[d] \in Using <=> pc[d] \in Using) /\ (d # c => pc'[d] = pc[d])
  BY DEF MemoryInv, TypeInv, Using
<1>5. Held' /\ MapOnce' /\ OwnUrl' /\ InMap' /\ Remembered' /\ Asking'
  BY <1>4 DEF MemoryInv, TypeInv, Held, MapOnce, OwnUrl, InMap, Remembered, Asking
<1>6. OneUser'
  BY <1>2, <1>4 DEF MemoryInv, OneUser, Fixed
<1> QED
  BY <1>3, <1>5, <1>6 DEF MemoryInv

LEMMA MemoryStep == MemoryInv /\ [Next]_vars => MemoryInv'
<1> SUFFICES ASSUME MemoryInv, [Next]_vars PROVE MemoryInv'
  OBVIOUS
<1>1. CASE UNCHANGED vars
  BY <1>1 DEF vars, MemoryInv, TypeInv, GateIds, Held, MapOnce, OwnUrl, InMap, OneUser, Remembered, Asking
<1>2. CASE Next
  <2>1. PICK c \in Callers : (\E u \in Urls : Enter(c, u)) \/ Step(c) \/ Drop(c)
    BY <1>2 DEF Next
  <2>2. CASE \E u \in Urls : Enter(c, u)
    BY <2>2, EnterKeeps
  <2>3. CASE Lock(c)
    BY <2>3, LockKeeps
  <2>4. CASE Answer(c)
    BY <2>4, AnswerKeeps
  <2>5. CASE Clean(c)
    BY <2>5, CleanKeeps
  <2>6. CASE Unlock(c)
    BY <2>6, UnlockKeeps
  <2>7. CASE Leave(c)
    <3>1. LetGo(c)
      BY <2>7 DEF Leave, LetGo
    <3> QED
      BY <3>1, LetGoKeeps
  <2>8. CASE Drop(c)
    <3>1. CASE pc[c] = "waiting"
      <4>1. LetGo(c)
        BY <2>8, <3>1 DEF Drop, LetGo
      <4> QED
        BY <4>1, LetGoKeeps
    <3>2. CASE pc[c] = "requesting"
      <4>1. pc' = [pc EXCEPT ![c] = "leaving"] /\ UNCHANGED <<gates, resources, url, gate, failed, repeated>>
        BY <2>8, <3>2 DEF Drop
      <4> QED
        BY <3>2, <4>1, AbandonKeeps
    <3> QED
      BY <2>8, <3>1, <3>2 DEF Drop
  <2> QED
    BY <2>1, <2>2, <2>3, <2>4, <2>5, <2>6, <2>7, <2>8 DEF Step
<1> QED
  BY <1>1, <1>2

LEMMA MemoryImplies == MemoryInv => FailureRemembered
<1> SUFFICES ASSUME MemoryInv PROVE FailureRemembered
  OBVIOUS
<1>1. ASSUME NEW c \in Callers, NEW d \in Callers,
             pc[c] = "requesting", pc[d] = "requesting", url[c] = url[d]
      PROVE  c = d
  <2>1. gate[c] = gate[d]
    BY <1>1 DEF MemoryInv, InMap
  <2> QED
    BY <1>1, <2>1 DEF MemoryInv, OneUser, Using
<1> QED
  BY <1>1 DEF FailureRemembered, MemoryInv, OneUser, Using

\* A URL whose request failed in transport is never requested again in the run, a
\* URL is requested by one caller at a time and no gate stays locked without a
\* user, however many callers wait, are dropped, or enter while an entry of the
\* map is being removed (RunTransport::fetch and its strong_count test).
THEOREM FailureAlwaysRemembered == Spec => []FailureRemembered
<1>1. Spec => []MemoryInv
  BY MemoryInit, MemoryStep, PTL DEF Spec
<1> QED
  BY <1>1, MemoryImplies, PTL
=============================================================================
