------------------------- MODULE Acquisition_proofs -------------------------
(***************************************************************************)
(* Proofs about the acquisition of content, for every number of tasks,     *)
(* hosts, mirrors, permits and attempts.                                   *)
(*                                                                         *)
(* A step of a task changes that task's entries only (Frame), so the       *)
(* invariant is stated of one task: Shape ties its place to its origin,    *)
(* Ledger counts its attempts twice, as Started events and as the records  *)
(* of UrlAttemptState with the attempts of the current call, FirstWalk and *)
(* SecondWalk say what the two passes have left behind, Tidy where a       *)
(* temporary file can be.  The permits are counted over all tasks; a step  *)
(* moves one task in or out of the sets that are counted (PermitStep).     *)
(***************************************************************************)
EXTENDS Acquisition, FiniteSetTheorems, SequenceTheorems, TLAPS

Blobs == {"none", "partial", "whole"}
Event == [kind : Kinds, url : Nat, attempt : Nat]
InWalk == {"start", "walk"} \cup Waiting

TypeInv ==
  /\ token \in BOOLEAN /\ signalled \in BOOLEAN /\ (signalled => token)
  /\ hostFree \in [Hosts -> Int] /\ connFree \in Int /\ localFree \in Int
  /\ pc \in [Tasks -> Places] /\ pass \in [Tasks -> {1, 2}]
  /\ url \in [Tasks -> Nat \ {0}] /\ index \in [Tasks -> Nat \ {0}]
  /\ DOMAIN spent = Tasks /\ DOMAIN worth = Tasks /\ DOMAIN started = Tasks
  /\ \A t \in Tasks :
       /\ spent[t] \in [Mirrors(t) -> Nat] /\ worth[t] \in [Mirrors(t) -> BOOLEAN]
       /\ started[t] \in [Mirrors(t) -> Nat]
  /\ blob \in [Tasks -> Blobs] /\ outcome \in [Tasks -> Outcomes] /\ event \in [Tasks -> Event]

\* Attempts made in the current call of run_attempts.
Made(t) == IF pc[t] \in {"transfer", "backoff"} THEN index[t] ELSE index[t] - 1

Shape(t) ==
  /\ pc[t] \in {"walk", "resume", "finalize"} => Origin[t] = "Http"
  /\ pc[t] \in {"copyWait", "copy"} => Origin[t] = "Path"
  /\ pc[t] \in Waiting => url[t] \in Mirrors(t) /\ index[t] <= AttemptsHere(t)
  /\ pc[t] = "backoff" => index[t] < AttemptsHere(t)
  /\ pc[t] \in {"start", "walk", "resume"} => index[t] = 1
  /\ Origin[t] # "Http" => pass[t] = 1 /\ url[t] = 1 /\ \A i \in Mirrors(t) : spent[t][i] = 0
  /\ pc[t] = "remove" => Origin[t] = "Repository"
  /\ outcome[t] # "none" => pc[t] \in {"remove", "done"}

Ledger(t) ==
  pc[t] \in InWalk =>
    \A i \in Mirrors(t) : started[t][i] = spent[t][i] + IF i = url[t] THEN Made(t) ELSE 0

FirstWalk(t) ==
  (Origin[t] = "Http" /\ pass[t] = 1 /\ pc[t] \in InWalk) =>
    \A i \in Mirrors(t) :
      IF i < url[t] THEN spent[t][i] <= 1 /\ (worth[t][i] \/ ~token => spent[t][i] = 1)
                    ELSE spent[t][i] = 0

SecondWalk(t) ==
  (pass[t] = 2 /\ pc[t] \in InWalk) =>
    /\ \A i \in Mirrors(t) :
         /\ token \/ spent[t][i] > 0
         /\ spent[t][i] <= Attempts
         /\ worth[t][i] => spent[t][i] = IF i < url[t] THEN Attempts ELSE 1
    /\ pc[t] \in Waiting => worth[t][url[t]] /\ Attempts > 1

Exhausted(t) ==
  (Origin[t] = "Http" /\ (pc[t] = "settle" \/ outcome[t] = "failed") /\ blob[t] # "whole" /\ ~token) =>
    \A i \in Mirrors(t) : started[t][i] > 0 /\ (worth[t][i] => started[t][i] = Attempts)

Budget(t) ==
  /\ \A i \in Mirrors(t) : started[t][i] <= Attempts
  /\ (Origin[t] = "Http" /\ \E i \in Mirrors(t) : started[t][i] > 1) => \A j \in Mirrors(t) : started[t][j] > 0

Announced(t) ==
  /\ event[t].kind = "Started" => event[t].url \in Mirrors(t) /\ event[t].attempt = started[t][event[t].url]
  /\ Origin[t] = "OciRegistry" => event[t].kind # "Started"

Tidy(t) ==
  /\ pc[t] \in {"finalize", "importWait", "import"} => blob[t] = "whole"
  /\ (Origin[t] # "Path" /\ t \notin UnlinkFails /\ pc[t] \in {"start", "walk", "resume", "settle", "done"})
       => blob[t] # "partial"

TaskInv(t) ==
  /\ Shape(t) /\ Ledger(t) /\ FirstWalk(t) /\ SecondWalk(t) /\ Exhausted(t) /\ Budget(t)
  /\ Announced(t) /\ Tidy(t)

Inv == TypeInv /\ \A t \in Tasks : TaskInv(t)

----------------------------------------------------------------------------
LEMMA MirrorNumbers ==
  ASSUME NEW t \in Tasks
  PROVE  /\ Len(Urls[t]) \in Nat /\ Mirrors(t) = 1..Len(Urls[t])
         /\ \A i \in Mirrors(t) : HostOf[Urls[t][i]] \in Hosts
         /\ Origin[t] # "Path" => 1 \in Mirrors(t)
         /\ Origin[t] \in {"Http", "OciRegistry", "Path", "Repository"}
<1>1. Urls[t] \in Seq(DOMAIN HostOf)
  BY OriginsAssumption
<1>2. Len(Urls[t]) \in Nat /\ Mirrors(t) = 1..Len(Urls[t])
  BY <1>1 DEF Mirrors
<1>3. Origin[t] # "Path" => Urls[t] # <<>>
  BY OriginsAssumption
<1>4. Urls[t] # <<>> => Len(Urls[t]) # 0
  BY <1>1, EmptySeq
<1> QED
  BY <1>2, <1>3, <1>4, OriginsAssumption

----------------------------------------------------------------------------
(* A step of t leaves the entries of the other tasks alone.                *)
Frame(t) ==
  /\ token' = token /\ signalled' = signalled
  /\ \A s \in Tasks \ {t} :
       /\ pc'[s] = pc[s] /\ pass'[s] = pass[s] /\ url'[s] = url[s] /\ index'[s] = index[s]
       /\ spent'[s] = spent[s] /\ worth'[s] = worth[s] /\ started'[s] = started[s]
       /\ blob'[s] = blob[s] /\ outcome'[s] = outcome[s] /\ event'[s] = event[s]

\* What every step of t keeps of the types; the permits are left to PermitStep.
Typed ==
  /\ pc' \in [Tasks -> Places] /\ pass' \in [Tasks -> {1, 2}]
  /\ url' \in [Tasks -> Nat \ {0}] /\ index' \in [Tasks -> Nat \ {0}]
  /\ DOMAIN spent' = Tasks /\ DOMAIN worth' = Tasks /\ DOMAIN started' = Tasks
  /\ \A t \in Tasks :
       /\ spent'[t] \in [Mirrors(t) -> Nat] /\ worth'[t] \in [Mirrors(t) -> BOOLEAN]
       /\ started'[t] \in [Mirrors(t) -> Nat]
  /\ blob' \in [Tasks -> Blobs] /\ outcome' \in [Tasks -> Outcomes] /\ event' \in [Tasks -> Event]

HoldsHost(t) == pc[t] \in {"global", "transfer"}
HoldsConnection(t) == pc[t] = "transfer"
HoldsLocal(t) == pc[t] \in {"copy", "import"}

PermitStep(t) ==
  /\ HoldsHost(t)' => url'[t] = url[t]
  /\ hostFree' = IF HoldsHost(t) <=> HoldsHost(t)' THEN hostFree
                 ELSE IF HoldsHost(t)' THEN [hostFree EXCEPT ![Host(t)] = @ - 1]
                 ELSE [hostFree EXCEPT ![Host(t)] = @ + 1]
  /\ connFree' = IF HoldsConnection(t) <=> HoldsConnection(t)' THEN connFree
                 ELSE IF HoldsConnection(t)' THEN connFree - 1 ELSE connFree + 1
  /\ localFree' = IF HoldsLocal(t) <=> HoldsLocal(t)' THEN localFree
                  ELSE IF HoldsLocal(t)' THEN localFree - 1 ELSE localFree + 1

TaskStep(t) == Frame(t) /\ Typed /\ PermitStep(t) /\ TaskInv(t)'

\* run_attempts may return `error' after the attempts it has made.
MayReturn(t, error, n) ==
  /\ pc[t] \in Waiting \cup {"start"} /\ n = Made(t)
  /\ pc[t] = "start" => Origin[t] = "Repository"
  /\ \/ error = "cancelled" /\ token
     \/ error \in AnswerKinds /\ pc[t] = "transfer" /\ ~CanRetry(t, error)

LEMMA EventKept ==
  ASSUME Inv, NEW t \in Tasks, NEW k \in Kinds, NEW n \in Nat, Emit(t, k, n)
  PROVE  event' \in [Tasks -> Event] /\ event'[t] = [kind |-> k, url |-> url[t], attempt |-> n]
         /\ \A s \in Tasks \ {t} : event'[s] = event[s]
<1>1. [kind |-> k, url |-> url[t], attempt |-> n] \in Event
  BY DEF Inv, TypeInv, Event
<1> QED
  BY <1>1 DEF Emit, Inv, TypeInv

LEMMA WalksOn ==
  ASSUME Inv, NEW t \in Tasks, NEW error, NEW n, MayReturn(t, error, n), WalkOn(t, error, n),
         token' = token, signalled' = signalled, started' = started,
         event' \in [Tasks -> Event], \A s \in Tasks \ {t} : event'[s] = event[s],
         event'[t].kind # "Started"
  PROVE  Frame(t) /\ Typed /\ TaskInv(t)'
<1>0. n \in Nat
  <2>1. n = Made(t) /\ index[t] \in Nat \ {0}
    BY DEF MayReturn, Inv, TypeInv
  <2> QED
    BY <2>1 DEF Made
<1>1. Origin[t] = "Http" /\ pc[t] \in Waiting /\ url[t] \in Mirrors(t)
  <2>1. Origin[t] = "Http"
    BY DEF WalkOn
  <2>2. pc[t] \in Waiting
    BY <2>1 DEF MayReturn
  <2> QED
    BY <2>1, <2>2 DEF Inv, TaskInv, Shape
<1>2. /\ spent' = [spent EXCEPT ![t][url[t]] = @ + n]
      /\ worth' = [worth EXCEPT ![t][url[t]] = (error = "transient")]
      /\ url' = [url EXCEPT ![t] = @ + 1] /\ index' = [index EXCEPT ![t] = 1]
      /\ pc' = [pc EXCEPT ![t] = "walk"] /\ pass' = pass /\ outcome' = outcome
  BY DEF WalkOn, Record, Goto
<1>3. PICK b \in Removed(t) : blob' = [blob EXCEPT ![t] = b]
  BY DEF WalkOn
<1>4. b \in Blobs
  BY DEF Removed, Inv, TypeInv, Blobs
<1>5. /\ spent'[t] \in [Mirrors(t) -> Nat] /\ worth'[t] \in [Mirrors(t) -> BOOLEAN]
      /\ spent'[t][url[t]] = spent[t][url[t]] + n /\ (worth'[t][url[t]] <=> error = "transient")
      /\ \A i \in Mirrors(t) : i # url[t] => spent'[t][i] = spent[t][i] /\ worth'[t][i] = worth[t][i]
      /\ \A s \in Tasks \ {t} : spent'[s] = spent[s] /\ worth'[s] = worth[s]
  <2>1. /\ DOMAIN spent = Tasks /\ spent[t] \in [Mirrors(t) -> Nat]
        /\ DOMAIN worth = Tasks /\ worth[t] \in [Mirrors(t) -> BOOLEAN]
    BY DEF Inv, TypeInv
  <2>2. /\ spent'[t] = [spent[t] EXCEPT ![url[t]] = @ + n]
        /\ \A s \in Tasks \ {t} : spent'[s] = spent[s]
    BY <1>2, <2>1
  <2>3. /\ worth'[t] = [worth[t] EXCEPT ![url[t]] = (error = "transient")]
        /\ \A s \in Tasks \ {t} : worth'[s] = worth[s]
    BY <1>2, <2>1
  <2>4. /\ spent'[t] \in [Mirrors(t) -> Nat] /\ spent'[t][url[t]] = spent[t][url[t]] + n
        /\ \A i \in Mirrors(t) : i # url[t] => spent'[t][i] = spent[t][i]
    BY <1>0, <1>1, <2>1, <2>2
  <2>5. /\ worth'[t] \in [Mirrors(t) -> BOOLEAN] /\ worth'[t][url[t]] = (error = "transient")
        /\ \A i \in Mirrors(t) : i # url[t] => worth'[t][i] = worth[t][i]
    BY <1>1, <2>1, <2>3
  <2> QED
    BY <2>2, <2>3, <2>4, <2>5
<1>6. Frame(t)
  BY <1>2, <1>3, <1>5 DEF Frame, Inv, TypeInv
<1>7. Typed
  BY <1>2, <1>3, <1>4, <1>5 DEF Typed, Inv, TypeInv, Places
<1>8. Shape(t)' /\ Tidy(t)'
  BY <1>1, <1>2, <1>3 DEF Inv, TypeInv, TaskInv, Shape, Tidy, Waiting, Removed, Blobs
<1>9. Ledger(t)'
  <2> SUFFICES ASSUME NEW i \in Mirrors(t)
               PROVE  started[t][i] = spent'[t][i] + IF i = url'[t] THEN Made(t)' ELSE 0
    BY DEF Ledger
  <2>1. Made(t)' = 0
    BY <1>2 DEF Made, Inv, TypeInv
  <2>2. started[t][i] = spent[t][i] + IF i = url[t] THEN Made(t) ELSE 0
    BY <1>1 DEF Inv, TaskInv, Ledger, InWalk
  <2>3. spent'[t][i] \in Nat /\ spent[t][i] \in Nat
    BY <1>5 DEF Inv, TypeInv
  <2>4. n = Made(t)
    BY DEF MayReturn
  <2> QED
    BY <1>0, <1>5, <2>1, <2>2, <2>3, <2>4
<1>10. /\ url[t] \in Nat \ {0} /\ url'[t] = url[t] + 1 /\ pass'[t] = pass[t] /\ pc'[t] = "walk"
       /\ index[t] \in Nat \ {0} /\ n = Made(t)
       /\ \A i \in Mirrors(t) : i \in Nat /\ spent[t][i] \in Nat /\ spent'[t][i] \in Nat
  <2>1. /\ url[t] \in Nat \ {0} /\ url'[t] = url[t] + 1 /\ pass'[t] = pass[t] /\ pc'[t] = "walk"
        /\ index[t] \in Nat \ {0}
    BY <1>2 DEF Inv, TypeInv
  <2>2. spent[t] \in [Mirrors(t) -> Nat]
    BY DEF Inv, TypeInv
  <2>3. Mirrors(t) \subseteq Nat
    BY MirrorNumbers
  <2>4. n = Made(t)
    BY DEF MayReturn
  <2> QED
    BY <1>5, <2>1, <2>2, <2>3, <2>4
<1>11. error = "transient" => n = index[t] /\ index[t] >= AttemptsHere(t)
  <2>1. error = "transient" => pc[t] = "transfer" /\ ~CanRetry(t, error)
    BY DEF MayReturn
  <2>2. AttemptsHere(t) \in Int
    BY LimitsAssumption DEF AttemptsHere
  <2> QED
    BY <1>1, <1>10, <2>1, <2>2 DEF CanRetry, Made
<1>12. ~token => n = index[t]
  BY <1>10 DEF MayReturn, Made
<1>13. index[t] <= AttemptsHere(t) /\ n <= index[t]
  BY <1>1, <1>10 DEF Inv, TaskInv, Shape, Made
<1>14. FirstWalk(t)'
  <2> SUFFICES ASSUME pass[t] = 1, NEW i \in Mirrors(t)
               PROVE  IF i < url'[t] THEN spent'[t][i] <= 1 /\ (worth'[t][i] \/ ~token => spent'[t][i] = 1)
                                     ELSE spent'[t][i] = 0
    BY <1>10 DEF FirstWalk
  <2>1. AttemptsHere(t) = 1
    BY <1>1 DEF AttemptsHere
  <2>2. IF i < url[t] THEN spent[t][i] <= 1 /\ (worth[t][i] \/ ~token => spent[t][i] = 1)
                      ELSE spent[t][i] = 0
    BY <1>1 DEF Inv, TaskInv, FirstWalk, InWalk
  <2>3. CASE i = url[t]
    BY <1>0, <1>5, <1>10, <1>11, <1>12, <1>13, <2>1, <2>2, <2>3
  <2>4. CASE i # url[t]
    BY <1>5, <1>10, <2>2, <2>4
  <2> QED
    BY <2>3, <2>4
<1>15. SecondWalk(t)'
  <2> SUFFICES ASSUME pass[t] = 2, NEW i \in Mirrors(t)
               PROVE  /\ token \/ spent'[t][i] > 0
                      /\ spent'[t][i] <= Attempts
                      /\ worth'[t][i] => spent'[t][i] = IF i < url'[t] THEN Attempts ELSE 1
    BY <1>10 DEF SecondWalk, Waiting
  <2>1. AttemptsHere(t) = Attempts - 1 /\ Attempts \in Nat
    BY <1>1, LimitsAssumption DEF AttemptsHere
  <2>2. /\ token \/ spent[t][i] > 0
        /\ spent[t][i] <= Attempts
        /\ worth[t][i] => spent[t][i] = IF i < url[t] THEN Attempts ELSE 1
    BY <1>1 DEF Inv, TaskInv, SecondWalk, InWalk
  <2>3. worth[t][url[t]]
    BY <1>1 DEF Inv, TaskInv, SecondWalk, InWalk
  <2>4. CASE i = url[t]
    BY <1>0, <1>5, <1>10, <1>11, <1>13, <2>1, <2>2, <2>3, <2>4
  <2>5. CASE i # url[t]
    BY <1>5, <1>10, <2>2, <2>5
  <2> QED
    BY <2>4, <2>5
<1>16. Exhausted(t)' /\ Budget(t)' /\ Announced(t)'
  <2>1. outcome[t] = "none"
    BY <1>1 DEF Inv, TaskInv, Shape, Waiting
  <2> QED
    BY <1>1, <1>2, <1>10, <2>1 DEF Inv, TaskInv, Exhausted, Budget, Announced
<1> QED
  BY <1>6, <1>7, <1>8, <1>9, <1>14, <1>15, <1>16 DEF TaskInv

\* A step that only moves t out of the walk, or to its end: what is left to show
\* is the parts of the invariant that speak of the new place.
LEMMA Leaves ==
  ASSUME Inv, NEW t \in Tasks, NEW p \in Places \ InWalk, pc' = [pc EXCEPT ![t] = p],
         UNCHANGED <<token, signalled, walk, started>>,
         blob' \in [Tasks -> Blobs], \A s \in Tasks \ {t} : blob'[s] = blob[s],
         outcome' \in [Tasks -> Outcomes], \A s \in Tasks \ {t} : outcome'[s] = outcome[s],
         event' \in [Tasks -> Event], \A s \in Tasks \ {t} : event'[s] = event[s],
         event'[t].kind # "Started" \/ event'[t] = event[t],
         outcome'[t] # "none" => p \in {"remove", "done"},
         p = "remove" => Origin[t] = "Repository",
         p = "finalize" => Origin[t] = "Http",
         p \in {"copyWait", "copy"} => Origin[t] = "Path",
         Exhausted(t)', Tidy(t)'
  PROVE  Frame(t) /\ Typed /\ TaskInv(t)'
<1>1. pc'[t] = p /\ p \notin InWalk /\ \A s \in Tasks \ {t} : pc'[s] = pc[s]
  BY DEF Inv, TypeInv
<1>2. Frame(t)
  BY <1>1 DEF Frame, walk
<1>3. Typed
  BY DEF Typed, Inv, TypeInv, walk
<1>4. Shape(t)'
  <2>1. p \notin Waiting /\ p \notin {"walk", "start", "resume", "backoff"}
    BY <1>1 DEF InWalk, Waiting
  <2>2. UNCHANGED <<pass, url, spent>> /\ Shape(t)
    BY DEF Inv, TaskInv, walk
  <2> QED
    BY <1>1, <2>1, <2>2 DEF Shape
<1>5. Ledger(t)' /\ FirstWalk(t)' /\ SecondWalk(t)'
  BY <1>1 DEF Ledger, FirstWalk, SecondWalk
<1>6. Budget(t)' /\ Announced(t)'
  BY DEF Inv, TaskInv, Budget, Announced
<1> QED
  BY <1>2, <1>3, <1>4, <1>5, <1>6 DEF TaskInv

LEMMA RequestFails ==
  ASSUME Inv, NEW t \in Tasks, NEW error, FetchFailed(t, error), 
         UNCHANGED <<token, signalled, started>>,
         event' \in [Tasks -> Event], \A s \in Tasks \ {t} : event'[s] = event[s],
         event'[t].kind # "Started"
  PROVE  Frame(t) /\ Typed /\ TaskInv(t)'
<1>1. /\ outcome' = [outcome EXCEPT ![t] = IF error = "cancelled" THEN "cancelled" ELSE "failed"]
      /\ blob' = blob
  BY DEF FetchFailed
<1>2. pc' = [pc EXCEPT ![t] = "remove"] /\ UNCHANGED walk /\ Origin[t] = "Repository"
  BY DEF FetchFailed, Goto
<1>3. "remove" \in Places \ InWalk
  BY DEF Places, InWalk, Waiting
<1>4. blob' \in [Tasks -> Blobs] /\ \A s \in Tasks \ {t} : blob'[s] = blob[s]
  BY <1>1 DEF Inv, TypeInv
<1>5. outcome' \in [Tasks -> Outcomes] /\ \A s \in Tasks \ {t} : outcome'[s] = outcome[s]
  BY <1>1 DEF Inv, TypeInv, Outcomes
<1>6. Exhausted(t)'
  BY <1>2 DEF Exhausted
<1>7. Tidy(t)'
  <2>1. pc'[t] = "remove"
    BY <1>2 DEF Inv, TypeInv
  <2> QED
    BY <2>1 DEF Tidy
<1> QED
  BY <1>2, <1>3, <1>4, <1>5, <1>6, <1>7, Leaves

LEMMA PullFails ==
  ASSUME Inv, NEW t \in Tasks, PullFailed(t), 
         UNCHANGED <<token, signalled, started, event>>, outcome[t] = "none"
  PROVE  Frame(t) /\ Typed /\ TaskInv(t)'
<1>1. PICK b \in Removed(t) : blob' = [blob EXCEPT ![t] = b]
  BY DEF PullFailed
<1>2. pc' = [pc EXCEPT ![t] = "settle"] /\ UNCHANGED <<walk, outcome>> /\ Origin[t] = "OciRegistry"
  BY DEF PullFailed, Goto
<1>3. "settle" \in Places \ InWalk
  BY DEF Places, InWalk, Waiting
<1>4. blob' \in [Tasks -> Blobs] /\ blob'[t] = b /\ \A s \in Tasks \ {t} : blob'[s] = blob[s]
  BY <1>1 DEF Removed, Inv, TypeInv, Blobs
<1>5. outcome' \in [Tasks -> Outcomes] /\ event' \in [Tasks -> Event]
  BY <1>2 DEF Inv, TypeInv
<1>6. Exhausted(t)'
  BY <1>2 DEF Exhausted
<1>7. Tidy(t)'
  <2>1. pc'[t] = "settle"
    BY <1>2 DEF Inv, TypeInv
  <2> QED
    BY <1>4, <2>1 DEF Tidy, Removed
<1> QED
  BY <1>2, <1>3, <1>4, <1>5, <1>6, <1>7, Leaves

\* run_attempts returns an error to whoever called it.
LEMMA Returns ==
  ASSUME Inv, NEW t \in Tasks, NEW error, NEW n, MayReturn(t, error, n), ReturnError(t, error, n),
         UNCHANGED <<token, signalled, started>>,
         IF Origin[t] = "OciRegistry" THEN UNCHANGED event
         ELSE \E k \in Kinds \ {"Started"}, m \in Nat : Emit(t, k, m)
  PROVE  /\ Frame(t) /\ Typed /\ TaskInv(t)'
         /\ pc'[t] \in {"walk", "remove", "settle"}
<1>1. outcome[t] = "none"
  BY DEF MayReturn, Inv, TaskInv, Shape, Waiting
<1>2. ASSUME Origin[t] # "OciRegistry"
      PROVE  /\ event' \in [Tasks -> Event] /\ \A s \in Tasks \ {t} : event'[s] = event[s]
             /\ event'[t].kind # "Started"
  <2>1. PICK k \in Kinds \ {"Started"}, m \in Nat : Emit(t, k, m)
    BY <1>2
  <2>2. k \in Kinds /\ k # "Started"
    OBVIOUS
  <2>3. /\ event' \in [Tasks -> Event] /\ event'[t] = [kind |-> k, url |-> url[t], attempt |-> m]
        /\ \A s \in Tasks \ {t} : event'[s] = event[s]
    BY <2>1, <2>2, EventKept
  <2> QED
    BY <2>2, <2>3
<1>3. CASE WalkOn(t, error, n)
  <2>1. Origin[t] = "Http" /\ pc' = [pc EXCEPT ![t] = "walk"]
    BY <1>3 DEF WalkOn, Goto
  <2>2. pc'[t] = "walk"
    BY <2>1 DEF Inv, TypeInv
  <2> QED
    BY <1>2, <1>3, <2>1, <2>2, WalksOn
<1>4. CASE FetchFailed(t, error)
  <2>1. Origin[t] = "Repository" /\ pc' = [pc EXCEPT ![t] = "remove"]
    BY <1>4 DEF FetchFailed, Goto
  <2>2. pc'[t] = "remove"
    BY <2>1 DEF Inv, TypeInv
  <2> QED
    BY <1>2, <1>4, <2>1, <2>2, RequestFails
<1>5. CASE PullFailed(t)
  <2>1. Origin[t] = "OciRegistry" /\ pc' = [pc EXCEPT ![t] = "settle"]
    BY <1>5 DEF PullFailed, Goto
  <2>2. pc'[t] = "settle"
    BY <2>1 DEF Inv, TypeInv
  <2> QED
    BY <1>1, <1>5, <2>1, <2>2, PullFails
<1> QED
  BY <1>3, <1>4, <1>5 DEF ReturnError

LEMMA Cancels ==
  ASSUME Inv, token, NEW t \in Tasks, NEW n, ReturnCancelled(t, n), n = Made(t),
         pc[t] \in Waiting \/ (pc[t] = "start" /\ Origin[t] = "Repository"),
         UNCHANGED <<token, signalled, started>>
  PROVE  /\ Frame(t) /\ Typed /\ TaskInv(t)'
         /\ pc'[t] \in {"walk", "remove", "settle"}
<1>1. MayReturn(t, "cancelled", n)
  <2>1. pc[t] \in Waiting => pc[t] # "start"
    BY DEF Waiting
  <2> QED
    BY <2>1 DEF MayReturn
<1>2. ReturnError(t, "cancelled", n)
  BY DEF ReturnCancelled
<1>3. Origin[t] # "OciRegistry" => Emit(t, "Cancelled", 0)
  BY DEF ReturnCancelled, EmitCancelled
<1>4. Origin[t] = "OciRegistry" => UNCHANGED event
  BY DEF ReturnCancelled, EmitCancelled
<1>5. "Cancelled" \in Kinds \ {"Started"} /\ 0 \in Nat
  BY DEF Kinds
<1>6. Origin[t] # "OciRegistry" => \E k \in Kinds \ {"Started"}, m \in Nat : Emit(t, k, m)
  BY <1>3, <1>5
<1>7. IF Origin[t] = "OciRegistry" THEN UNCHANGED event
      ELSE \E k \in Kinds \ {"Started"}, m \in Nat : Emit(t, k, m)
  BY <1>4, <1>6
<1> QED
  BY <1>1, <1>2, <1>7, Returns

\* Who waits or works where, and what that means for the permits.
LEMMA ReleasesAll ==
  ASSUME Inv, NEW t \in Tasks, Frame(t), Typed, TaskInv(t)', pc'[t] \in {"walk", "remove", "settle"},
         hostFree' = (IF HoldsHost(t) THEN [hostFree EXCEPT ![Host(t)] = @ + 1] ELSE hostFree),
         connFree' = (IF HoldsConnection(t) THEN connFree + 1 ELSE connFree),
         localFree' = (IF HoldsLocal(t) THEN localFree + 1 ELSE localFree)
  PROVE  TaskStep(t)
BY DEF TaskStep, PermitStep, HoldsHost, HoldsConnection, HoldsLocal

\* t goes on to p without touching a permit, and neither place needs one.
LEMMA NeedsNone ==
  ASSUME Inv, NEW t \in Tasks, Frame(t), Typed, TaskInv(t)',
         pc[t] \notin {"global", "transfer", "copy", "import"},
         pc'[t] \notin {"global", "transfer", "copy", "import"}, UNCHANGED permits
  PROVE  TaskStep(t)
BY DEF TaskStep, PermitStep, HoldsHost, HoldsConnection, HoldsLocal, permits

\* A move inside the walk that makes no attempt.
LEMMA MovesOn ==
  ASSUME Inv, NEW t \in Tasks, NEW p \in InWalk, pc' = [pc EXCEPT ![t] = p], pc[t] \in InWalk,
         UNCHANGED <<token, signalled, walk, blob, outcome, started>>,
         event' \in [Tasks -> Event], \A s \in Tasks \ {t} : event'[s] = event[s],
         event'[t].kind # "Started" \/ event'[t] = event[t],
         Made(t)' = Made(t), Shape(t)',
         p \in {"walk", "start", "resume"} => pc[t] \in {"walk", "start", "resume"},
         pass[t] = 2 /\ p \in Waiting => pc[t] \in Waiting
  PROVE  Frame(t) /\ Typed /\ TaskInv(t)' /\ pc'[t] = p
<1>1. pc'[t] = p /\ \A s \in Tasks \ {t} : pc'[s] = pc[s]
  BY DEF Inv, TypeInv
<1>2. p \in Places /\ p \notin {"finalize", "importWait", "import", "settle", "done"}
  BY DEF Places, InWalk, Waiting
<1>3. Frame(t)
  BY <1>1 DEF Frame, walk
<1>4. Typed
  BY <1>2 DEF Typed, Inv, TypeInv, walk
<1>5. Ledger(t)' /\ FirstWalk(t)' /\ SecondWalk(t)'
  BY <1>1 DEF Inv, TaskInv, Ledger, FirstWalk, SecondWalk, walk
<1>6. Exhausted(t)' /\ Budget(t)' /\ Announced(t)'
  BY <1>1, <1>2 DEF Inv, TaskInv, Exhausted, Budget, Announced, walk
<1>7. Tidy(t)'
  BY <1>1, <1>2 DEF Inv, TaskInv, Tidy
<1> QED
  BY <1>1, <1>3, <1>4, <1>5, <1>6, <1>7 DEF TaskInv

----------------------------------------------------------------------------
(* The steps that end because the run is cancelled.                        *)
LEMMA MadeSoFar ==
  ASSUME Inv, NEW t \in Tasks
  PROVE  /\ pc[t] \in {"host", "global", "start", "resume"} => Made(t) = index[t] - 1
         /\ pc[t] \in {"transfer", "backoff"} => Made(t) = index[t]
BY DEF Made

LEMMA CancelledSteps ==
  ASSUME Inv, NEW t \in Tasks,
         \/ (TakeHost(t) /\ token) \/ (TakeConnection(t) /\ token)
         \/ WakeHostWaiter(t) \/ WakeConnectionWaiter(t) \/ AbortTransfer(t) \/ WakeBackoff(t)
         \/ (BackoffElapses(t) /\ token) \/ (ResumeElapses(t) /\ token)
         \/ (Begin(t) /\ token /\ Origin[t] = "Repository")
  PROVE  TaskStep(t)
<1>1. token
  BY DEF Inv, TypeInv, WakeHostWaiter, WakeConnectionWaiter, AbortTransfer, WakeBackoff
<1>2. UNCHANGED <<token, signalled, started>>
  BY <1>1 DEF TakeHost, TakeConnection, WakeHostWaiter, WakeConnectionWaiter, AbortTransfer, WakeBackoff,
     BackoffElapses, ResumeElapses, Begin
<1>3. \/ pc[t] \in {"host", "global", "resume", "start"} /\ ReturnCancelled(t, index[t] - 1)
      \/ pc[t] \in {"transfer", "backoff"} /\ ReturnCancelled(t, index[t])
  <2>1. CASE TakeHost(t) \/ TakeConnection(t) \/ WakeHostWaiter(t) \/ WakeConnectionWaiter(t)
    BY <1>1, <2>1 DEF TakeHost, TakeConnection, WakeHostWaiter, WakeConnectionWaiter
  <2>2. CASE AbortTransfer(t) \/ WakeBackoff(t) \/ BackoffElapses(t)
    BY <1>1, <2>2 DEF AbortTransfer, WakeBackoff, BackoffElapses
  <2>3. CASE ResumeElapses(t) \/ (Begin(t) /\ Origin[t] = "Repository")
    BY <1>1, <2>3 DEF ResumeElapses, Begin, Acquire
  <2> QED
    BY <2>1, <2>2, <2>3
<1>4. pc[t] \in Waiting \/ (pc[t] = "start" /\ Origin[t] = "Repository")
  BY <1>1 DEF TakeHost, TakeConnection, WakeHostWaiter, WakeConnectionWaiter, AbortTransfer, WakeBackoff,
     BackoffElapses, ResumeElapses, Begin, Waiting
<1>5. Frame(t) /\ Typed /\ TaskInv(t)' /\ pc'[t] \in {"walk", "remove", "settle"}
  BY <1>1, <1>2, <1>3, <1>4, MadeSoFar, Cancels
<1>6. pc[t] \notin {"copy", "import"}
  BY <1>4 DEF Waiting
<1>7. /\ hostFree' = IF HoldsHost(t) THEN [hostFree EXCEPT ![Host(t)] = @ + 1] ELSE hostFree
      /\ connFree' = IF HoldsConnection(t) THEN connFree + 1 ELSE connFree
      /\ localFree' = IF HoldsLocal(t) THEN localFree + 1 ELSE localFree
  BY <1>1, <1>6 DEF TakeHost, TakeConnection, WakeHostWaiter, WakeConnectionWaiter, AbortTransfer, WakeBackoff,
     BackoffElapses, ResumeElapses, Begin, HoldsHost, HoldsConnection, HoldsLocal, ReleaseHost,
     ReleaseConnection, permits
<1> QED
  BY <1>5, <1>7, ReleasesAll

----------------------------------------------------------------------------
(* The steps of the walk.                                                  *)
LEMMA TakeHostStep ==
  ASSUME Inv, NEW t \in Tasks, TakeHost(t), ~token
  PROVE  TaskStep(t)
<1>1. /\ pc[t] = "host" /\ pc' = [pc EXCEPT ![t] = "global"]
      /\ hostFree' = [hostFree EXCEPT ![Host(t)] = @ - 1]
      /\ UNCHANGED <<token, signalled, connFree, localFree, walk, blob, outcome, event, started>>
  BY DEF TakeHost, Goto
<1>2. pc'[t] = "global"
  BY <1>1 DEF Inv, TypeInv
<1>3. "global" \in InWalk /\ "host" \in InWalk /\ {"global", "host"} \subseteq Waiting
  BY DEF InWalk, Waiting
<1>4. UNCHANGED <<pass, url, index, spent>>
  BY <1>1 DEF walk
<1>5. Made(t)' = Made(t)
  BY <1>1, <1>2, <1>4 DEF Made
<1>6. Shape(t)'
  BY <1>1, <1>2, <1>3, <1>4 DEF Inv, TaskInv, Shape, AttemptsHere
<1>7. event' \in [Tasks -> Event]
  BY <1>1 DEF Inv, TypeInv
<1>8. Frame(t) /\ Typed /\ TaskInv(t)'
  BY <1>1, <1>3, <1>5, <1>6, <1>7, MovesOn
<1> QED
  BY <1>1, <1>2, <1>4, <1>8 DEF TaskStep, PermitStep, HoldsHost, HoldsConnection, HoldsLocal

LEMMA BeginStep ==
  ASSUME Inv, NEW t \in Tasks, Begin(t), ~(token /\ Origin[t] = "Repository")
  PROVE  TaskStep(t)
<1>1. pc[t] = "start" /\ UNCHANGED <<token, signalled, permits, walk, blob, outcome, event, started>>
  BY DEF Begin, Acquire
<1>2. pass' = pass /\ url' = url /\ index' = index /\ spent' = spent /\ worth' = worth
  BY <1>1 DEF walk
<1>3. event' \in [Tasks -> Event] /\ outcome[t] = "none" /\ index[t] = 1
  BY <1>1 DEF Inv, TypeInv, TaskInv, Shape
<1>4. ASSUME NEW p \in {"host", "walk"}, pc' = [pc EXCEPT ![t] = p],
             p = "walk" => Origin[t] = "Http",
             p = "host" => Origin[t] \in {"Repository", "OciRegistry"}
      PROVE  TaskStep(t)
  <2>1. pc'[t] = p
    BY <1>4 DEF Inv, TypeInv
  <2>2. p \in InWalk /\ pc[t] \in InWalk /\ (p \in Waiting => p = "host")
    BY <1>1, <1>4 DEF InWalk, Waiting
  <2>3. Made(t)' = Made(t)
    BY <1>1, <1>2, <1>4, <2>1 DEF Made
  <2>4. Origin[t] # "Http" => pass[t] = 1 /\ url[t] = 1
    BY DEF Inv, TaskInv, Shape
  <2>5. 1 <= AttemptsHere(t) \/ pass[t] = 2
    BY LimitsAssumption DEF AttemptsHere, Inv, TypeInv
  <2>6. p = "host" => url[t] \in Mirrors(t) /\ index[t] <= AttemptsHere(t)
    BY <1>3, <1>4, <2>4, <2>5, MirrorNumbers
  <2>7. AttemptsHere(t)' = AttemptsHere(t)
    BY <1>2 DEF AttemptsHere
  <2>8. Shape(t)'
    BY <1>1, <1>2, <1>3, <1>4, <2>1, <2>2, <2>6, <2>7 DEF Inv, TaskInv, Shape
  <2>9. pass[t] = 2 /\ p \in Waiting => pc[t] \in Waiting
    BY <1>4, <2>2, <2>4
  <2>10. Frame(t) /\ Typed /\ TaskInv(t)'
    BY <1>1, <1>3, <1>4, <2>2, <2>3, <2>8, <2>9, MovesOn
  <2> QED
    BY <1>1, <1>4, <2>1, <2>10, NeedsNone
<1>5. ASSUME NEW p \in {"settle", "copyWait"}, pc' = [pc EXCEPT ![t] = p],
             p = "settle" => token, p = "copyWait" => Origin[t] = "Path"
      PROVE  TaskStep(t)
  <2>1. pc'[t] = p
    BY <1>5 DEF Inv, TypeInv
  <2>2. p \in Places \ InWalk
    BY <1>5 DEF Places, InWalk, Waiting
  <2>3. Exhausted(t)'
    BY <1>1, <1>3, <1>5, <2>1 DEF Exhausted
  <2>4. Tidy(t)'
    BY <1>1, <1>5, <2>1 DEF Inv, TaskInv, Tidy
  <2>5. blob' \in [Tasks -> Blobs] /\ outcome' \in [Tasks -> Outcomes]
    BY <1>1 DEF Inv, TypeInv
  <2>6. Frame(t) /\ Typed /\ TaskInv(t)'
    BY <1>1, <1>3, <1>5, <2>2, <2>3, <2>4, <2>5, Leaves
  <2> QED
    BY <1>1, <1>5, <2>1, <2>6, NeedsNone
<1>6. CASE Origin[t] = "Repository"
  <2>1. pc' = [pc EXCEPT ![t] = "host"]
    BY <1>6 DEF Begin, Acquire, Goto
  <2> QED
    BY <1>4, <1>6, <2>1
<1>7. CASE Origin[t] # "Repository" /\ token
  <2>1. pc' = [pc EXCEPT ![t] = "settle"]
    BY <1>7 DEF Begin, Goto
  <2> QED
    BY <1>5, <1>7, <2>1
<1>8. CASE Origin[t] # "Repository" /\ ~token
  <2>1. pc' = [pc EXCEPT ![t] = CASE Origin[t] = "Http" -> "walk"
                                  [] Origin[t] = "OciRegistry" -> "host"
                                  [] Origin[t] = "Path" -> "copyWait"]
    BY <1>8 DEF Begin, Goto
  <2>2. CASE Origin[t] = "Http"
    <3>1. pc' = [pc EXCEPT ![t] = "walk"]
      BY <2>1, <2>2
    <3> QED
      BY <1>4, <2>2, <3>1
  <2>3. CASE Origin[t] = "OciRegistry"
    <3>1. pc' = [pc EXCEPT ![t] = "host"]
      BY <2>1, <2>3
    <3> QED
      BY <1>4, <2>3, <3>1
  <2>4. CASE Origin[t] = "Path"
    <3>1. pc' = [pc EXCEPT ![t] = "copyWait"]
      BY <2>1, <2>4
    <3> QED
      BY <1>5, <2>4, <3>1
  <2> QED
    BY <1>8, <2>2, <2>3, <2>4, MirrorNumbers
<1> QED
  BY <1>6, <1>7, <1>8

LEMMA StartAttemptStep ==
  ASSUME Inv, NEW t \in Tasks, TakeConnection(t), ~token
  PROVE  TaskStep(t)
<1>1. /\ pc[t] = "global" /\ pc' = [pc EXCEPT ![t] = "transfer"] /\ connFree' = connFree - 1
      /\ started' = [started EXCEPT ![t][url[t]] = @ + 1]
      /\ IF Origin[t] = "OciRegistry" THEN UNCHANGED event ELSE Emit(t, "Started", AttemptNumber(t))
      /\ UNCHANGED <<token, signalled, hostFree, localFree, walk, blob, outcome>>
  BY DEF TakeConnection, StartAttempt, Goto
<1>2. pc'[t] = "transfer" /\ \A s \in Tasks \ {t} : pc'[s] = pc[s]
  BY <1>1 DEF Inv, TypeInv
<1>3. pass' = pass /\ url' = url /\ index' = index /\ spent' = spent /\ worth' = worth
  BY <1>1 DEF walk
<1>4. /\ url[t] \in Mirrors(t) /\ index[t] \in Nat \ {0} /\ index[t] <= AttemptsHere(t)
      /\ pass[t] \in {1, 2} /\ spent[t] \in [Mirrors(t) -> Nat] /\ started[t] \in [Mirrors(t) -> Nat]
      /\ outcome[t] = "none" /\ (Origin[t] # "Http" => pass[t] = 1 /\ spent[t][url[t]] = 0)
  BY <1>1 DEF Inv, TypeInv, TaskInv, Shape, Waiting
<1>5. started'[t] = [started[t] EXCEPT ![url[t]] = @ + 1] /\ \A s \in Tasks \ {t} : started'[s] = started[s]
  BY <1>1 DEF Inv, TypeInv
<1>6. /\ started'[t] \in [Mirrors(t) -> Nat] /\ started'[t][url[t]] = started[t][url[t]] + 1
      /\ \A i \in Mirrors(t) : i # url[t] => started'[t][i] = started[t][i]
  BY <1>4, <1>5
<1>7. \A i \in Mirrors(t) : started[t][i] = spent[t][i] + IF i = url[t] THEN index[t] - 1 ELSE 0
  BY <1>1 DEF Inv, TaskInv, Ledger, InWalk, Waiting, Made
<1>8. pass[t] = 1 => spent[t][url[t]] = 0
  <2>1. Origin[t] = "Http" /\ pass[t] = 1 => spent[t][url[t]] = 0
    <3>1. url[t] \in Nat
      BY DEF Inv, TypeInv
    <3> QED
      BY <1>1, <1>4, <3>1 DEF Inv, TaskInv, FirstWalk, InWalk, Waiting
  <2> QED
    BY <1>4, <2>1
<1>9. pass[t] = 2 => spent[t][url[t]] = 1 /\ Attempts > 1
  <2>1. url[t] \in Nat
    BY DEF Inv, TypeInv
  <2> QED
    BY <1>1, <1>4, <2>1 DEF Inv, TaskInv, SecondWalk, InWalk, Waiting
<1>10. AttemptNumber(t) = started'[t][url[t]] /\ AttemptNumber(t) \in Nat
  BY <1>4, <1>6, <1>7, <1>8 DEF AttemptNumber, SpentBefore
<1>11. /\ event' \in [Tasks -> Event] /\ (\A s \in Tasks \ {t} : event'[s] = event[s])
       /\ Announced(t)'
  <2>1. CASE Origin[t] = "OciRegistry"
    BY <1>1, <2>1 DEF Inv, TypeInv, TaskInv, Announced
  <2>2. CASE Origin[t] # "OciRegistry"
    <3>1. "Started" \in Kinds
      BY DEF Kinds
    <3>2. /\ event' \in [Tasks -> Event] /\ (\A s \in Tasks \ {t} : event'[s] = event[s])
          /\ event'[t] = [kind |-> "Started", url |-> url[t], attempt |-> AttemptNumber(t)]
      BY <1>1, <1>10, <2>2, <3>1, EventKept
    <3> QED
      BY <1>4, <1>10, <2>2, <3>2 DEF Announced
  <2> QED
    BY <2>1, <2>2
<1>12. Frame(t)
  BY <1>1, <1>2, <1>3, <1>5, <1>11 DEF Frame
<1>13. "transfer" \in Places /\ "transfer" \in Waiting /\ "transfer" \in InWalk
       /\ "global" \in Waiting /\ "global" \in InWalk
  BY DEF Places, Waiting, InWalk
<1>14. Typed
  <2>1. DOMAIN started' = Tasks
    BY <1>1 DEF Inv, TypeInv
  <2>2. \A s \in Tasks : started'[s] \in [Mirrors(s) -> Nat]
    BY <1>5, <1>6 DEF Inv, TypeInv
  <2>3. pc' \in [Tasks -> Places]
    BY <1>1, <1>13 DEF Inv, TypeInv
  <2> QED
    BY <1>1, <1>3, <1>11, <2>1, <2>2, <2>3 DEF Typed, Inv, TypeInv
<1>15. Shape(t)'
  BY <1>1, <1>2, <1>3, <1>4, <1>13 DEF Inv, TaskInv, Shape, AttemptsHere
<1>16. Ledger(t)'
  <2> SUFFICES ASSUME NEW i \in Mirrors(t)
               PROVE  started'[t][i] = spent[t][i] + IF i = url[t] THEN Made(t)' ELSE 0
    BY <1>3 DEF Ledger
  <2>1. Made(t)' = index[t]
    BY <1>2, <1>3 DEF Made
  <2> QED
    BY <1>4, <1>6, <1>7, <2>1
<1>17. FirstWalk(t)' /\ SecondWalk(t)'
  BY <1>1, <1>2, <1>3, <1>13 DEF Inv, TaskInv, FirstWalk, SecondWalk
<1>18. Exhausted(t)'
  BY <1>1, <1>2, <1>4 DEF Exhausted
<1>19. Tidy(t)'
  BY <1>2 DEF Tidy
<1>20. Budget(t)'
  <2>1. Attempts \in Nat \ {0}
    BY LimitsAssumption
  <2>2. AttemptsHere(t) \in Int /\ AttemptsHere(t) <= Attempts /\ (pass[t] = 2 /\ Origin[t] # "Repository" => AttemptsHere(t) = Attempts - 1)
    BY <2>1 DEF AttemptsHere
  <2> DEFINE Typical(i) == started'[t][i] \in Nat /\ started[t][i] \in Nat /\ spent[t][i] \in Nat
  <2>0. \A i \in Mirrors(t) : Typical(i)
    BY <1>4, <1>6
  <2>3. started'[t][url[t]] <= Attempts
    <3>1. started'[t][url[t]] = spent[t][url[t]] + index[t]
      BY <1>4, <1>6, <1>7, <2>0
    <3>2. CASE pass[t] = 1
      BY <1>4, <1>8, <2>1, <2>2, <3>1, <3>2
    <3>3. CASE pass[t] = 2
      <4>1. Origin[t] # "Repository"
        BY <1>4, <3>3
      <4> QED
        BY <1>4, <1>9, <2>1, <2>2, <3>1, <3>3, <4>1
    <3> QED
      BY <1>4, <3>2, <3>3
  <2>4. \A i \in Mirrors(t) : started'[t][i] <= Attempts
    BY <1>6, <2>3 DEF Inv, TaskInv, Budget
  <2>5. ASSUME Origin[t] = "Http", NEW i \in Mirrors(t), started'[t][i] > 1, NEW j \in Mirrors(t)
        PROVE  started'[t][j] > 0
    <3>1. started'[t][j] >= started[t][j] /\ started[t][j] \in Nat
      <4>1. Typical(j)
        BY <2>0
      <4> QED
        BY <1>6, <4>1
    <3>2. CASE started[t][i] > 1
      <4>1. started[t][j] > 0
        BY <2>5, <3>2 DEF Inv, TaskInv, Budget
      <4>2. Typical(j)
        BY <2>0
      <4> QED
        BY <3>1, <4>1, <4>2
    <3>3. CASE ~(started[t][i] > 1)
      <4>1. i = url[t]
        BY <1>6, <2>5, <3>3
      <4>2. pass[t] # 1
        <5>1. pass[t] = 1 => AttemptsHere(t) = 1
          BY <2>5 DEF AttemptsHere
        <5>2. started'[t][i] = spent[t][i] + index[t]
          BY <1>4, <1>6, <1>7, <2>0, <4>1
        <5> QED
          BY <1>4, <1>8, <2>5, <4>1, <5>1, <5>2
      <4>3. spent[t][j] > 0
        BY <1>1, <1>4, <1>13, <4>2 DEF Inv, TaskInv, SecondWalk
      <4>4. started[t][j] >= spent[t][j]
        BY <1>4, <1>7, <2>0
      <4>5. Typical(j)
        BY <2>0
      <4> QED
        BY <3>1, <4>3, <4>4, <4>5
    <3> QED
      BY <3>2, <3>3
  <2> QED
    BY <2>4, <2>5 DEF Budget
<1>21. TaskInv(t)'
  BY <1>11, <1>15, <1>16, <1>17, <1>18, <1>19, <1>20 DEF TaskInv
<1> QED
  BY <1>1, <1>2, <1>3, <1>12, <1>14, <1>21 DEF TaskStep, PermitStep, HoldsHost, HoldsConnection, HoldsLocal

LEMMA FirstPassStep ==
  ASSUME Inv, NEW t \in Tasks, FirstPass(t)
  PROVE  TaskStep(t)
<1>1. /\ pc[t] = "walk" /\ pass[t] = 1 /\ ~PassOver(t) /\ pc' = [pc EXCEPT ![t] = IF token THEN "settle" ELSE "host"]
      /\ UNCHANGED <<token, signalled, permits, walk, blob, outcome, event, started>>
  BY DEF FirstPass, Goto
<1>2. pass' = pass /\ url' = url /\ index' = index /\ spent' = spent
  BY <1>1 DEF walk
<1>3. /\ event' \in [Tasks -> Event] /\ blob' \in [Tasks -> Blobs] /\ outcome' \in [Tasks -> Outcomes]
      /\ outcome[t] = "none" /\ index[t] = 1 /\ Origin[t] = "Http" /\ url[t] \in Nat \ {0}
  BY <1>1 DEF Inv, TypeInv, TaskInv, Shape
<1>4. CASE token
  <2>1. pc'[t] = "settle" /\ pc' = [pc EXCEPT ![t] = "settle"]
    BY <1>1, <1>4 DEF Inv, TypeInv
  <2>2. "settle" \in Places \ InWalk
    BY DEF Places, InWalk, Waiting
  <2>3. Exhausted(t)'
    BY <1>1, <1>4 DEF Exhausted
  <2>4. Tidy(t)'
    BY <1>1, <2>1 DEF Inv, TaskInv, Tidy
  <2>5. Frame(t) /\ Typed /\ TaskInv(t)'
    BY <1>1, <1>3, <2>1, <2>2, <2>3, <2>4, Leaves
  <2> QED
    BY <1>1, <2>1, <2>5, NeedsNone
<1>5. CASE ~token
  <2>1. pc'[t] = "host" /\ pc' = [pc EXCEPT ![t] = "host"]
    BY <1>1, <1>5 DEF Inv, TypeInv
  <2>2. "host" \in InWalk /\ "walk" \in InWalk
    BY DEF InWalk, Waiting
  <2>3. Made(t)' = Made(t)
    BY <1>1, <1>2, <2>1 DEF Made
  <2>4. url[t] \in Mirrors(t)
    BY <1>1, <1>3, MirrorNumbers DEF PassOver
  <2>5. AttemptsHere(t) = 1 /\ AttemptsHere(t)' = 1
    BY <1>1, <1>2, <1>3 DEF AttemptsHere
  <2>6. Shape(t)'
    BY <1>1, <1>2, <1>3, <2>1, <2>4, <2>5 DEF Inv, TaskInv, Shape
  <2>7. Frame(t) /\ Typed /\ TaskInv(t)'
    <3>1. pc[t] \in InWalk /\ pass[t] # 2 /\ event'[t] = event[t]
      BY <1>1, <2>2
    <3>2. UNCHANGED <<token, signalled, walk, blob, outcome, started>> /\ event' = event
      BY <1>1
    <3> QED
      BY <1>3, <2>1, <2>2, <2>3, <2>6, <3>1, <3>2, MovesOn
  <2> QED
    BY <1>1, <2>1, <2>7, NeedsNone
<1> QED
  BY <1>4, <1>5

LEMMA TurnAroundStep ==
  ASSUME Inv, NEW t \in Tasks, TurnAround(t)
  PROVE  TaskStep(t)
<1>1. /\ pc[t] = "walk" /\ PassOver(t)
      /\ pass' = [pass EXCEPT ![t] = 2] /\ url' = [url EXCEPT ![t] = 1]
      /\ UNCHANGED <<token, signalled, permits, pc, index, spent, worth, blob, outcome, event, started>>
  BY DEF TurnAround
<1>2. /\ pass[t] = 1 /\ url[t] > Len(Urls[t]) /\ pass'[t] = 2 /\ url'[t] = 1
      /\ \A s \in Tasks \ {t} : pass'[s] = pass[s] /\ url'[s] = url[s]
  BY <1>1 DEF Inv, TypeInv, PassOver
<1>3. /\ outcome[t] = "none" /\ index[t] = 1 /\ Origin[t] = "Http" /\ url[t] \in Nat
      /\ spent[t] \in [Mirrors(t) -> Nat]
  BY <1>1 DEF Inv, TypeInv, TaskInv, Shape
<1>4. "walk" \in InWalk /\ "walk" \notin Waiting
  BY DEF InWalk, Waiting
<1>5. \A i \in Mirrors(t) : i \in Nat /\ ~(i < 1) /\ i < url[t]
  BY <1>2, <1>3, MirrorNumbers
<1>6. \A i \in Mirrors(t) : spent[t][i] <= 1 /\ (worth[t][i] \/ ~token => spent[t][i] = 1)
  BY <1>1, <1>2, <1>3, <1>4, <1>5 DEF Inv, TaskInv, FirstWalk
<1>7. Frame(t)
  BY <1>1, <1>2 DEF Frame
<1>8. Typed
  BY <1>1 DEF Typed, Inv, TypeInv
<1>9. Shape(t)'
  BY <1>1, <1>3, <1>4 DEF Shape, Inv, TaskInv, Waiting
<1>10. Ledger(t)'
  <2> SUFFICES ASSUME NEW i \in Mirrors(t)
               PROVE  started[t][i] = spent[t][i] + IF i = url'[t] THEN Made(t)' ELSE 0
    BY <1>1 DEF Ledger
  <2>1. Made(t) = 0 /\ Made(t)' = 0
    BY <1>1, <1>3 DEF Made
  <2>2. started[t][i] = spent[t][i] + IF i = url[t] THEN Made(t) ELSE 0
    BY <1>1, <1>4 DEF Inv, TaskInv, Ledger
  <2> QED
    BY <1>3, <2>1, <2>2
<1>11. FirstWalk(t)'
  BY <1>2 DEF FirstWalk
<1>12. SecondWalk(t)'
  <2>1. Attempts \in Nat \ {0}
    BY LimitsAssumption
  <2> SUFFICES ASSUME NEW i \in Mirrors(t)
               PROVE  /\ token \/ spent[t][i] > 0
                      /\ spent[t][i] <= Attempts
                      /\ worth[t][i] => spent[t][i] = IF i < url'[t] THEN Attempts ELSE 1
    BY <1>1, <1>4 DEF SecondWalk
  <2> QED
    BY <1>2, <1>3, <1>5, <1>6, <2>1
<1>13. Exhausted(t)' /\ Budget(t)' /\ Announced(t)' /\ Tidy(t)'
  BY <1>1, <1>3 DEF Inv, TaskInv, Exhausted, Budget, Announced, Tidy
<1>14. TaskInv(t)'
  BY <1>9, <1>10, <1>11, <1>12, <1>13 DEF TaskInv
<1> QED
  BY <1>1, <1>7, <1>8, <1>14, NeedsNone

LEMMA SecondPassStep ==
  ASSUME Inv, NEW t \in Tasks, SecondPass(t)
  PROVE  TaskStep(t)
<1>1. /\ pc[t] = "walk" /\ pass[t] = 2
      /\ UNCHANGED <<token, signalled, permits, pass, index, spent, worth, blob, outcome, started>>
  BY DEF SecondPass
<1>2. /\ outcome[t] = "none" /\ index[t] = 1 /\ Origin[t] = "Http" /\ url[t] \in Nat \ {0}
      /\ spent[t] \in [Mirrors(t) -> Nat] /\ outcome' \in [Tasks -> Outcomes] /\ blob' \in [Tasks -> Blobs]
  BY <1>1 DEF Inv, TypeInv, TaskInv, Shape
<1>3. "walk" \in InWalk /\ "walk" \notin Waiting /\ Attempts \in Nat \ {0}
  BY LimitsAssumption DEF InWalk, Waiting
<1>4. \A i \in Mirrors(t) : /\ i \in Nat \ {0}
                            /\ token \/ spent[t][i] > 0
                            /\ spent[t][i] <= Attempts
                            /\ worth[t][i] => spent[t][i] = IF i < url[t] THEN Attempts ELSE 1
  BY <1>1, <1>3, MirrorNumbers DEF Inv, TaskInv, SecondWalk
<1>5. \A i \in Mirrors(t) : started[t][i] = spent[t][i]
  <2> SUFFICES ASSUME NEW i \in Mirrors(t) PROVE started[t][i] = spent[t][i]
    OBVIOUS
  <2>1. Made(t) = 0
    BY <1>1, <1>2 DEF Made
  <2>2. started[t][i] = spent[t][i] + IF i = url[t] THEN Made(t) ELSE 0
    BY <1>1, <1>3 DEF Inv, TaskInv, Ledger
  <2> QED
    BY <1>2, <2>1, <2>2
<1>6. CASE (WorthRetrying(t) = {} \/ token) /\ Goto(t, "settle") /\ UNCHANGED <<url, event>>
  <2>1. pc'[t] = "settle" /\ pc' = [pc EXCEPT ![t] = "settle"]
    BY <1>6 DEF Inv, TypeInv, Goto
  <2>2. "settle" \in Places \ InWalk
    BY DEF Places, InWalk, Waiting
  <2>3. Exhausted(t)'
    <3> SUFFICES ASSUME ~token, NEW i \in Mirrors(t)
                 PROVE  started[t][i] > 0 /\ (worth[t][i] => started[t][i] = Attempts)
      BY <1>1 DEF Exhausted
    <3>1. ~(i >= url[t] /\ worth[t][i] /\ Attempts > 1)
      BY <1>6 DEF WorthRetrying
    <3>2. CASE i < url[t]
      BY <1>4, <1>5, <3>2
    <3>3. CASE ~(i < url[t])
      <4>1. worth[t][i] => Attempts = 1
        BY <1>2, <1>3, <1>4, <3>1, <3>3
      <4> QED
        BY <1>4, <1>5, <3>3, <4>1
    <3> QED
      BY <3>2, <3>3
  <2>4. Tidy(t)'
    BY <1>1, <2>1 DEF Inv, TaskInv, Tidy
  <2>5. event' \in [Tasks -> Event] /\ UNCHANGED walk
    BY <1>1, <1>6 DEF Inv, TypeInv, walk
  <2>6. Frame(t) /\ Typed /\ TaskInv(t)'
    BY <1>1, <1>2, <1>6, <2>1, <2>2, <2>3, <2>4, <2>5, Leaves
  <2> QED
    BY <1>1, <2>1, <2>6, NeedsNone
<1>7. ASSUME ~token, NEW i \in WorthRetrying(t), \A j \in WorthRetrying(t) : i <= j,
             url' = [url EXCEPT ![t] = i],
             event' = [event EXCEPT ![t] = [kind |-> "Retry", url |-> i, attempt |-> spent[t][i] + 1]],
             Goto(t, "resume")
      PROVE  TaskStep(t)
  <2>1. /\ pc'[t] = "resume" /\ pc' = [pc EXCEPT ![t] = "resume"] /\ url'[t] = i
        /\ \A s \in Tasks \ {t} : pc'[s] = pc[s] /\ url'[s] = url[s]
    BY <1>7 DEF Inv, TypeInv, Goto
  <2>2. i \in Mirrors(t) /\ i \in Nat \ {0} /\ i >= url[t] /\ worth[t][i] /\ Attempts > 1
    BY <1>4 DEF WorthRetrying
  <2>3. \A j \in Mirrors(t) : url[t] <= j /\ j < i => ~worth[t][j]
    BY <1>2, <1>4, <1>7, <2>2 DEF WorthRetrying
  <2>4. "resume" \in InWalk /\ "resume" \in Waiting /\ "resume" \in Places /\ "Retry" \in Kinds
    BY DEF InWalk, Waiting, Places, Kinds
  <2>5. /\ event' \in [Tasks -> Event] /\ event'[t].kind = "Retry"
        /\ \A s \in Tasks \ {t} : event'[s] = event[s]
    <3>1. [kind |-> "Retry", url |-> i, attempt |-> spent[t][i] + 1] \in Event
      BY <1>2, <2>2, <2>4 DEF Event
    <3> QED
      BY <1>7, <3>1 DEF Inv, TypeInv
  <2>6. Frame(t)
    BY <1>1, <2>1, <2>5 DEF Frame
  <2>7. Typed
    BY <1>1, <1>7, <2>1, <2>2, <2>4, <2>5 DEF Typed, Inv, TypeInv
  <2>8. AttemptsHere(t)' = Attempts - 1
    BY <1>1, <1>2 DEF AttemptsHere
  <2>9. Shape(t)'
    BY <1>1, <1>2, <1>3, <2>1, <2>2, <2>8 DEF Shape
  <2>10. Ledger(t)'
    <3>1. Made(t)' = 0
      BY <1>1, <1>2, <2>1 DEF Made
    <3> QED
      BY <1>1, <1>2, <1>5, <3>1 DEF Ledger
  <2>11. FirstWalk(t)'
    BY <1>1 DEF FirstWalk
  <2>12. SecondWalk(t)'
    <3> SUFFICES ASSUME NEW j \in Mirrors(t)
                 PROVE  /\ token \/ spent[t][j] > 0
                        /\ spent[t][j] <= Attempts
                        /\ worth[t][j] => spent[t][j] = IF j < i THEN Attempts ELSE 1
      BY <1>1, <2>1, <2>2 DEF SecondWalk
    <3>0. j \in Nat /\ url[t] \in Nat /\ i \in Nat
      BY <1>2, <1>4, <2>2
    <3>1. worth[t][j] => (j < i => j < url[t])
      BY <2>3, <3>0
    <3>2. j < url[t] => j < i
      BY <2>2, <3>0
    <3> QED
      BY <1>4, <3>1, <3>2
  <2>13. Exhausted(t)' /\ Budget(t)' /\ Announced(t)' /\ Tidy(t)'
    BY <1>1, <1>2, <2>1, <2>5 DEF Inv, TaskInv, Exhausted, Budget, Announced, Tidy
  <2>14. TaskInv(t)'
    BY <2>9, <2>10, <2>11, <2>12, <2>13 DEF TaskInv
  <2> QED
    BY <1>1, <2>1, <2>6, <2>7, <2>14, NeedsNone
<1> QED
  BY <1>6, <1>7 DEF SecondPass

LEMMA ResumeStep ==
  ASSUME Inv, NEW t \in Tasks, ResumeElapses(t), ~token
  PROVE  TaskStep(t)
<1>1. /\ pc[t] = "resume" /\ pc' = [pc EXCEPT ![t] = "host"]
      /\ UNCHANGED <<token, signalled, walk, blob, outcome, started>> /\ event' = event /\ UNCHANGED permits
  BY DEF ResumeElapses, Acquire, Goto
<1>2. pass' = pass /\ url' = url /\ index' = index /\ spent' = spent
  BY <1>1 DEF walk
<1>3. pc'[t] = "host" /\ event' \in [Tasks -> Event] /\ event'[t] = event[t]
  BY <1>1 DEF Inv, TypeInv
<1>4. {"host", "resume"} \subseteq InWalk /\ {"host", "resume"} \subseteq Waiting
  BY DEF InWalk, Waiting
<1>5. Made(t)' = Made(t)
  BY <1>1, <1>2, <1>3 DEF Made
<1>6. Shape(t)'
  BY <1>1, <1>2, <1>3, <1>4 DEF Inv, TaskInv, Shape, AttemptsHere
<1>7. Frame(t) /\ Typed /\ TaskInv(t)'
  BY <1>1, <1>3, <1>4, <1>5, <1>6, MovesOn
<1> QED
  BY <1>1, <1>3, <1>7, NeedsNone

LEMMA WakeResumeStep ==
  ASSUME Inv, NEW t \in Tasks, WakeResume(t)
  PROVE  TaskStep(t)
<1>1. /\ pc[t] = "resume" /\ pc' = [pc EXCEPT ![t] = "settle"] /\ signalled /\ Emit(t, "Cancelled", 0)
      /\ UNCHANGED <<token, signalled, walk, started>> /\ UNCHANGED permits
      /\ blob' = blob /\ outcome' = outcome
  BY DEF WakeResume, Goto
<1>2. token /\ pc'[t] = "settle" /\ outcome[t] = "none" /\ blob' \in [Tasks -> Blobs] /\ outcome' \in [Tasks -> Outcomes]
  BY <1>1 DEF Inv, TypeInv, TaskInv, Shape
<1>3. "settle" \in Places \ InWalk /\ "Cancelled" \in Kinds /\ 0 \in Nat
  BY DEF Places, InWalk, Waiting, Kinds
<1>4. /\ event' \in [Tasks -> Event] /\ (\A s \in Tasks \ {t} : event'[s] = event[s])
      /\ event'[t] = [kind |-> "Cancelled", url |-> url[t], attempt |-> 0]
  BY <1>1, <1>3, EventKept
<1>5. event'[t].kind # "Started"
  BY <1>4
<1>6. Exhausted(t)'
  BY <1>1, <1>2 DEF Exhausted
<1>7. Tidy(t)'
  BY <1>1, <1>2 DEF Inv, TaskInv, Tidy
<1>8. Frame(t) /\ Typed /\ TaskInv(t)'
  BY <1>1, <1>2, <1>3, <1>4, <1>5, <1>6, <1>7, Leaves
<1> QED
  BY <1>1, <1>2, <1>8, NeedsNone

LEMMA BackoffStep ==
  ASSUME Inv, NEW t \in Tasks, BackoffElapses(t), ~token
  PROVE  TaskStep(t)
<1>1. /\ pc[t] = "backoff" /\ pc' = [pc EXCEPT ![t] = "host"] /\ index' = [index EXCEPT ![t] = @ + 1]
      /\ UNCHANGED <<token, signalled, permits, pass, url, spent, worth, blob, outcome, event, started>>
  BY DEF BackoffElapses, Goto
<1>2. /\ pc'[t] = "host" /\ index'[t] = index[t] + 1 /\ index[t] \in Nat \ {0}
      /\ \A s \in Tasks \ {t} : pc'[s] = pc[s] /\ index'[s] = index[s]
  BY <1>1 DEF Inv, TypeInv
<1>3. {"host", "backoff"} \subseteq InWalk /\ {"host", "backoff"} \subseteq Waiting /\ "host" \in Places
  BY DEF InWalk, Waiting, Places
<1>4. Made(t)' = Made(t)
  BY <1>1, <1>2 DEF Made
<1>5. AttemptsHere(t)' = AttemptsHere(t) /\ AttemptsHere(t) \in Int
  BY <1>1, LimitsAssumption DEF AttemptsHere
<1>6. index'[t] <= AttemptsHere(t)'
  <2>1. index[t] < AttemptsHere(t)
    BY <1>1 DEF Inv, TaskInv, Shape
  <2> QED
    BY <1>2, <1>5, <2>1
<1>7. Shape(t)'
  BY <1>1, <1>2, <1>3, <1>6 DEF Inv, TaskInv, Shape
<1>8. Ledger(t)' /\ FirstWalk(t)' /\ SecondWalk(t)'
  BY <1>1, <1>2, <1>3, <1>4 DEF Inv, TaskInv, Ledger, FirstWalk, SecondWalk
<1>9. Exhausted(t)' /\ Budget(t)' /\ Announced(t)' /\ Tidy(t)'
  BY <1>1, <1>2 DEF Inv, TaskInv, Exhausted, Budget, Announced, Tidy, Shape
<1>10. Frame(t)
  BY <1>1, <1>2 DEF Frame
<1>11. Typed
  BY <1>1, <1>2, <1>3 DEF Typed, Inv, TypeInv
<1>12. TaskInv(t)'
  BY <1>7, <1>8, <1>9 DEF TaskInv
<1> QED
  BY <1>1, <1>2, <1>10, <1>11, <1>12, NeedsNone

LEMMA CreateFileStep ==
  ASSUME Inv, NEW t \in Tasks, CreateFile(t)
  PROVE  TaskStep(t)
<1>1. /\ pc[t] = "transfer" /\ blob' = [blob EXCEPT ![t] = "partial"]
      /\ UNCHANGED <<token, signalled, permits, pc, walk, outcome, event, started>>
  BY DEF CreateFile
<1>2. pass' = pass /\ url' = url /\ index' = index /\ spent' = spent /\ worth' = worth
  BY <1>1 DEF walk
<1>3. \A s \in Tasks \ {t} : blob'[s] = blob[s]
  BY <1>1 DEF Inv, TypeInv
<1>4. Frame(t)
  BY <1>1, <1>2, <1>3 DEF Frame
<1>5. Typed
  BY <1>1, <1>2 DEF Typed, Inv, TypeInv, Blobs
<1>6. Shape(t)' /\ Ledger(t)' /\ FirstWalk(t)' /\ SecondWalk(t)' /\ Budget(t)' /\ Announced(t)'
  BY <1>1, <1>2 DEF Inv, TaskInv, Shape, Ledger, FirstWalk, SecondWalk, Budget, Announced, Made, AttemptsHere
<1>7. Exhausted(t)' /\ Tidy(t)'
  BY <1>1 DEF Inv, TaskInv, Shape, Exhausted, Tidy
<1>8. TaskInv(t)'
  BY <1>6, <1>7 DEF TaskInv
<1> QED
  BY <1>1, <1>2, <1>4, <1>5, <1>8
     DEF TaskStep, PermitStep, HoldsHost, HoldsConnection, HoldsLocal, permits

\* The end of an attempt: the permits are free before anything else is decided.
LEMMA EndAttemptStep ==
  ASSUME Inv, NEW t \in Tasks, EndAttempt(t)
  PROVE  TaskStep(t)
<1>1. /\ pc[t] = "transfer" /\ ReleaseHost(t) /\ ReleaseConnection
      /\ UNCHANGED <<token, signalled, localFree, started>>
  BY DEF EndAttempt
<1>2. /\ pc[t] \in Waiting /\ pc[t] \in InWalk /\ Made(t) = index[t] /\ outcome[t] = "none"
      /\ url[t] \in Mirrors(t) /\ index[t] \in Nat \ {0} /\ index[t] <= AttemptsHere(t)
  BY <1>1 DEF Waiting, InWalk, Made, Inv, TypeInv, TaskInv, Shape
<1>3. AttemptNumber(t) \in Nat
  <2>1. spent[t] \in [Mirrors(t) -> Nat]
    BY DEF Inv, TypeInv
  <2> QED
    BY <1>2, <2>1 DEF AttemptNumber, SpentBefore
<1>4. ASSUME Frame(t), Typed, TaskInv(t)', pc'[t] \notin {"global", "transfer", "copy", "import"}
      PROVE  TaskStep(t)
  BY <1>1, <1>4 DEF TaskStep, PermitStep, HoldsHost, HoldsConnection, HoldsLocal, ReleaseHost, ReleaseConnection
<1>5. PICK a \in Answers[Urls[t][url[t]]] : IF a = "ok" THEN AttemptDone(t) ELSE AttemptFailed(t, a)
  BY DEF EndAttempt
<1>6. a \in AnswerKinds
  BY <1>2, <1>5, OriginsAssumption
<1>7. CASE AttemptDone(t)
  <2> DEFINE p == CASE Origin[t] = "Http" -> "finalize"
                    [] Origin[t] = "OciRegistry" -> "importWait"
                    [] Origin[t] = "Repository" -> "done"
  <2>1. /\ blob' = [blob EXCEPT ![t] = "whole"] /\ UNCHANGED walk
        /\ outcome' = [outcome EXCEPT ![t] = IF Origin[t] = "Repository" THEN "ok" ELSE "none"]
        /\ IF Origin[t] = "OciRegistry" THEN UNCHANGED event ELSE Emit(t, "Finished", AttemptNumber(t))
    BY <1>7 DEF AttemptDone
  <2>2. Goto(t, p)
    BY <1>7 DEF AttemptDone
  <2>3. Origin[t] \in {"Http", "OciRegistry", "Repository"}
    <3>1. Mirrors(t) # {}
      BY <1>2
    <3>2. Origin[t] = "Path" => Urls[t] = <<>>
      BY OriginsAssumption
    <3>3. Urls[t] = <<>> => Mirrors(t) = {}
      BY DEF Mirrors
    <3> QED
      BY <3>1, <3>2, <3>3, MirrorNumbers
  <2>4. PICK q \in {"finalize", "importWait", "done"} :
          /\ pc' = [pc EXCEPT ![t] = q]
          /\ q = "finalize" => Origin[t] = "Http"
          /\ q = "done" <=> Origin[t] = "Repository"
    <3>1. CASE Origin[t] = "Http"
      <4>1. pc' = [pc EXCEPT ![t] = "finalize"]
        BY <2>2, <3>1 DEF Goto
      <4> QED
        BY <3>1, <4>1
    <3>2. CASE Origin[t] = "OciRegistry"
      <4>1. pc' = [pc EXCEPT ![t] = "importWait"]
        BY <2>2, <3>2 DEF Goto
      <4> QED
        BY <3>2, <4>1
    <3>3. CASE Origin[t] = "Repository"
      <4>1. pc' = [pc EXCEPT ![t] = "done"]
        BY <2>2, <3>3 DEF Goto
      <4> QED
        BY <3>3, <4>1
    <3> QED
      BY <2>3, <3>1, <3>2, <3>3
  <2>5. pc'[t] = q /\ blob'[t] = "whole"
    BY <2>1, <2>4 DEF Inv, TypeInv
  <2>6. q \in Places \ InWalk
    BY <2>4 DEF Places, InWalk, Waiting
  <2>7. /\ blob' \in [Tasks -> Blobs] /\ (\A s \in Tasks \ {t} : blob'[s] = blob[s])
        /\ outcome' \in [Tasks -> Outcomes] /\ (\A s \in Tasks \ {t} : outcome'[s] = outcome[s])
        /\ outcome'[t] # "none" => q = "done"
    BY <2>1, <2>4 DEF Inv, TypeInv, Blobs, Outcomes
  <2>8. /\ event' \in [Tasks -> Event] /\ (\A s \in Tasks \ {t} : event'[s] = event[s])
        /\ event'[t].kind # "Started" \/ event'[t] = event[t]
    <3>1. CASE Origin[t] = "OciRegistry"
      BY <2>1, <3>1 DEF Inv, TypeInv
    <3>2. CASE Origin[t] # "OciRegistry"
      <4>1. "Finished" \in Kinds
        BY DEF Kinds
      <4>2. /\ event' \in [Tasks -> Event] /\ (\A s \in Tasks \ {t} : event'[s] = event[s])
            /\ event'[t] = [kind |-> "Finished", url |-> url[t], attempt |-> AttemptNumber(t)]
        BY <1>3, <2>1, <3>2, <4>1, EventKept
      <4> QED
        BY <4>2
    <3> QED
      BY <3>1, <3>2
  <2>9. Exhausted(t)' /\ Tidy(t)'
    BY <2>5 DEF Exhausted, Tidy
  <2>10. Frame(t) /\ Typed /\ TaskInv(t)'
    BY <1>1, <2>1, <2>4, <2>6, <2>7, <2>8, <2>9, Leaves
  <2> QED
    BY <1>4, <2>4, <2>5, <2>10
<1>8. CASE token /\ ReturnCancelled(t, index[t])
  <2>1. Frame(t) /\ Typed /\ TaskInv(t)' /\ pc'[t] \in {"walk", "remove", "settle"}
    BY <1>1, <1>2, <1>8, Cancels
  <2> QED
    BY <1>4, <2>1
<1>9. CASE ~token /\ CanRetry(t, a) /\ RetryLater(t)
  <2>1. /\ pc' = [pc EXCEPT ![t] = "backoff"] /\ Emit(t, "Retry", AttemptNumber(t) + 1)
        /\ UNCHANGED <<walk, blob, outcome>> /\ index[t] < AttemptsHere(t)
    BY <1>9 DEF RetryLater, Goto, CanRetry
  <2>2. pass' = pass /\ url' = url /\ index' = index /\ spent' = spent
    BY <2>1 DEF walk
  <2>3. "Retry" \in Kinds /\ AttemptNumber(t) + 1 \in Nat
    BY <1>3 DEF Kinds
  <2>4. /\ event' \in [Tasks -> Event] /\ (\A s \in Tasks \ {t} : event'[s] = event[s])
        /\ event'[t] = [kind |-> "Retry", url |-> url[t], attempt |-> AttemptNumber(t) + 1]
    BY <2>1, <2>3, EventKept
  <2>5. event'[t].kind # "Started"
    BY <2>4
  <2>6. pc'[t] = "backoff"
    BY <2>1 DEF Inv, TypeInv
  <2>7. Made(t)' = Made(t)
    BY <1>1, <2>2, <2>6 DEF Made
  <2>8. "backoff" \in InWalk
    BY DEF InWalk, Waiting
  <2>9. AttemptsHere(t)' = AttemptsHere(t)
    BY <2>2 DEF AttemptsHere
  <2>10. Shape(t)'
    BY <1>2, <2>1, <2>2, <2>6, <2>9 DEF Inv, TaskInv, Shape
  <2>11. Frame(t) /\ Typed /\ TaskInv(t)'
    BY <1>1, <1>2, <2>1, <2>4, <2>5, <2>7, <2>8, <2>10, MovesOn
  <2> QED
    BY <1>4, <2>6, <2>11
<1>10. CASE ~token /\ ~CanRetry(t, a) /\ GiveUp(t, a)
  <2>1. MayReturn(t, a, index[t])
    BY <1>1, <1>2, <1>6, <1>10 DEF MayReturn
  <2>2. "Failed" \in Kinds \ {"Started"}
    BY DEF Kinds
  <2>3. ReturnError(t, a, index[t])
    BY <1>10 DEF GiveUp
  <2>4. Origin[t] # "OciRegistry" => Emit(t, "Failed", AttemptNumber(t))
    BY <1>10 DEF GiveUp
  <2>5. Origin[t] = "OciRegistry" => UNCHANGED event
    BY <1>10 DEF GiveUp
  <2>6. Origin[t] # "OciRegistry" => \E k \in Kinds \ {"Started"}, m \in Nat : Emit(t, k, m)
    BY <1>3, <2>2, <2>4
  <2>7. Frame(t) /\ Typed /\ TaskInv(t)' /\ pc'[t] \in {"walk", "remove", "settle"}
    BY <1>1, <2>1, <2>3, <2>5, <2>6, Returns
  <2> QED
    BY <1>4, <2>7
<1> QED
  BY <1>5, <1>7, <1>8, <1>9, <1>10 DEF AttemptFailed

----------------------------------------------------------------------------
(* Local work and the end of a Source.                                     *)
LEMMA LocalSteps ==
  ASSUME Inv, NEW t \in Tasks,
         Finalize(t) \/ TakeLocal(t) \/ PollLocal(t) \/ Copy(t) \/ Import(t) \/ Settle(t)
  PROVE  TaskStep(t)
<1> DEFINE L == {"importWait", "copy", "import", "settle", "done"}
<1>1. UNCHANGED <<token, signalled, walk, started, hostFree, connFree>> /\ event' = event
  BY DEF Finalize, TakeLocal, PollLocal, Copy, Import, Settle, permits
<1>2. pc[t] \in {"finalize", "copyWait", "importWait", "copy", "import", "settle"}
  BY DEF Finalize, TakeLocal, PollLocal, Copy, Import, Settle
<1>3. PICK p \in L : pc' = [pc EXCEPT ![t] = p]
  BY DEF Finalize, TakeLocal, PollLocal, Copy, Import, Settle, Goto
<1>4. p \in Places \ InWalk
  BY <1>3 DEF Places, InWalk, Waiting
<1>5. pc'[t] = p
  BY <1>3 DEF Inv, TypeInv
<1>6. event' \in [Tasks -> Event] /\ outcome[t] = "none" /\ blob[t] \in Blobs
  BY <1>1, <1>2 DEF Inv, TypeInv, TaskInv, Shape
<1>7. /\ blob' \in [Tasks -> Blobs] /\ (\A s \in Tasks \ {t} : blob'[s] = blob[s])
      /\ outcome' \in [Tasks -> Outcomes] /\ (\A s \in Tasks \ {t} : outcome'[s] = outcome[s])
  <2>1. CASE Finalize(t) \/ TakeLocal(t) \/ PollLocal(t)
    BY <2>1 DEF Finalize, TakeLocal, PollLocal, Inv, TypeInv
  <2>2. CASE Copy(t)
    BY <2>2 DEF Copy, Inv, TypeInv, Blobs
  <2>3. CASE Import(t)
    <3>1. \/ UNCHANGED <<blob, outcome>>
          \/ /\ \E o \in {"ok", "mismatched"} : outcome' = [outcome EXCEPT ![t] = o]
             /\ \E b \in Removed(t) \cup {blob[t]} : blob' = [blob EXCEPT ![t] = b] \/ blob' = blob
      BY <2>3 DEF Import
    <3>2. Removed(t) \subseteq Blobs /\ {"ok", "mismatched"} \subseteq Outcomes
      BY <1>6 DEF Removed, Blobs, Outcomes
    <3>3. blob \in [Tasks -> Blobs] /\ outcome \in [Tasks -> Outcomes] /\ Removed(t) \cup {blob[t]} \subseteq Blobs
      BY <1>6, <3>2 DEF Inv, TypeInv
    <3>4. blob' \in [Tasks -> Blobs] /\ (\A s \in Tasks \ {t} : blob'[s] = blob[s])
      BY <3>1, <3>3
    <3>5. outcome' \in [Tasks -> Outcomes] /\ (\A s \in Tasks \ {t} : outcome'[s] = outcome[s])
      BY <3>1, <3>2, <3>3
    <3> QED
      BY <3>4, <3>5
  <2>4. CASE Settle(t)
    BY <2>4 DEF Settle, Removed, Inv, TypeInv, Blobs, Outcomes
  <2> QED
    BY <2>1, <2>2, <2>3, <2>4
<1>8. outcome'[t] # "none" => p = "done"
  <2>1. CASE Finalize(t) \/ TakeLocal(t) \/ PollLocal(t) \/ Copy(t)
    BY <1>6, <2>1 DEF Finalize, TakeLocal, PollLocal, Copy
  <2>2. CASE Import(t)
    BY <1>5, <1>6, <2>2 DEF Import, Goto, Inv, TypeInv
  <2>3. CASE Settle(t)
    BY <1>5, <2>3 DEF Settle, Goto, Inv, TypeInv
  <2> QED
    BY <2>1, <2>2, <2>3
<1>9. p = "copy" => Origin[t] = "Path"
  <2>1. p = "copy" => pc[t] = "copyWait"
    BY <1>2, <1>5 DEF Finalize, TakeLocal, PollLocal, Copy, Import, Settle, Goto, Inv, TypeInv
  <2> QED
    BY <2>1 DEF Inv, TaskInv, Shape
<1>10. /\ pc[t] \in {"finalize", "importWait", "import"} => blob[t] = "whole"
       /\ pc[t] \in {"copyWait", "copy"} => Origin[t] = "Path"
       /\ pc[t] = "settle" /\ Origin[t] # "Path" /\ t \notin UnlinkFails => blob[t] # "partial"
  BY DEF Inv, TaskInv, Tidy, Shape
<1>11. Tidy(t)' /\ Exhausted(t)' /\ localFree' = IF HoldsLocal(t) <=> HoldsLocal(t)' THEN localFree
                                               ELSE IF HoldsLocal(t)' THEN localFree - 1 ELSE localFree + 1
  <2>1. CASE Finalize(t)
    <3>1. pc[t] = "finalize" /\ p \in {"importWait", "settle"} /\ UNCHANGED <<permits, blob, outcome>>
      BY <1>5, <2>1 DEF Finalize, Goto, Inv, TypeInv
    <3> QED
      BY <1>5, <1>6, <1>10, <3>1 DEF Tidy, Exhausted, HoldsLocal, permits
  <2>2. CASE TakeLocal(t)
    <3>1. /\ pc[t] \in {"copyWait", "importWait"} /\ UNCHANGED <<blob, outcome>> /\ localFree' = localFree - 1
          /\ p = IF pc[t] = "copyWait" THEN "copy" ELSE "import"
      BY <1>5, <2>2 DEF TakeLocal, Goto, Inv, TypeInv
    <3> QED
      BY <1>5, <1>6, <1>10, <3>1 DEF Tidy, Exhausted, HoldsLocal
  <2>3. CASE PollLocal(t)
    <3>1. pc[t] \in {"copyWait", "importWait"} /\ token /\ p = "settle" /\ UNCHANGED <<permits, blob, outcome>>
      BY <1>5, <2>3 DEF PollLocal, Goto, Inv, TypeInv
    <3> QED
      BY <1>1, <1>5, <1>6, <1>10, <3>1 DEF Tidy, Exhausted, HoldsLocal, permits
  <2>4. CASE Copy(t)
    <3>1. /\ pc[t] = "copy" /\ localFree' = localFree + 1 /\ Origin[t] = "Path"
          /\ (p = "importWait" /\ blob'[t] = "whole") \/ p = "settle"
      BY <1>5, <1>10, <2>4 DEF Copy, Goto, Inv, TypeInv
    <3> QED
      BY <1>5, <3>1 DEF Tidy, Exhausted, HoldsLocal
  <2>5. CASE Import(t)
    <3>1. pc[t] = "import" /\ localFree' = localFree + 1 /\ blob[t] = "whole"
      BY <1>10, <2>5 DEF Import
    <3>2. CASE Goto(t, "settle") /\ UNCHANGED <<blob, outcome>>
      <4>1. p = "settle"
        BY <1>5, <3>2 DEF Goto, Inv, TypeInv
      <4> QED
        BY <1>5, <3>1, <3>2, <4>1 DEF Tidy, Exhausted, HoldsLocal
    <3>3. CASE Goto(t, "done") /\ outcome'[t] \in {"ok", "mismatched"} /\ blob'[t] \in {"none", "whole"}
      <4>1. p = "done"
        BY <1>5, <3>3 DEF Goto, Inv, TypeInv
      <4> QED
        BY <1>5, <3>1, <3>3, <4>1 DEF Tidy, Exhausted, HoldsLocal
    <3>4. \/ Goto(t, "settle") /\ UNCHANGED <<blob, outcome>>
          \/ Goto(t, "done") /\ outcome'[t] \in {"ok", "mismatched"} /\ blob'[t] \in {"none", "whole"}
      BY <2>5, <3>1 DEF Import, Removed, Inv, TypeInv
    <3> QED
      BY <3>2, <3>3, <3>4
  <2>6. CASE Settle(t)
    <3>1. pc[t] = "settle" /\ p = "done" /\ UNCHANGED permits
      BY <1>5, <2>6 DEF Settle, Goto, Inv, TypeInv
    <3>2. token \/ UNCHANGED blob
      BY <2>6 DEF Settle
    <3>3. blob'[t] \in Removed(t) \cup {blob[t]}
      BY <2>6 DEF Settle, Inv, TypeInv
    <3>4. Tidy(t)'
      BY <1>5, <1>10, <3>1, <3>3 DEF Tidy, Removed
    <3>5. Exhausted(t)'
      BY <1>1, <3>1, <3>2 DEF Exhausted, Inv, TaskInv, walk
    <3> QED
      BY <1>5, <3>1, <3>4, <3>5 DEF HoldsLocal, permits
  <2> QED
    BY <2>1, <2>2, <2>3, <2>4, <2>5, <2>6
<1>12. Frame(t) /\ Typed /\ TaskInv(t)'
  BY <1>1, <1>3, <1>4, <1>6, <1>7, <1>8, <1>9, <1>11, Leaves
<1> QED
  BY <1>1, <1>2, <1>3, <1>5, <1>11, <1>12 DEF TaskStep, PermitStep, HoldsHost, HoldsConnection

\* The end of a request that has failed.
LEMMA RemoveStep ==
  ASSUME Inv, NEW t \in Tasks, RemovePartial(t)
  PROVE  TaskStep(t)
<1>1. UNCHANGED <<token, signalled, walk, started, permits, event>> /\ pc[t] = "remove" /\ Origin[t] = "Repository"
  BY DEF RemovePartial, Inv, TaskInv, Shape
<1>2. PICK b \in Removed(t) :
        /\ blob' = [blob EXCEPT ![t] = b]
        /\ outcome' = [outcome EXCEPT ![t] = IF b = "none" THEN @ ELSE "failed"]
  BY DEF RemovePartial
<1>3. pc' = [pc EXCEPT ![t] = "done"] /\ pc'[t] = "done" /\ "done" \in Places \ InWalk
  BY DEF RemovePartial, Goto, Inv, TypeInv, Places, InWalk, Waiting
<1>4. blob' \in [Tasks -> Blobs] /\ blob'[t] = b /\ \A s \in Tasks \ {t} : blob'[s] = blob[s]
  BY <1>2 DEF Removed, Inv, TypeInv, Blobs
<1>5. outcome' \in [Tasks -> Outcomes] /\ \A s \in Tasks \ {t} : outcome'[s] = outcome[s]
  BY <1>2 DEF Inv, TypeInv, Outcomes
<1>6. event' \in [Tasks -> Event] /\ event' = event
  BY <1>1 DEF Inv, TypeInv
<1>7. Exhausted(t)'
  BY <1>1 DEF Exhausted
<1>8. Tidy(t)'
  BY <1>3, <1>4 DEF Tidy, Removed
<1>9. Frame(t) /\ Typed /\ TaskInv(t)'
  BY <1>1, <1>3, <1>4, <1>5, <1>6, <1>7, <1>8, Leaves
<1> QED
  BY <1>1, <1>3, <1>9 DEF TaskStep, PermitStep, HoldsHost, HoldsConnection, HoldsLocal, permits

----------------------------------------------------------------------------
(* All steps together.                                                     *)
LEMMA EveryTaskStep ==
  ASSUME Inv, NEW t \in Tasks, Progress(t) \/ Transfer(t)
  PROVE  TaskStep(t)
<1>1. CASE TakeHost(t)
  BY <1>1, CancelledSteps, TakeHostStep
<1>2. CASE TakeConnection(t)
  BY <1>2, CancelledSteps, StartAttemptStep
<1>3. CASE BackoffElapses(t)
  BY <1>3, CancelledSteps, BackoffStep
<1>4. CASE Begin(t)
  BY <1>4, CancelledSteps, BeginStep
<1>5. CASE FirstPass(t) \/ TurnAround(t) \/ SecondPass(t)
  BY <1>5, FirstPassStep, TurnAroundStep, SecondPassStep
<1>6. CASE ResumeElapses(t)
  BY <1>6, CancelledSteps, ResumeStep
<1>7. CASE Finalize(t) \/ TakeLocal(t) \/ PollLocal(t) \/ Copy(t) \/ Import(t) \/ Settle(t) \/ RemovePartial(t)
  BY <1>7, LocalSteps, RemoveStep
<1>8. CASE Woken(t)
  BY <1>8, CancelledSteps, WakeResumeStep DEF Woken
<1>9. CASE Transfer(t)
  BY <1>9, CreateFileStep, EndAttemptStep DEF Transfer
<1> QED
  BY <1>1, <1>2, <1>3, <1>4, <1>5, <1>6, <1>7, <1>8, <1>9 DEF Progress

\* The host whose permit a step of t takes or returns is one of Hosts.
LEMMA HostKnown ==
  ASSUME Inv, NEW t \in Tasks, TaskStep(t), HoldsHost(t) \/ HoldsHost(t)'
  PROVE  Host(t) \in Hosts
<1>1. CASE HoldsHost(t)
  <2>1. url[t] \in Mirrors(t)
    BY <1>1 DEF HoldsHost, Inv, TaskInv, Shape, Waiting
  <2> QED
    BY <2>1, MirrorNumbers DEF Host
<1>2. CASE HoldsHost(t)'
  <2>1. url'[t] \in Mirrors(t) /\ url'[t] = url[t]
    BY <1>2 DEF HoldsHost, TaskStep, PermitStep, TaskInv, Shape, Waiting
  <2> QED
    BY <2>1, MirrorNumbers DEF Host
<1> QED
  BY <1>1, <1>2

\* What is said of a task depends on its own entries, and on the token only as a way out.
LEMMA SameTask ==
  ASSUME NEW s \in Tasks, TaskInv(s), token => token',
         pc'[s] = pc[s], pass'[s] = pass[s], url'[s] = url[s], index'[s] = index[s],
         spent'[s] = spent[s], worth'[s] = worth[s], started'[s] = started[s],
         blob'[s] = blob[s], outcome'[s] = outcome[s], event'[s] = event[s]
  PROVE  TaskInv(s)'
<1>1. Made(s)' = Made(s) /\ AttemptsHere(s)' = AttemptsHere(s)
  BY DEF Made, AttemptsHere
<1>2. Shape(s)'
  BY <1>1 DEF TaskInv, Shape
<1>3. Ledger(s)'
  BY <1>1 DEF TaskInv, Ledger
<1>4. FirstWalk(s)'
  BY DEF TaskInv, FirstWalk
<1>5. SecondWalk(s)'
  BY DEF TaskInv, SecondWalk
<1>6. Exhausted(s)'
  BY DEF TaskInv, Exhausted
<1>7. Budget(s)' /\ Announced(s)' /\ Tidy(s)'
  BY DEF TaskInv, Budget, Announced, Tidy
<1> QED
  BY <1>2, <1>3, <1>4, <1>5, <1>6, <1>7 DEF TaskInv

LEMMA StepKeepsInv ==
  ASSUME Inv, NEW t \in Tasks, TaskStep(t)
  PROVE  Inv'
<1>1. hostFree' \in [Hosts -> Int] /\ connFree' \in Int /\ localFree' \in Int
  <2>1. hostFree \in [Hosts -> Int] /\ connFree \in Int /\ localFree \in Int
    BY DEF Inv, TypeInv
  <2>2. HoldsHost(t) \/ HoldsHost(t)' => Host(t) \in Hosts
    BY HostKnown
  <2>3. hostFree' \in [Hosts -> Int]
    BY <2>1, <2>2 DEF TaskStep, PermitStep, HoldsHost
  <2>4. connFree' \in Int /\ localFree' \in Int
    BY <2>1 DEF TaskStep, PermitStep
  <2> QED
    BY <2>3, <2>4
<1>2. TypeInv'
  BY <1>1 DEF TaskStep, Typed, Frame, Inv, TypeInv
<1>3. ASSUME NEW s \in Tasks \ {t} PROVE TaskInv(s)'
  <2>1. /\ pc'[s] = pc[s] /\ pass'[s] = pass[s] /\ url'[s] = url[s] /\ index'[s] = index[s]
        /\ spent'[s] = spent[s] /\ worth'[s] = worth[s] /\ started'[s] = started[s]
        /\ blob'[s] = blob[s] /\ outcome'[s] = outcome[s] /\ event'[s] = event[s] /\ token' = token
    BY <1>3 DEF TaskStep, Frame
  <2>2. TaskInv(s)
    BY <1>3 DEF Inv
  <2> QED
    BY <2>1, <2>2, SameTask
<1> QED
  BY <1>2, <1>3 DEF Inv, TaskStep

\* Nothing but the token changes, or the channel follows it.
LEMMA CancelKeepsInv ==
  ASSUME Inv, Signal \/ Monitor \/ UNCHANGED vars
  PROVE  Inv'
<1>1. /\ UNCHANGED <<permits, pc, walk, blob, outcome, event, started>>
      /\ (token => token') /\ token' \in BOOLEAN /\ signalled' \in BOOLEAN /\ (signalled' => token')
  <2>1. token \in BOOLEAN /\ signalled \in BOOLEAN /\ (signalled => token)
    BY DEF Inv, TypeInv
  <2>2. CASE Signal
    BY <2>1, <2>2 DEF Signal
  <2>3. CASE Monitor
    BY <2>1, <2>3 DEF Monitor
  <2>4. CASE UNCHANGED vars
    BY <2>1, <2>4 DEF vars
  <2> QED
    BY <2>2, <2>3, <2>4
<1>2. TypeInv'
  <2>1. /\ hostFree' = hostFree /\ connFree' = connFree /\ localFree' = localFree /\ pc' = pc
        /\ pass' = pass /\ url' = url /\ index' = index /\ spent' = spent /\ worth' = worth
        /\ blob' = blob /\ outcome' = outcome /\ event' = event /\ started' = started
    BY <1>1 DEF permits, walk
  <2>2. token' \in BOOLEAN /\ signalled' \in BOOLEAN /\ (signalled' => token')
    BY <1>1
  <2> QED
    BY <2>1, <2>2, Zenon DEF Inv, TypeInv
<1>3. ASSUME NEW s \in Tasks PROVE TaskInv(s)'
  <2>1. /\ pc'[s] = pc[s] /\ pass'[s] = pass[s] /\ url'[s] = url[s] /\ index'[s] = index[s]
        /\ spent'[s] = spent[s] /\ worth'[s] = worth[s] /\ started'[s] = started[s]
        /\ blob'[s] = blob[s] /\ outcome'[s] = outcome[s] /\ event'[s] = event[s]
    BY <1>1 DEF walk
  <2>2. TaskInv(s)
    BY <1>3 DEF Inv
  <2> QED
    BY <1>1, <2>1, <2>2, SameTask
<1> QED
  BY <1>2, <1>3 DEF Inv

LEMMA InvStep == Inv /\ [Next]_vars => Inv'
<1> SUFFICES ASSUME Inv, [Next]_vars PROVE Inv'
  OBVIOUS
<1>1. CASE Signal \/ Monitor \/ UNCHANGED vars
  BY <1>1, CancelKeepsInv
<1>2. ASSUME NEW t \in Tasks, Progress(t) \/ Transfer(t) PROVE Inv'
  BY <1>2, EveryTaskStep, StepKeepsInv
<1> QED
  BY <1>1, <1>2 DEF Next

LEMMA InvInit == Init => Inv
<1> SUFFICES ASSUME Init PROVE Inv
  OBVIOUS
<1>1. /\ \A h \in Hosts : for_host(h) \in Nat \ {0}
      /\ Connections \in Nat \ {0} /\ MaxLocalJobs \in Nat \ {0} /\ Attempts \in Nat \ {0}
  BY LimitsAssumption DEF for_host, Connections, AtLeastOne
<1>2. pc \in [Tasks -> {"start", "idle"}]
  BY DEF Init
<1>3. {"start", "idle"} \subseteq Places /\ "none" \in Blobs /\ "none" \in Outcomes /\ None \in Event
  BY DEF Places, Blobs, Outcomes, Event, None, Kinds
<1>4. TypeInv
  <2>1. hostFree \in [Hosts -> Int] /\ connFree \in Int /\ localFree \in Int
    BY <1>1 DEF Init
  <2>2. /\ pass \in [Tasks -> {1, 2}] /\ url \in [Tasks -> Nat \ {0}] /\ index \in [Tasks -> Nat \ {0}]
        /\ pc \in [Tasks -> Places]
    BY <1>2, <1>3 DEF Init
  <2>3. /\ DOMAIN spent = Tasks /\ DOMAIN worth = Tasks /\ DOMAIN started = Tasks
        /\ \A t \in Tasks :
             /\ spent[t] \in [Mirrors(t) -> Nat] /\ worth[t] \in [Mirrors(t) -> BOOLEAN]
             /\ started[t] \in [Mirrors(t) -> Nat]
    BY DEF Init
  <2>4. blob \in [Tasks -> Blobs] /\ outcome \in [Tasks -> Outcomes] /\ event \in [Tasks -> Event]
    BY <1>3 DEF Init
  <2>5. token = FALSE /\ signalled = FALSE
    BY DEF Init
  <2> QED
    BY <2>1, <2>2, <2>3, <2>4, <2>5 DEF TypeInv
<1>5. ASSUME NEW t \in Tasks PROVE TaskInv(t)
  <2>1. /\ pc[t] \in {"start", "idle"} /\ pc[t] \notin Waiting /\ index[t] = 1 /\ pass[t] = 1 /\ url[t] = 1
        /\ outcome[t] = "none" /\ blob[t] = "none" /\ event[t].kind = "none"
        /\ \A i \in Mirrors(t) : spent[t][i] = 0 /\ started[t][i] = 0
    BY <1>2 DEF Init, None, Waiting
  <2>2. \A i \in Mirrors(t) : ~(i < 1)
    BY MirrorNumbers
  <2>3. Shape(t) /\ Exhausted(t) /\ Announced(t) /\ Tidy(t)
    BY <2>1 DEF Shape, Exhausted, Announced, Tidy
  <2>4. Ledger(t) /\ FirstWalk(t) /\ SecondWalk(t)
    BY <2>1, <2>2 DEF Ledger, FirstWalk, SecondWalk, Made
  <2>5. Budget(t)
    BY <1>1, <2>1 DEF Budget
  <2> QED
    BY <2>3, <2>4, <2>5 DEF TaskInv
<1> QED
  BY <1>4, <1>5 DEF Inv

----------------------------------------------------------------------------
(* The permits: one task enters or leaves the sets that are counted.       *)
LEMMA Recount ==
  ASSUME NEW A \in SUBSET Tasks, NEW B \in SUBSET Tasks, NEW t \in Tasks,
         \A s \in Tasks \ {t} : s \in A <=> s \in B
  PROVE  /\ Cardinality(A) \in Nat /\ Cardinality(B) \in Nat
         /\ (t \in A <=> t \in B) => Cardinality(B) = Cardinality(A)
         /\ t \in B /\ t \notin A => Cardinality(B) = Cardinality(A) + 1
         /\ t \in A /\ t \notin B => Cardinality(B) = Cardinality(A) - 1
<1>1. IsFiniteSet(A) /\ IsFiniteSet(B)
  BY TasksAssumption, FS_Subset
<1>2. Cardinality(A) \in Nat /\ Cardinality(B) \in Nat
  BY <1>1, FS_CardinalityType
<1>3. (t \in A <=> t \in B) => B = A
  OBVIOUS
<1>4. ASSUME t \in B, t \notin A PROVE Cardinality(B) = Cardinality(A) + 1
  <2>1. B = A \cup {t}
    BY <1>4
  <2> QED
    BY <1>1, <1>4, <2>1, FS_AddElement
<1>5. ASSUME t \in A, t \notin B PROVE Cardinality(B) = Cardinality(A) - 1
  <2>1. B = A \ {t}
    BY <1>5
  <2> QED
    BY <1>1, <1>5, <2>1, FS_RemoveElement
<1> QED
  BY <1>2, <1>3, <1>4, <1>5

LEMMA PermitsStep ==
  ASSUME Inv, NEW t \in Tasks, TaskStep(t), PermitsConserved
  PROVE  PermitsConserved'
<1>1. /\ \A s \in Tasks \ {t} : pc'[s] = pc[s] /\ url'[s] = url[s]
      /\ HoldsHost(t)' => url'[t] = url[t]
  BY DEF TaskStep, Frame, PermitStep
<1>2. \A s \in Tasks \ {t} : Host(s)' = Host(s)
  BY <1>1 DEF Host
<1>3. HoldsHost(t)' => Host(t)' = Host(t)
  BY <1>1 DEF Host
<1>4. ASSUME NEW h \in Hosts
      PROVE  hostFree'[h] = for_host(h) - Cardinality({s \in Tasks : HoldsHost(s)' /\ Host(s)' = h})
  <2> DEFINE A == {s \in Tasks : HoldsHost(s) /\ Host(s) = h}
             B == {s \in Tasks : HoldsHost(s)' /\ Host(s)' = h}
  <2>1. \A s \in Tasks \ {t} : s \in A <=> s \in B
    BY <1>1, <1>2 DEF HoldsHost
  <2>2. /\ t \in A <=> HoldsHost(t) /\ Host(t) = h
        /\ t \in B <=> HoldsHost(t)' /\ Host(t) = h
    BY <1>3
  <2>3. A \in SUBSET Tasks /\ B \in SUBSET Tasks
    OBVIOUS
  <2>4. hostFree[h] = for_host(h) - Cardinality(A)
    BY DEF PermitsConserved, HoldsHost
  <2>5. for_host(h) \in Int
    BY LimitsAssumption DEF for_host, AtLeastOne
  <2>6. HoldsHost(t) \/ HoldsHost(t)' => Host(t) \in Hosts
    BY HostKnown
  <2>7. hostFree \in [Hosts -> Int]
    BY DEF Inv, TypeInv
  <2>8. /\ Cardinality(A) \in Nat /\ Cardinality(B) \in Nat
        /\ (t \in A <=> t \in B) => Cardinality(B) = Cardinality(A)
        /\ t \in B /\ t \notin A => Cardinality(B) = Cardinality(A) + 1
        /\ t \in A /\ t \notin B => Cardinality(B) = Cardinality(A) - 1
    BY <2>1, <2>3, Recount
  <2> HIDE DEF A, B
  <2>9. CASE HoldsHost(t) <=> HoldsHost(t)'
    <3>1. hostFree' = hostFree
      BY <2>9 DEF TaskStep, PermitStep
    <3> QED
      BY <2>2, <2>4, <2>8, <2>9, <3>1 DEF B
  <2>10. CASE ~HoldsHost(t) /\ HoldsHost(t)'
    <3>1. hostFree' = [hostFree EXCEPT ![Host(t)] = @ - 1]
      BY <2>10 DEF TaskStep, PermitStep
    <3>2. hostFree'[h] = IF Host(t) = h THEN hostFree[h] - 1 ELSE hostFree[h]
      BY <2>6, <2>7, <2>10, <3>1
    <3>3. Cardinality(B) = IF Host(t) = h THEN Cardinality(A) + 1 ELSE Cardinality(A)
      BY <2>2, <2>8, <2>10
    <3>4. hostFree'[h] = for_host(h) - Cardinality(B)
      BY <2>4, <2>5, <2>8, <3>2, <3>3
    <3> QED
      BY <3>4 DEF B
  <2>11. CASE HoldsHost(t) /\ ~HoldsHost(t)'
    <3>1. hostFree' = [hostFree EXCEPT ![Host(t)] = @ + 1]
      BY <2>11 DEF TaskStep, PermitStep
    <3>2. hostFree'[h] = IF Host(t) = h THEN hostFree[h] + 1 ELSE hostFree[h]
      BY <2>6, <2>7, <2>11, <3>1
    <3>3. Cardinality(B) = IF Host(t) = h THEN Cardinality(A) - 1 ELSE Cardinality(A)
      BY <2>2, <2>8, <2>11
    <3>4. hostFree'[h] = for_host(h) - Cardinality(B)
      BY <2>4, <2>5, <2>8, <3>2, <3>3
    <3> QED
      BY <3>4 DEF B
  <2> QED
    BY <2>9, <2>10, <2>11
<1>5. connFree' = Connections - Cardinality({s \in Tasks : HoldsConnection(s)'})
  <2> DEFINE A == {s \in Tasks : HoldsConnection(s)}
             B == {s \in Tasks : HoldsConnection(s)'}
  <2>1. \A s \in Tasks \ {t} : s \in A <=> s \in B
    BY <1>1 DEF HoldsConnection
  <2>2. connFree = Connections - Cardinality(A) /\ Connections \in Int
    BY LimitsAssumption DEF PermitsConserved, HoldsConnection, Connections, AtLeastOne
  <2>3. (t \in A <=> HoldsConnection(t)) /\ (t \in B <=> HoldsConnection(t)')
    OBVIOUS
  <2>4. /\ Cardinality(A) \in Nat /\ Cardinality(B) \in Nat
        /\ (t \in A <=> t \in B) => Cardinality(B) = Cardinality(A)
        /\ t \in B /\ t \notin A => Cardinality(B) = Cardinality(A) + 1
        /\ t \in A /\ t \notin B => Cardinality(B) = Cardinality(A) - 1
    BY <2>1, Recount
  <2> HIDE DEF A, B
  <2>5. connFree' = Connections - Cardinality(B)
    BY <2>2, <2>3, <2>4 DEF TaskStep, PermitStep
  <2> QED
    BY <2>5 DEF B
<1>6. localFree' = MaxLocalJobs - Cardinality({s \in Tasks : HoldsLocal(s)'})
  <2> DEFINE A == {s \in Tasks : HoldsLocal(s)}
             B == {s \in Tasks : HoldsLocal(s)'}
  <2>1. \A s \in Tasks \ {t} : s \in A <=> s \in B
    BY <1>1 DEF HoldsLocal
  <2>2. localFree = MaxLocalJobs - Cardinality(A) /\ MaxLocalJobs \in Int
    BY LimitsAssumption DEF PermitsConserved, HoldsLocal
  <2>3. (t \in A <=> HoldsLocal(t)) /\ (t \in B <=> HoldsLocal(t)')
    OBVIOUS
  <2>4. /\ Cardinality(A) \in Nat /\ Cardinality(B) \in Nat
        /\ (t \in A <=> t \in B) => Cardinality(B) = Cardinality(A)
        /\ t \in B /\ t \notin A => Cardinality(B) = Cardinality(A) + 1
        /\ t \in A /\ t \notin B => Cardinality(B) = Cardinality(A) - 1
    BY <2>1, Recount
  <2> HIDE DEF A, B
  <2>5. localFree' = MaxLocalJobs - Cardinality(B)
    BY <2>2, <2>3, <2>4 DEF TaskStep, PermitStep
  <2> QED
    BY <2>5 DEF B
<1> QED
  BY <1>4, <1>5, <1>6 DEF PermitsConserved, HoldsHost, HoldsConnection, HoldsLocal

LEMMA PermitsInit == Init => PermitsConserved
<1> SUFFICES ASSUME Init PROVE PermitsConserved
  OBVIOUS
<1>1. \A t \in Tasks : pc[t] \in {"start", "idle"}
  BY DEF Init
<1>2. /\ \A h \in Hosts : {t \in Tasks : pc[t] \in {"global", "transfer"} /\ Host(t) = h} = {}
      /\ {t \in Tasks : pc[t] = "transfer"} = {}
      /\ {t \in Tasks : pc[t] \in {"copy", "import"}} = {}
  BY <1>1
<1>3. /\ \A h \in Hosts : for_host(h) \in Int
      /\ Connections \in Int /\ MaxLocalJobs \in Int
  BY LimitsAssumption DEF for_host, Connections, AtLeastOne
<1>4. /\ \A h \in Hosts : hostFree[h] = for_host(h)
      /\ connFree = Connections /\ localFree = MaxLocalJobs
  BY DEF Init
<1>5. Cardinality({}) = 0
  BY FS_EmptySet
<1>6. /\ \A h \in Hosts : hostFree[h] = for_host(h) - 0
      /\ connFree = Connections - 0 /\ localFree = MaxLocalJobs - 0
  BY <1>3, <1>4
<1> QED
  BY <1>2, <1>5, <1>6, Zenon DEF PermitsConserved

LEMMA PermitsKept == Inv /\ PermitsConserved /\ [Next]_vars => PermitsConserved'
<1> SUFFICES ASSUME Inv, PermitsConserved, [Next]_vars PROVE PermitsConserved'
  OBVIOUS
<1>1. CASE Signal \/ Monitor \/ UNCHANGED vars
  <2>1. UNCHANGED <<permits, pc, url>>
    BY <1>1 DEF Signal, Monitor, vars, walk
  <2> QED
    BY <2>1 DEF PermitsConserved, permits, Host
<1>2. ASSUME NEW t \in Tasks, Progress(t) \/ Transfer(t) PROVE PermitsConserved'
  BY <1>2, EveryTaskStep, PermitsStep
<1> QED
  BY <1>1, <1>2 DEF Next

----------------------------------------------------------------------------
(* The theorems.                                                           *)

\* Every free permit of a host, of the connections and of local I/O is one that no
\* task uses: none is lost or returned twice, whichever of the waits, attempts and
\* pauses of acquire and run_attempts a cancellation interrupts.
THEOREM PermitsAlwaysConserved == Spec => []PermitsConserved
<1>1. Spec => [](Inv /\ PermitsConserved)
  BY InvInit, InvStep, PermitsInit, PermitsKept, PTL DEF Spec
<1> QED
  BY <1>1, PTL

LEMMA InvExhausts == Inv => MirrorsExhausted
<1> SUFFICES ASSUME Inv, NEW t \in Tasks
             PROVE  /\ event[t].kind = "Started" => event[t].attempt = started[t][event[t].url]
                    /\ \A i \in Mirrors(t) : started[t][i] <= Attempts
                    /\ (Origin[t] = "Http" /\ \E i \in Mirrors(t) : started[t][i] > 1)
                         => \A j \in Mirrors(t) : started[t][j] > 0
                    /\ (Origin[t] = "Http" /\ outcome[t] = "failed" /\ blob[t] # "whole" /\ ~token)
                         => \A i \in Mirrors(t) : started[t][i] > 0 /\ (worth[t][i] => started[t][i] = Attempts)
                    /\ (pc[t] = "done" /\ Origin[t] # "Path" /\ t \notin UnlinkFails) => blob[t] # "partial"
  BY DEF MirrorsExhausted
<1>1. Announced(t) /\ Budget(t) /\ Exhausted(t) /\ Tidy(t) /\ Shape(t)
  BY DEF Inv, TaskInv
<1> QED
  BY <1>1 DEF Announced, Budget, Exhausted, Tidy, Shape

\* The two passes over the mirrors keep the budget of every URL, count each attempt
\* once and ask every mirror before any is asked again; a download that fails has
\* used up what its budget allows, and leaves no half-written file behind
\* (download_first_success, run_attempts and UrlAttemptState together).
THEOREM MirrorsAlwaysExhausted == Spec => []MirrorsExhausted
<1>1. Spec => []Inv
  BY InvInit, InvStep, PTL DEF Spec
<1> QED
  BY <1>1, InvExhausts, PTL

----------------------------------------------------------------------------
(* Cancellation.  Each step is looked at once the token is set.            *)
Clean(t) ==
  /\ outcome[t] # "failed" /\ outcome'[t] = "failed" => t \in UnlinkFails
  /\ started' = started /\ localFree' >= localFree

LEMMA CancelledCleanly ==
  ASSUME Inv, token, NEW t \in Tasks, NEW n, ReturnCancelled(t, n), UNCHANGED <<started, localFree>>
  PROVE  Clean(t)
<1>1. outcome' = outcome \/ outcome' = [outcome EXCEPT ![t] = "cancelled"]
  BY DEF ReturnCancelled, ReturnError, WalkOn, FetchFailed, PullFailed
<1>2. ~(outcome'[t] = "failed" /\ outcome[t] # "failed")
  BY <1>1 DEF Inv, TypeInv
<1>3. localFree \in Int
  BY DEF Inv, TypeInv
<1> QED
  BY <1>2, <1>3 DEF Clean

LEMMA TaskCancelledCleanly ==
  ASSUME Inv, token, NEW t \in Tasks, Progress(t) \/ Transfer(t)
  PROVE  Clean(t)
<1>1. localFree \in Int /\ outcome \in [Tasks -> Outcomes]
  BY DEF Inv, TypeInv
<1>2. CASE TakeHost(t) \/ TakeConnection(t)
  BY <1>2, CancelledCleanly DEF TakeHost, TakeConnection
<1>3. CASE BackoffElapses(t) \/ ResumeElapses(t)
  BY <1>3, CancelledCleanly DEF BackoffElapses, ResumeElapses, Acquire, permits
<1>4. CASE Begin(t)
  <2>1. UNCHANGED <<started, localFree>>
    BY <1>4 DEF Begin, permits
  <2>2. CASE Origin[t] = "Repository"
    BY <1>4, <2>1, <2>2, CancelledCleanly DEF Begin, Acquire
  <2>3. CASE Origin[t] # "Repository"
    BY <1>1, <1>4, <2>1, <2>3 DEF Begin, Clean
  <2> QED
    BY <2>2, <2>3
<1>5. CASE FirstPass(t) \/ TurnAround(t) \/ SecondPass(t) \/ Finalize(t) \/ TakeLocal(t) \/ PollLocal(t)
  <2>1. UNCHANGED <<started, localFree, outcome>>
    BY <1>5 DEF FirstPass, TurnAround, SecondPass, Finalize, TakeLocal, PollLocal, permits
  <2> QED
    BY <1>1, <2>1 DEF Clean
<1>6. CASE Copy(t) \/ Import(t)
  <2>1. UNCHANGED <<started, outcome>> /\ localFree' = localFree + 1
    BY <1>6 DEF Copy, Import
  <2> QED
    BY <1>1, <2>1 DEF Clean
<1>7. CASE Settle(t)
  <2>1. UNCHANGED <<started, localFree>>
    BY <1>7 DEF Settle, permits
  <2>2. \E b \in Removed(t) : outcome' = [outcome EXCEPT ![t] = IF b = "none" THEN "cancelled" ELSE "failed"]
    BY <1>7 DEF Settle
  <2> QED
    BY <1>1, <2>1, <2>2 DEF Clean, Removed
<1>11. CASE RemovePartial(t)
  <2>1. UNCHANGED <<started, localFree>>
    BY <1>11 DEF RemovePartial, permits
  <2>2. \E b \in Removed(t) : outcome' = [outcome EXCEPT ![t] = IF b = "none" THEN @ ELSE "failed"]
    BY <1>11 DEF RemovePartial
  <2> QED
    BY <1>1, <2>1, <2>2 DEF Clean, Removed
<1>8. CASE Woken(t)
  <2>1. UNCHANGED <<started, localFree>>
    BY <1>8 DEF Woken, WakeHostWaiter, WakeConnectionWaiter, AbortTransfer, WakeBackoff, WakeResume, permits
  <2>2. CASE WakeResume(t)
    BY <1>1, <2>1, <2>2 DEF WakeResume, Clean
  <2>3. CASE ~WakeResume(t)
    BY <1>8, <2>1, <2>3, CancelledCleanly DEF Woken, WakeHostWaiter, WakeConnectionWaiter, AbortTransfer, WakeBackoff
  <2> QED
    BY <2>2, <2>3
<1>9. CASE CreateFile(t)
  BY <1>1, <1>9 DEF CreateFile, Clean, permits
<1>10. CASE EndAttempt(t)
  <2>1. UNCHANGED <<started, localFree>>
    BY <1>10 DEF EndAttempt
  <2>2. CASE AttemptDone(t)
    <3>1. outcome'[t] # "failed"
      BY <1>1, <2>2 DEF AttemptDone
    <3> QED
      BY <1>1, <2>1, <3>1 DEF Clean
  <2>3. CASE ReturnCancelled(t, index[t])
    BY <2>1, <2>3, CancelledCleanly
  <2> QED
    BY <1>10, <2>2, <2>3 DEF EndAttempt, AttemptFailed
<1> QED
  BY <1>2, <1>3, <1>4, <1>5, <1>6, <1>7, <1>8, <1>9, <1>10, <1>11 DEF Progress, Transfer

LEMMA CleanStep ==
  ASSUME Inv, token, Next
  PROVE  /\ \A t \in Tasks : outcome[t] # "failed" /\ outcome'[t] = "failed" => t \in UnlinkFails
         /\ started' = started /\ localFree' >= localFree
<1>1. CASE Signal \/ Monitor
  <2>1. localFree \in Int
    BY DEF Inv, TypeInv
  <2> QED
    BY <1>1, <2>1 DEF Signal, Monitor, permits
<1>2. ASSUME NEW t \in Tasks, Progress(t) \/ Transfer(t)
      PROVE  /\ \A s \in Tasks : outcome[s] # "failed" /\ outcome'[s] = "failed" => s \in UnlinkFails
             /\ started' = started /\ localFree' >= localFree
  <2>1. Clean(t)
    BY <1>2, TaskCancelledCleanly
  <2>2. \A s \in Tasks \ {t} : outcome'[s] = outcome[s]
    BY <1>2, EveryTaskStep DEF TaskStep, Frame
  <2> QED
    BY <2>1, <2>2 DEF Clean
<1> QED
  BY <1>1, <1>2 DEF Next

\* Once the run is cancelled no attempt and no local work begins, and nothing newly
\* fails but a task whose files resist removal, whatever every task was waiting for
\* (the checks of the token around both acquires and in run_attempts).
THEOREM CancellationAlwaysClean == Spec => CancellationClean
<1>1. Spec => []Inv
  BY InvInit, InvStep, PTL DEF Spec
<1>2. Inv /\ [Next]_vars =>
        [token => /\ \A t \in Tasks : outcome[t] # "failed" /\ outcome'[t] = "failed" => t \in UnlinkFails
                  /\ started' = started /\ localFree' >= localFree]_vars
  BY CleanStep
<1> QED
  BY <1>1, <1>2, PTL DEF Spec, CancellationClean
=============================================================================
