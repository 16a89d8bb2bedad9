---------------------------- MODULE RunTransport ----------------------------
(***************************************************************************)
(* The failure memory of one run (crate bobr-repo: RunTransport of         *)
(* transport.rs).  A map gives every URL in use a gate, an asynchronous    *)
(* mutex around the failure recorded for it.  A caller takes the gate out  *)
(* of the map (Arc), waits for it, and requests the URL unless a failure   *)
(* is recorded.  After a success the entry is dropped from the map, but    *)
(* only by a caller that shares the gate with nobody.  A caller may be     *)
(* dropped at any await.                                                   *)
(***************************************************************************)
EXTENDS Integers, FiniteSets

CONSTANTS
  Callers,
  Urls,
  Answers,     \* per URL, how the wrapped transport may answer: "ok", "transport", "other"
  MaxGates     \* bound on the gates created

ASSUME CallersAssumption == IsFiniteSet(Callers)
ASSUME GatesAssumption == MaxGates \in Nat \ {0}
ASSUME AnswersAssumption == \A u \in Urls : Answers[u] \subseteq {"ok", "transport", "other"}

VARIABLES
  gates,      \* gates created so far: url, recorded failure, whether it is locked
  resources,  \* the map: per URL, its gate or 0
  pc, url,    \* per caller, where it is and what it fetches
  gate,       \* per caller, the gate it holds a reference to, or 0
  failed,     \* URLs whose request has ended in a transport failure
  repeated    \* URLs requested after that

vars == <<gates, resources, pc, url, gate, failed, repeated>>
GateIds == DOMAIN gates

Init ==
  /\ gates = [g \in {} |-> <<>>]
  /\ resources = [u \in Urls |-> 0]
  /\ pc = [c \in Callers |-> "idle"]
  /\ url \in [Callers -> Urls]
  /\ gate = [c \in Callers |-> 0]
  /\ failed = {} /\ repeated = {}

\* Arc::strong_count: the map's reference and the callers'.
strong_count(g) ==
  Cardinality({u \in Urls : resources[u] = g}) + Cardinality({c \in Callers : gate[c] = g})

SetLocked(g, b) == gates' = [gates EXCEPT ![g].locked = b]

\* The gate is looked up or created under the map's lock.
Enter(c, u) ==
  LET new == Cardinality(GateIds) + 1
      g   == IF resources[u] # 0 THEN resources[u] ELSE new
  IN  /\ pc[c] = "idle" /\ g <= MaxGates
      /\ gates' = IF resources[u] # 0 THEN gates
                  ELSE [h \in GateIds \cup {new} |->
                          IF h = new THEN [locked |-> FALSE, failure |-> FALSE] ELSE gates[h]]
      /\ resources' = [resources EXCEPT ![u] = g]
      /\ gate' = [gate EXCEPT ![c] = g]
      /\ url' = [url EXCEPT ![c] = u]
      /\ pc' = [pc EXCEPT ![c] = "waiting"]
      /\ UNCHANGED <<failed, repeated>>

\* The gate is taken; a recorded failure is returned, otherwise the request starts.
Lock(c) ==
  LET g == gate[c]
  IN  /\ pc[c] = "waiting" /\ ~ gates[g].locked
      /\ SetLocked(g, TRUE)
      /\ pc' = [pc EXCEPT ![c] = IF gates[g].failure THEN "leaving" ELSE "requesting"]
      /\ repeated' = IF gates[g].failure THEN repeated ELSE repeated \cup ({url[c]} \cap failed)
      /\ UNCHANGED <<resources, url, gate, failed>>

\* Only a transport failure is recorded.
Answer(c) ==
  /\ pc[c] = "requesting"
  /\ \E a \in Answers[url[c]] :
       /\ gates' = [gates EXCEPT ![gate[c]].failure = (a = "transport")]
       /\ failed' = IF a = "transport" THEN failed \cup {url[c]} ELSE failed
       /\ pc' = [pc EXCEPT ![c] = IF a = "transport" THEN "leaving" ELSE "cleaning"]
  /\ UNCHANGED <<resources, url, gate, repeated>>

CleanAlways(c) ==
  /\ pc[c] = "cleaning"
  /\ resources' = [resources EXCEPT ![url[c]] = 0]
  /\ pc' = [pc EXCEPT ![c] = "leaving"]
  /\ UNCHANGED <<gates, url, gate, failed, repeated>>

\* Without a failure the entry goes, if the map and this caller are all that refer to the gate.
Clean(c) ==
  /\ pc[c] = "cleaning"
  /\ resources' = IF strong_count(gate[c]) = 2 THEN [resources EXCEPT ![url[c]] = 0] ELSE resources
  /\ pc' = [pc EXCEPT ![c] = "leaving"]
  /\ UNCHANGED <<gates, url, gate, failed, repeated>>

\* The guard is dropped first, the reference to the gate after it.
Unlock(c) ==
  /\ pc[c] = "leaving"
  /\ SetLocked(gate[c], FALSE)
  /\ pc' = [pc EXCEPT ![c] = "unlocked"]
  /\ UNCHANGED <<resources, url, gate, failed, repeated>>

Leave(c) ==
  /\ pc[c] = "unlocked"
  /\ gate' = [gate EXCEPT ![c] = 0]
  /\ pc' = [pc EXCEPT ![c] = "idle"]
  /\ UNCHANGED <<gates, resources, url, failed, repeated>>

DropLocked(c) ==
  /\ pc[c] \in {"waiting", "requesting"}
  /\ gate' = [gate EXCEPT ![c] = 0]
  /\ pc' = [pc EXCEPT ![c] = "idle"]
  /\ UNCHANGED <<gates, resources, url, failed, repeated>>

\* A caller is dropped while it waits for the gate or for the answer.
Drop(c) ==
  \/ /\ pc[c] = "waiting"
     /\ gate' = [gate EXCEPT ![c] = 0]
     /\ pc' = [pc EXCEPT ![c] = "idle"]
     /\ UNCHANGED <<gates, resources, url, failed, repeated>>
  \/ /\ pc[c] = "requesting"
     /\ pc' = [pc EXCEPT ![c] = "leaving"]
     /\ UNCHANGED <<gates, resources, url, gate, failed, repeated>>

Step(c) == Lock(c) \/ Answer(c) \/ Clean(c) \/ Unlock(c) \/ Leave(c)

Next == \E c \in Callers : (\E u \in Urls : Enter(c, u)) \/ Step(c) \/ Drop(c)

Spec == Init /\ [][Next]_vars

----------------------------------------------------------------------------
(* Properties *)

\* Once a request of a URL has failed in transport, the run never requests that
\* URL again, whoever was waiting for it or came later; and a URL is requested by
\* one caller at a time, also while its entry is being dropped from the map and
\* created anew; a gate is locked by the one caller that uses it, so that no caller
\* that was dropped leaves the others waiting for ever (RunTransport::fetch).
FailureRemembered ==
  /\ repeated = {}
  /\ \A c, d \in Callers :
       pc[c] = "requesting" /\ pc[d] = "requesting" /\ url[c] = url[d] => c = d
  /\ \A g \in GateIds :
       gates[g].locked <=> \E c \in Callers : gate[c] = g /\ pc[c] \in {"requesting", "cleaning", "leaving"}
=============================================================================
