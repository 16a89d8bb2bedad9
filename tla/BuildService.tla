---------------------------- MODULE BuildService ----------------------------
(***************************************************************************)
(* What the build executor of bobr-source promises the realizer, with no   *)
(* mention of threads, channels or permits:                                *)
(*                                                                         *)
(*  - jobs are accepted one after another and start in that order;         *)
(*  - at most Limit jobs run at a time, and none starts once the service   *)
(*    is closed;                                                           *)
(*  - a job is answered at most once: either it is refused while it waits  *)
(*    in line, and then it never runs, or it is answered by its run;       *)
(*  - a run ends only after it has answered.                               *)
(***************************************************************************)
EXTENDS Naturals, FiniteSets

CONSTANTS Jobs,   \* jobs that may be submitted
          Limit   \* how many may run at a time

VARIABLES waiting,   \* accepted jobs that have neither started nor been refused
          ahead,     \* pairs of waiting jobs: the first one was accepted earlier
          running,   \* jobs that have a live worker
          answered,  \* jobs whose submitter has an answer to read
          closed     \* TRUE once no further job may start

serviceVars == <<waiting, ahead, running, answered, closed>>

ServiceInit ==
  /\ waiting = {}
  /\ ahead = {}
  /\ running = {}
  /\ answered = {}
  /\ closed = FALSE

Accept(j) ==
  /\ j \notin waiting \cup running \cup answered
  /\ waiting' = waiting \cup {j}
  /\ ahead' = ahead \cup (waiting \X {j})
  /\ UNCHANGED <<running, answered, closed>>

\* The jobs of S stop waiting; the others keep their order.
Remove(S) ==
  /\ waiting' = waiting \ S
  /\ ahead' = ahead \cap (waiting' \X waiting')

\* The job that waits longest starts.
Start(j) ==
  /\ j \in waiting
  /\ \A k \in waiting : <<k, j>> \notin ahead
  /\ ~closed
  /\ Cardinality(running) < Limit
  /\ running' = running \cup {j}
  /\ Remove({j})
  /\ UNCHANGED <<answered, closed>>

\* Any of the waiting jobs may be refused, together and in any state.
Refuse(S) ==
  /\ S # {}
  /\ S \subseteq waiting
  /\ Remove(S)
  /\ answered' = answered \cup S
  /\ UNCHANGED running
  /\ closed' \in {closed, TRUE}

Answer(j) ==
  /\ j \in running \ answered
  /\ answered' = answered \cup {j}
  /\ UNCHANGED <<waiting, ahead, running, closed>>

End(j) ==
  /\ j \in running \cap answered
  /\ running' = running \ {j}
  /\ UNCHANGED <<waiting, ahead, answered, closed>>

Close ==
  /\ ~closed
  /\ closed' = TRUE
  /\ UNCHANGED <<waiting, ahead, running, answered>>

ServiceNext ==
  \/ \E j \in Jobs : Accept(j) \/ Start(j) \/ Answer(j) \/ End(j)
  \/ \E S \in SUBSET Jobs : Refuse(S)
  \/ Close

ServiceSpec == ServiceInit /\ [][ServiceNext]_serviceVars
=============================================================================
