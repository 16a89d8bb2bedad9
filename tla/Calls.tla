-------------------------------- MODULE Calls --------------------------------
(***************************************************************************)
(* Algorithms that map one value to another: a behaviour is one call, of an  *)
(* input that is chosen at the start.                                        *)
(***************************************************************************)
VARIABLES input, output, answered

Unanswered == output = [ok |-> FALSE] /\ answered = FALSE
Call(op, result) ==
  /\ ~answered /\ input.op = op
  /\ answered' = TRUE /\ output' = result
  /\ UNCHANGED input
Answered(op) == answered /\ input.op = op
=============================================================================
