----------------------------- MODULE MCServices -----------------------------
(***************************************************************************)
(* The services that the parts of a run share, each on its own: the records  *)
(* of the run, its display, and the transport that remembers failures.       *)
(***************************************************************************)
EXTENDS RunLog, RunDisplay, RunTransport

CONSTANTS u1, u2, c1, c2, c3
VARIABLE part

NameDef == [t \in Threads |-> "n"]
EmittedDef ==
  [t \in Threads |-> {Event("failed", "error", "failed"),
                      IF t = "t1" THEN Event("done", "info", "built") ELSE Event("running", "progress", "none")}]
MaxEventsDef == [t \in Threads |-> IF t = "t1" THEN 2 ELSE 1]
MaxRawDef == [t \in Threads |-> IF t = "t1" THEN 0 ELSE 2]
Auto == [mode |-> "auto", lines |-> 0]
PoliciesDef == {Auto, [mode |-> "fixed", lines |-> 4], [mode |-> "fixed", lines |-> 3]}
\* One URL can answer in any way, the other never fails in transport.
AnyAnswer == [u \in Urls |-> IF u = u1 THEN {"ok", "transport", "other"} ELSE {"ok"}]

servicesVars == <<part, logVars, displayVars, vars>>
ServicesInit ==
  /\ part \in {"log", "display", "transport"}
  /\ LogInit /\ DisplayInit /\ Init
  /\ part # "display" => policy = Auto
  /\ (part # "display" \/ policy # Auto) => rows = 6
  /\ part # "transport" => url = [c \in Callers |-> u1]
ServicesNext ==
  /\ UNCHANGED part
  /\ \/ part = "log" /\ LogNext /\ UNCHANGED displayVars /\ UNCHANGED vars
     \/ part = "display" /\ DisplayNext /\ UNCHANGED logVars /\ UNCHANGED vars
     \/ part = "transport" /\ Next /\ UNCHANGED logVars /\ UNCHANGED displayVars
ServicesSpec == ServicesInit /\ [][ServicesNext]_servicesVars
=============================================================================
