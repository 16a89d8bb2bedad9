----------------------------- MODULE MCIsolation -----------------------------
(***************************************************************************)
(* What isolates a build, on small instances: calls of functions in other    *)
(* processes, the life cycle of one sandboxed build, and the layer that a    *)
(* build leaves.  A behaviour is about one of them.                          *)
(***************************************************************************)
EXTENDS Sandbox, NamespaceRuntime, SandboxLayer, TLC

VARIABLE part
all == <<sandboxVars, runtimeVars, layerVars, part>>

PathsDef ==
  {Top, <<"dev">>, <<"dev", "fd">>, <<"dev", "x">>} \cup {<<n>> : n \in {"d", "e", "n"}}
    \cup {<<m, n>> : m \in {"d", "e", "n"}, n \in {"f", "g"}}
RootfsDef ==
  {(Top :> Dir("a")) @@ (<<"d">> :> Dir("a")) @@ (<<"d", "f">> :> Fil("old")) @@ (<<"e">> :> Dir("a"))
     @@ (<<"e", "g">> :> Dir("b")) @@ (<<"dev">> :> Dir("b")),
   (Top :> Dir("a")) @@ (<<"__bobr">> :> Dir("a"))}

Init ==
  /\ part \in {"sandbox", "runtime", "layer"} /\ SandboxInit /\ RuntimeInit /\ LayerInit
  /\ part # "layer" => lower = CHOOSE r \in Rootfs : TRUE
InSandbox(A) == part = "sandbox" /\ A /\ UNCHANGED <<runtimeVars, layerVars, part>>
InRuntime(A) == part = "runtime" /\ A /\ UNCHANGED <<sandboxVars, layerVars, part>>
InLayer(A) == part = "layer" /\ A /\ UNCHANGED <<sandboxVars, runtimeVars, part>>
Next == InSandbox(SandboxNext) \/ InRuntime(RuntimeNext) \/ InLayer(LayerNext)
\* As long as a process or a thread can go on, one of them does, and what is
\* killed dies; the programs of a step may run for ever.
Fairness ==
  WF_all(\/ InSandbox(CallerStep \/ SupStep \/ InitStep \/ Kernel)
         \/ InRuntime(\E c \in Calls : ThreadStep(c) \/ WorkerStep(c)))
Spec == Init /\ [][Next]_all /\ Fairness

\* A cancelled build ends and takes all its processes with it, and every call
\* of a function in another process returns: the end of a dead worker is
\* noticed although workers of other calls may hold copies of its pipes.
IsolationEnds ==
  (part = "runtime" \/ SandboxOver)
     ~> IF part = "runtime" THEN \A c \in Calls : thread[c] = "done" ELSE SandboxGone
=============================================================================
