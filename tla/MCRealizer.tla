----------------------------- MODULE MCRealizer -----------------------------
(* Two graphs for TLC, one of them in a behaviour: the fork, where a       *)
(* builder fails, an origin hangs and the run is cancelled, and the        *)
(* diamond, where providers and earlier runs disagree.                     *)
EXTENDS Realizer, TLC

CONSTANTS src, dep, app, tool,          \* nodes
          hs, hd, hd2, ha, ha2, ht      \* hashes

VARIABLE scene                          \* which of the graphs it is

NoBuilds == [k \in Keys |-> None]
BuildOutputs == [k \in Keys |-> CASE k = src -> {} [] k = dep -> {hd} [] k = app -> {ha} [] k = tool -> {ht}]
SourceHash == [k \in {src} |-> hs]

\* app needs dep and src, tool needs dep.  Providers map all but tool to one
\* hash nobody has; dep meets it again when its reuse key is asked for.  They
\* also name for app what tool builds: app may find it missing, tool look for
\* it after its build.
Fork == [k \in Keys |-> CASE k = app -> <<dep, src>> [] k = tool -> <<dep>> [] OTHER -> <<>>]
SharedBuilds == [k \in Keys |-> CASE k = tool -> <<>> [] k = app -> <<hs, ht>> [] OTHER -> <<hs>>]
SharedReuses == [r \in ReuseKeys |-> IF r = <<dep, <<>>>> THEN <<hs>> ELSE <<>>]

\* app needs dep and src, tool needs dep, dep needs src.
Diamond ==
  [k \in Keys |-> CASE k = src -> <<>> [] k = dep -> <<src>> [] k = app -> <<dep, src>> [] k = tool -> <<dep>>]
\* Providers disagree about dep and have its content under one hash only;
\* one of the two leads to a cached app that has no content any more.
ConflictBuilds == [k \in Keys |-> IF k = dep THEN <<hd2, hd>> ELSE <<>>]
ConflictReuses ==
  [r \in UNION {{k} \X [1..Len(Diamond[k]) -> Hashes] : k \in Keys \ Sources} |->
     IF r = <<app, <<hd2, hs>>>> THEN <<ha2>> ELSE IF r = <<app, <<hd, hs>>>> THEN <<ha>> ELSE <<>>]
\* An earlier run built tool, but its object is gone.
StaleBuilds == [k \in Keys |-> IF k = tool THEN ht ELSE None]

DR == INSTANCE Realizer WITH
  Inputs <- Diamond, SecondaryBuilds <- ConflictBuilds, SecondaryReuses <- ConflictReuses,
  StoredBuilds <- StaleBuilds, Failing <- {}, Hanging <- {}, Signals <- FALSE

ScenesInit ==
  \/ scene = "fork" /\ Init
  \/ scene = "diamond" /\ DR!Init
ScenesNext ==
  \/ scene = "fork" /\ Next /\ UNCHANGED scene
  \/ scene = "diamond" /\ DR!Next /\ UNCHANGED scene
ScenesSpec == ScenesInit /\ [][ScenesNext]_<<vars, scene>>
\* The runtime polls every ready task; a signal may or may not come.
ScenesProgress ==
  \/ scene = "fork" /\ Progress /\ UNCHANGED scene
  \/ scene = "diamond" /\ DR!Progress /\ UNCHANGED scene
FairScenes == ScenesSpec /\ WF_<<vars, scene>>(ScenesProgress)
=============================================================================
