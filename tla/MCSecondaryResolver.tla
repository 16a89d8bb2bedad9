------------------------ MODULE MCSecondaryResolver ------------------------
(* An instance of SecondaryResolver for TLC: two mapping providers that    *)
(* disagree, a local source between two remote ones, and a tree of more    *)
(* files than a batch holds, of which the other sources have some, too.    *)
EXTENDS SecondaryResolver

CONSTANTS c1, c2, tree, lib, f1, f2, f3, k1, k2, r1,
          Objects   \* the hashes of the instance

Requests ==
  [c \in Calls |-> IF c = c1 THEN [op |-> "reuses", keys |-> << <<k1, r1>>, <<k2, r1>> >>]
                             ELSE [op |-> "ensure", keys |-> <<tree, tree>>]]
Manifests == [h \in Objects |-> IF h = tree THEN <<f1, f2, f1, f3>> ELSE <<>>]
Mappings == [m \in DOMAIN Mappers |-> [k \in {r1} |-> IF m = 1 THEN <<tree>> ELSE <<lib, tree>>]]
SourceNames == <<"near", "disk", "far">>
MapperNames == <<"near", "far">>
Modes == [s \in {"near", "disk", "far"} |-> IF s = "disk" THEN "Copy" ELSE "Download"]
Contents == [s \in {"near", "disk", "far"} |->
               CASE s = "near" -> {tree, f1, f2, f3} [] s = "disk" -> {lib, f2} [] s = "far" -> {tree, f1}]
Points ==
  [p \in {<<"map", 1, r1>>, <<"fetch", 1, tree>>, <<"fetch", 1, f1>>, <<"import", 1, tree>>, <<"import", 2, lib>>} |->
     CASE p[1] = "map" -> {"down"}
       [] p = <<"fetch", 1, tree>> -> {"corrupt"}
       [] p = <<"import", 2, lib>> -> {"down", "gone"}
       [] OTHER -> {"down", "corrupt"}]
=============================================================================
