------------------------------ MODULE Requests ------------------------------
(***************************************************************************)
(* From a request to a run (bobr request.rs, realize.rs; bobr-source         *)
(* graph.rs, lib.rs; bobr-builder subject.rs, builder.rs; bobr-core          *)
(* identity.rs): what a request must look like, the graph of subjects that   *)
(* is planned from it, and the providers that are opened for it.             *)
(*                                                                          *)
(* A request is [nodes, goals, limits, progress, store, work, cache,         *)
(* providers].  A node is Broken, a                                          *)
(* source [tag, name, hash, origin, extra] or a builder node [tag, name,     *)
(* config, inputs, extra]; an input is the name of a node, or Null.  A key   *)
(* is the value that is hashed, which stands for its digest; a source's key  *)
(* is its hash.  Names are atomic; BadRefs and BadInputs are the ones that   *)
(* validate_ref_name and ValidInputName turn down.                      *)
(***************************************************************************)
EXTENDS Files, Calls

CONSTANTS Builders,        \* tag -> [required, optional, extra, version]
          Spellings,       \* what a tag of a request means, by ASCII case
          ConfigValues,    \* a builder's configuration as it is understood, or Null
          BadRefs, BadInputs

Null == "null"
Broken == [tag |-> Null]

------------------------------------------------------------------------------
(* The request.                                                             *)

validate_nodes(nodes) == \A id \in DOMAIN nodes : nodes[id].tag # Null
validate_goals(goals, nodes) == goals # <<>> /\ IsInjective(goals) /\ ToSet(goals) \subseteq DOMAIN nodes
\* A limit that is not given is not 0.
validate_limits(limits) == \A l \in DOMAIN limits : limits[l] # 0
MIN_FIXED_PROGRESS_LINES == 4
validate_progress(progress) == progress.mode = "fixed" => progress.max_lines >= MIN_FIXED_PROGRESS_LINES
IsAbsolute(path) == path # "relative"
\* A cache that is not named is below the store.
parse_json(request) ==
  /\ validate_nodes(request.nodes) /\ validate_goals(request.goals, request.nodes)
  /\ validate_limits(request.limits) /\ validate_progress(request.progress)
  /\ IsAbsolute(request.store) /\ (request.cache # Null => IsAbsolute(request.cache))

------------------------------------------------------------------------------
(* Keys.                                                                    *)

KeyWithoutNames(schema, tag, version, config, inputs) ==
  <<schema, tag, version, config, {inputs[n] : n \in DOMAIN inputs}>>
compute_key(schema, tag, version, config, inputs) ==
  <<schema, tag, version, config, {<<n, inputs[n]>> : n \in DOMAIN inputs}>>
build_key(tag, config, inputs) == compute_key("build", tag, Builders[tag].version, config, inputs)

------------------------------------------------------------------------------
(* Planning.  A plan is [nodes, keys, path]: the planned subjects by key,    *)
(* the keys of the request's nodes, and the nodes being planned.             *)

ValidInputName(name) == name \notin BadInputs
validate_ref_name(name) == name \notin BadRefs
IsReserved(spec, name) == name \in spec.required \cup spec.optional
\* BuilderPlannedSubject::new
AcceptsInputs(spec, names) ==
  /\ \A n \in names : ValidInputName(n) /\ (spec.extra \/ IsReserved(spec, n))
  /\ spec.required \subseteq names
parse_builder_subject(node, inputs) ==
  IF node.extra \/ node.tag \notin DOMAIN Spellings THEN Err
  ELSE LET tag == Spellings[node.tag]
           config == ConfigValues[node.config]
       IN IF ~AcceptsInputs(Builders[tag], DOMAIN inputs) \/ config = Null THEN Err
          ELSE Ok([key |-> build_key(tag, config, inputs),
                   subject |-> [kind |-> "builder", name |-> node.name, inputs |-> inputs]])
parse_source_subject(node) ==
  IF node.hash = Null \/ node.origin = "bad" \/ node.extra THEN Err
  ELSE Ok([key |-> <<node.hash>>, subject |-> [kind |-> "source", name |-> node.name, origin |-> node.origin]])
parse_input_value(value) == IF value = Null THEN Err ELSE Ok(value)

Added(f, k, v) == [x \in DOMAIN f \cup {k} |-> IF x = k THEN v ELSE f[x]]
\* A subject that is planned already stays the one for its key.
Planned(st, id, key, subject) ==
  [nodes |-> IF key \in DOMAIN st.nodes THEN st.nodes ELSE Added(st.nodes, key, subject),
   keys |-> Added(st.keys, id, key), path |-> st.path \ {id}]
RECURSIVE collect(_, _, _)
collect(request, st, id) ==
  IF id \in DOMAIN st.keys THEN Ok(st)
  ELSE IF id \in st.path \/ id \notin DOMAIN request \/ request[id].tag = Null THEN Err
  ELSE
  LET node == request[id]
      within == [st EXCEPT !.path = @ \cup {id}]
      finish(s, parsed) == Then(parsed, LAMBDA p : IF ~validate_ref_name(p.subject.name) THEN Err ELSE Ok(Planned(s, id, p.key, p.subject)))
      children == ForEach(within, Listing(DOMAIN node.inputs),
                    LAMBDA s, n : Then(parse_input_value(node.inputs[n]), LAMBDA child : collect(request, s, child)))
  IN IF node.tag = "Source" THEN finish(within, parse_source_subject(node))
     ELSE Then(children, LAMBDA s :
            finish(s, parse_builder_subject(node, [n \in DOMAIN node.inputs |-> s.keys[node.inputs[n]]])))
plan_graph(request, goals) ==
  IF ~validate_goals(goals, request) THEN Err
  ELSE Then(ForEach([nodes |-> [k \in {} |-> 0], keys |-> [n \in {} |-> 0], path |-> {}], goals, LAMBDA s, g : collect(request, s, g)),
            LAMBDA s : Ok([goals |-> [i \in DOMAIN goals |-> s.keys[goals[i]]], nodes |-> s.nodes]))

------------------------------------------------------------------------------
(* Providers: [name, capability, kind, at, valid, transfer, trust].  A local *)
(* one is at a path, absolute if valid, and has a transfer mode or Null; a   *)
(* remote one is at a URL, plain https if valid, with the keys and           *)
(* certificates it trusts.  All are compared as they are written, and local  *)
(* stores once more by their real roots when they are opened.                *)

\* validate_secondaries: the providers before p, in the order of the request.
Identity(p) == <<p.kind, p.at>>
ValidProvider(p, store) ==
  p.valid /\ IF p.kind = "local" THEN p.at # store /\ (p.transfer = Null <=> p.capability = "mappings") ELSE p.trust # {}
Compatible(p, q) ==
  /\ ~(p.capability = q.capability /\ p.name = q.name)
  /\ ~(p.capability = q.capability /\ Identity(p) = Identity(q))
  /\ (p.kind = "remote" /\ q.kind = "remote" /\ p.at = q.at) => p.trust = q.trust
  /\ p.name = q.name => Identity(p) = Identity(q) \/ (p.kind = "local" /\ q.kind = "local")
validate_secondaries(providers, store) ==
  \A i \in DOMAIN providers :
    /\ providers[i].name # "" /\ ValidProvider(providers[i], store)
    /\ \A j \in 1..(i - 1) : Compatible(providers[i], providers[j])

\* open_providers, with the real roots of the stores and the file systems
\* they are on.
OpensBeside(p, q, Real) ==
  (p.kind = "local" /\ q.kind = "local") =>
    /\ ~(p.capability = q.capability /\ Real[p.at].root = Real[q.at].root)
    /\ p.name = q.name => Real[p.at].root = Real[q.at].root
\* validate_hardlink_compatible_with: either part may be mounted on its own.
Linkable(p, store, Real) == Real[p].objects = Real[store].objects /\ Real[p].files = Real[store].files
OpensAlone(p, store, Real) ==
  p.kind = "local" =>
    /\ Real[p.at].root \notin {Null, Real[store].root}
    /\ p.transfer = "hardlink" => Linkable(p.at, store, Real)
open_providers(providers, store, Real) ==
  \A i \in DOMAIN providers :
    OpensAlone(providers[i], store, Real) /\ \A j \in 1..(i - 1) : OpensBeside(providers[i], providers[j], Real)
\* One repository for each root or URL, whoever asks for it.
Repository(p, Real) == IF p.kind = "local" THEN <<"local", Real[p.at].root>> ELSE Identity(p)
provider_capabilities(providers, Real) ==
  [c \in {"mappings", "content"} |->
     LET own == SelectSeq(providers, LAMBDA p : p.capability = c)
     IN [i \in DOMAIN own |-> [name |-> own[i].name, repository |-> Repository(own[i], Real), transfer |-> own[i].transfer]]]

\* A request that is taken: its plan and its providers.
check_same_filesystem(store, work, Real) == Real[store].device = Real[work].device
realize(request, Real) ==
  IF ~parse_json(request) \/ ~validate_secondaries(request.providers, request.store) THEN Err
  ELSE Then(plan_graph(request.nodes, request.goals), LAMBDA graph :
         IF ~check_same_filesystem(request.store, request.work, Real) \/ ~open_providers(request.providers, request.store, Real) THEN Err
         ELSE Ok([graph |-> graph, providers |-> provider_capabilities(request.providers, Real)]))

------------------------------------------------------------------------------
(***************************************************************************)
(* Requests, good and bad ones, and what a run makes of them.                *)
(***************************************************************************)

BuildersDef == [t \in {"Group", "Export"} |->
  IF t = "Group" THEN [required |-> {}, optional |-> {}, extra |-> TRUE, version |-> "2/1"]
  ELSE [required |-> {"input"}, optional |-> {"also"}, extra |-> FALSE, version |-> "2/4"]]
SpellingsDef == [t \in {"Group", "group", "Export"} |-> IF t = "group" THEN "Group" ELSE t]
ConfigValuesDef == [c \in {"c", "c, in another order", "d", "unknown field"} |->
  IF c = "unknown field" THEN Null ELSE IF c = "c, in another order" THEN "c" ELSE c]

SourceNode(name, hash, origin, extra) == [tag |-> "Source", name |-> name, hash |-> hash, origin |-> origin, extra |-> extra]
Node(tag, config, inputs) == [tag |-> tag, name |-> "n", config |-> config, inputs |-> inputs, extra |-> FALSE]
One(n, id) == [x \in {n} |-> id]
Two(id1, id2) == [x \in {"x", "y"} |-> IF x = "x" THEN id1 ELSE id2]
NoInputs == [x \in {} |-> ""]
NodeKinds ==
  {SourceNode("n", "h1", "none", FALSE), SourceNode("m", "h1", "good", FALSE),
   Node("Group", "c", NoInputs), Node("group", "c, in another order", NoInputs), Node("Group", "d", NoInputs),
   Node("Group", "c", Two("b", "c")), Node("Group", "c", Two("c", "b")), Node("Group", "c", Two("a", "c")), Node("Group", "c", One("x", "b")),
   Node("Group", "c", One("x", "c")), Node("Group", "c", One("y", "c")), Node("Export", "c", One("input", "c"))}
OddNodes ==
  {SourceNode("n", Null, "none", FALSE), SourceNode("n", "h1", "bad", FALSE), SourceNode("n", "h1", "none", TRUE), SourceNode("bad/ref", "h1", "none", FALSE),
   Node("Group", "unknown field", NoInputs), Node("Groups", "c", NoInputs), Node("Export", "c", NoInputs), Node("Export", "c", Two("b", "b")),
   Node("Group", "c", One("x", "d")), Node("Group", "c", One("1x", "b")), Node("Group", "c", One("x", Null)), [Node("Group", "c", NoInputs) EXCEPT !.extra = TRUE], Broken}
GoalLists == {<<"a">>, <<"a", "b">>, <<"b", "a">>}

Provider(name, capability, at, transfer) ==
  [name |-> name, capability |-> capability, kind |-> "local", at |-> at, valid |-> at # "relative", transfer |-> transfer, trust |-> {}]
Remote(name, capability, at, trust) ==
  [name |-> name, capability |-> capability, kind |-> "remote", at |-> at, valid |-> at # "http", transfer |-> Null, trust |-> trust]
\* Two ways to one store, one to the working store, a store on another disk
\* and one of which only the files are there.
On(root, device, objects, files) == [root |-> root, device |-> device, objects |-> objects, files |-> files]
RealDef == [p \in {"/w", "/w2", "/s", "/s2", "/far", "/split", "/gone"} |->
  CASE p \in {"/w", "/w2"} -> On("w", 1, 1, 1) [] p \in {"/s", "/s2"} -> On("s", 1, 1, 1)
    [] p = "/far" -> On("far", 2, 2, 2) [] p = "/split" -> On("split", 1, 1, 2) [] p = "/gone" -> On(Null, 0, 0, 0)]
ProviderKinds ==
  {Provider("p", "mappings", at, Null) : at \in {"/s", "/s2", "/far"}}
    \cup {Provider(n, "content", at, "hardlink") : n \in {"p", "q"}, at \in {"/s", "/s2", "/far"}}
    \cup {Remote(n, c, "https", t) : n \in {"p", "q"}, c \in {"mappings", "content"}, t \in {{"k"}, {"k", "l"}}}
OddProviders ==
  {Provider("p", "mappings", "/s", "copy"), Provider("p", "content", "/s", Null), Provider("", "mappings", "/s", Null), Remote("p", "content", "https", {}),
   Remote("p", "content", "http", {"k"})}
    \cup {Provider("p", "content", at, "copy") : at \in {"/w", "/w2", "/gone", "relative", "/far"}}
    \cup {Provider("p", "content", "/split", transfer) : transfer \in {"copy", "hardlink"}}

RequestOf(nodes, goals, jobs, providers) ==
  [op |-> "request", store |-> "/w", work |-> "/w", cache |-> Null, progress |-> [mode |-> "auto"], nodes |-> nodes, goals |-> goals, limits |-> [l \in {"jobs"} |-> jobs], providers |-> providers]
Three(x, y, z) == [id \in {"a", "b", "c"} |-> CASE id = "a" -> x [] id = "b" -> y [] id = "c" -> z]
LeafNode == SourceNode("n", "h1", "none", FALSE)
Plain3 == Three(Node("Group", "c", One("x", "b")), LeafNode, LeafNode)
ProviderLists == {<<>>} \cup {<<p>> : p \in ProviderKinds \cup OddProviders} \cup (ProviderKinds \X ProviderKinds)
                   \cup (ProviderKinds \X ProviderKinds \X {Remote("q", "content", "https", {"k"}), Provider("q", "content", "/s2", "copy")})
RequestCases ==
  {RequestOf(Three(x, y, z), g, 1, <<>>) : x \in NodeKinds, y \in NodeKinds, z \in NodeKinds, g \in GoalLists}
    \cup {RequestOf(Three(Node("Group", "c", One("x", "b")), y, z), <<"a">>, 1, <<>>) : y \in OddNodes, z \in {LeafNode}}
    \cup {RequestOf(Three(LeafNode, y, LeafNode), g, j, <<>>) : y \in OddNodes, g \in {<<"a">>, <<>>, <<"a", "a">>, <<"a", "d">>}, j \in {0, 1}}
    \cup {RequestOf(Plain3, <<"a">>, 1, l) : l \in ProviderLists}
    \cup {[RequestOf(Plain3, <<"a">>, 1, <<>>) EXCEPT !.work = w, !.cache = c, !.progress = [mode |-> "fixed", max_lines |-> n]] :
             w \in {"/s", "/far"}, c \in {Null, "/far", "relative"}, n \in {0, 3, 4}}
    \cup {[RequestOf(Plain3, <<"a">>, 1, <<>>) EXCEPT !.store = s] : s \in {"relative", "/far"}}

RequestCall == Call("request", realize(input, RealDef))

------------------------------------------------------------------------------
(* What the calls are for.                                                  *)

Children(nodes, id) == IF nodes[id].tag \in {"Source", Null} THEN {} ELSE {nodes[id].inputs[n] : n \in DOMAIN nodes[id].inputs} \cap DOMAIN nodes
Reach(nodes, ids) == FoldLeft(LAMBDA S, round : S \cup UNION {Children(nodes, i) : i \in S}, ids, <<1, 2, 3>>)
SoundNode(nodes, id) ==
  LET n == nodes[id]
  IN /\ n \notin OddNodes
     /\ \A c \in Children(nodes, id) : id \notin Reach(nodes, {c})
\* What a node asks for, whatever it is called and however it is written.
RECURSIVE RecipeOf(_, _)
RecipeOf(nodes, id) ==
  LET n == nodes[id]
  IN IF n.tag = "Source" THEN [tag |-> "Source", config |-> n.hash, inputs |-> {}]
     ELSE [tag |-> SpellingsDef[n.tag], config |-> ConfigValuesDef[n.config],
           inputs |-> {[name |-> x, of |-> RecipeOf(nodes, n.inputs[x])] : x \in DOMAIN n.inputs}]
GraphExact(nodes, goals, graph) ==
  LET reached == Reach(nodes, ToSet(goals))
      recipes == {RecipeOf(nodes, id) : id \in reached}
  IN /\ Cardinality(DOMAIN graph.nodes) = Cardinality(recipes)
     /\ \A i, j \in DOMAIN goals : graph.goals[i] = graph.goals[j] <=> RecipeOf(nodes, goals[i]) = RecipeOf(nodes, goals[j])
     /\ ToSet(graph.goals) \subseteq DOMAIN graph.nodes
     /\ \A k \in DOMAIN graph.nodes :
          graph.nodes[k].kind = "builder" => \A n \in DOMAIN graph.nodes[k].inputs : graph.nodes[k].inputs[n] \in DOMAIN graph.nodes
     \* the graph of keys is the graph of the recipes
     /\ \A i \in DOMAIN goals :
          LET k == graph.goals[i]
              n == nodes[goals[i]]
          IN n.tag # "Source" => Cardinality({graph.nodes[k].inputs[x] : x \in DOMAIN n.inputs})
                                   = Cardinality({RecipeOf(nodes, n.inputs[x]) : x \in DOMAIN n.inputs})
\* Providers of one name are two sides of one repository, no capability asks
\* a repository twice, and the order of the list is kept.
ProvidersExact(providers, opened) ==
  LET all == {<<c, i>> : c \in {"mappings", "content"}, i \in DOMAIN providers}
      entry(c, i) == opened[c][i]
      there == {x \in all : x[2] \in DOMAIN opened[x[1]]}
  IN /\ Len(opened["mappings"]) + Len(opened["content"]) = Len(providers)
     /\ \A x, y \in there : x # y =>
          /\ entry(x[1], x[2]).name = entry(y[1], y[2]).name => x[1] # y[1] /\ entry(x[1], x[2]).repository = entry(y[1], y[2]).repository
          /\ entry(x[1], x[2]).repository = entry(y[1], y[2]).repository => x[1] # y[1]
          /\ entry(x[1], x[2]).repository # <<"local", "w">>
     /\ \A c \in {"mappings", "content"} :
          [i \in DOMAIN opened[c] |-> opened[c][i].name] = LET own == SelectSeq(providers, LAMBDA p : p.capability = c) IN [i \in DOMAIN own |-> own[i].name]
\* Nothing is hard linked from one file system to another.
LinksHold(request) ==
  \A i \in DOMAIN request.providers : request.providers[i].transfer = "hardlink" =>
    \A part \in {"objects", "files"} : RealDef[request.providers[i].at][part] = RealDef[request.store][part]
SoundSettings(r) ==
  "relative" \notin {r.store, r.cache} /\ RealDef[r.work].device = RealDef[r.store].device
    /\ r.progress \notin [mode : {"fixed"}, max_lines : {0, 3}]
Accepted(request) == realize(request, RealDef).ok
\* A request is planned exactly when what its goals reach is sound and free
\* of cycles.  The plan has one subject for each recipe that is reached,
\* however often and under whatever names, and the inputs of each; providers
\* are taken in any order or not at all.
RequestsPlanned ==
  Answered("request") =>
    /\ input.providers = <<>> =>
         (output.ok <=> /\ input.goals # <<>> /\ IsInjective(input.goals) /\ ToSet(input.goals) \subseteq DOMAIN input.nodes
                        /\ input.limits["jobs"] # 0 /\ SoundSettings(input) /\ \A id \in DOMAIN input.nodes : input.nodes[id] # Broken
                        /\ \A id \in Reach(input.nodes, ToSet(input.goals)) : SoundNode(input.nodes, id))
    /\ output.ok => LinksHold(input)
    /\ output.ok => GraphExact(input.nodes, input.goals, output.val.graph) /\ ProvidersExact(input.providers, output.val.providers)
    /\ output.ok <=> Accepted([input EXCEPT !.providers = Reverse(@)])
=============================================================================
