----------------------------- MODULE HostBundle -----------------------------
(***************************************************************************)
(* The builder of host bundles: the declaration becomes the configuration    *)
(* the launcher reads, the trees are copied below the bundle's root, every   *)
(* tool gets its links, and the result is verified before it is sealed: the  *)
(* structure, and everything that is loaded or interpreted when a tool       *)
(* starts.  Trees are functions from paths below their root to nodes.        *)
(***************************************************************************)
EXTENDS BundleLauncher, Calls

CONSTANT BundleRoot                  \* where the bundle is put together
CONSTANT MAX_STARTUP_NODES

PAYLOAD_ROOT == "root"
OVERRIDES_ROOT == "overrides"
WRAPPED_BIN == <<"libexec", "wrapped-bin">>
OUTPUT_LAUNCHER_PATH == <<"libexec", LauncherName>>

------------------------------------------------------------------------------
(* The declaration.                                                         *)

lower_path(path, has_overrides) ==
  IF path.kind = "overrides" /\ ~has_overrides THEN Err
  ELSE IF ~validate_relative_path(path.path) THEN Err
  ELSE Ok(<<IF path.kind = "overrides" THEN OVERRIDES_ROOT ELSE PAYLOAD_ROOT>> \o path.path)
Lowered(seq, Op(_)) == ForEach(<<>>, seq, LAMBDA s, x : Then(Op(x), LAMBDA v : Ok(Append(s, v))))
\* A function of the names in S, when Op succeeds for all of them.
LoweredAll(S, Op(_)) == IF \A x \in S : Op(x).ok THEN Ok([x \in S |-> Op(x).val]) ELSE Err

lower_environment(rules, has_overrides) ==
  LoweredAll(DOMAIN rules, LAMBDA v :
    Then(Lowered(rules[v].paths, LAMBDA p : lower_path(p, has_overrides)), LAMBDA paths :
      LET rule == [rules[v] EXCEPT !.paths = paths] IN IF ValidRule(rule) THEN Ok(rule) ELSE Err))
lower_tool(name, tool, visibility, has_overrides) ==
  IF ~validate_relative_path(tool.path) \/ "PATH" \in DOMAIN tool.environment \/ tool.argv0 = <<<<>>>> THEN Err
  ELSE Then(lower_environment(tool.environment, has_overrides), LAMBDA env :
       Then(Lowered(tool.prefix, LAMBDA a :
              IF a.kind = "literal" THEN Ok(a)
              ELSE Then(lower_path(a, has_overrides), LAMBDA p : Ok([kind |-> "path", path |-> p]))), LAMBDA prefix :
         Ok([path |-> <<PAYLOAD_ROOT>> \o tool.path, argv0 |-> IF tool.argv0 = <<>> THEN <<name>> ELSE tool.argv0[1],
             visibility |-> visibility, prefix |-> prefix, environment |-> env])))

WrappedPathRule ==
  [operation |-> "prepend", paths |-> <<WRAPPED_BIN>>, values |-> <<>>, inherit |-> TRUE, host_default |-> <<>>]
lower_runtime_config(decl, has_overrides) ==
  LET public == DOMAIN decl.public
      internal == DOMAIN decl.internal
  IN IF public = {} \/ public \cap internal # {} \/ "PATH" \in DOMAIN decl.environment THEN Err
     ELSE IF \E i \in DOMAIN decl.library_dirs : ~validate_relative_path(decl.library_dirs[i]) THEN Err
     ELSE Then(lower_environment(decl.environment, has_overrides), LAMBDA env :
          Then(LoweredAll(public \cup internal, LAMBDA t :
                 IF t \in public THEN lower_tool(t, decl.public[t], "public", has_overrides)
                 ELSE lower_tool(t, decl.internal[t], "internal", has_overrides)), LAMBDA tools :
            LET config == [payload |-> <<PAYLOAD_ROOT>>, arch |-> decl.arch, min_kernel |-> decl.min_kernel,
                           lib_dirs |-> [i \in DOMAIN decl.library_dirs |-> <<PAYLOAD_ROOT>> \o decl.library_dirs[i]],
                           environment |-> Bind(env, "PATH", WrappedPathRule), tools |-> tools]
            IN IF ValidConfig(config) THEN Ok(config) ELSE Err))

------------------------------------------------------------------------------
(* The tree.                                                                *)

Under(prefix, tree) == [p \in {prefix \o q : q \in DOMAIN tree} |-> tree[SubSeq(p, Len(prefix) + 1, Len(p))]]
Parents(p) == {SubSeq(p, 1, i) : i \in 0..(Len(p) - 1)}
\* f, and what g has besides.
Overlay_(f, g) == [p \in DOMAIN f \cup DOMAIN g |-> IF p \in DOMAIN f THEN f[p] ELSE g[p]]
copy_inputs(inputs) ==
  LET launcher == [p \in {OUTPUT_LAUNCHER_PATH} |-> inputs.launcher]
      overrides == IF inputs.overrides = <<>> THEN launcher
                   ELSE Overlay_(launcher, Under(<<OVERRIDES_ROOT>>, inputs.overrides[1]))
      files == Overlay_(overrides, Under(<<PAYLOAD_ROOT>>, inputs.root))
  IN Overlay_(files, [p \in UNION {Parents(q) : q \in DOMAIN files} |-> Dir_])
materialize_facade(tree, config) ==
  LET public == {t \in DOMAIN config.tools : config.tools[t].visibility = "public"}
      wrapped == [p \in {WRAPPED_BIN \o <<t>> : t \in DOMAIN config.tools} |-> Link(<<"..", LauncherName>>)]
      bin == [p \in {<<"bin", t>> : t \in public} |-> Link(<<"..">> \o OUTPUT_LAUNCHER_PATH)]
  IN Overlay_(Overlay_(tree, Overlay_(wrapped, bin)), [p \in {<<"bin">>, WRAPPED_BIN} |-> Dir_])

------------------------------------------------------------------------------
(* The verification.                                                        *)

verify_wrapper(fs, p, target) == p \in DOMAIN fs /\ fs[p] = Link(target)
resolve_inside_bundle(fs, rel) == Inside(fs, BundleRoot \o rel, BundleRoot)
verify_environment_paths(fs, rules) ==
  \A v \in DOMAIN rules : \A i \in DOMAIN rules[v].paths : resolve_inside_bundle(fs, rules[v].paths[i]).ok
verify_structure(fs, config) ==
  LET launcher == BundleRoot \o OUTPUT_LAUNCHER_PATH
  IN /\ launcher \in DOMAIN fs /\ ExecutableFile(fs, launcher)
     /\ inspect_elf_for_arch(fs[launcher].prog, config.arch) /\ fs[launcher].prog.interp = <<>>
     /\ \A t \in DOMAIN config.tools :
          LET tool == resolve_tool(fs, BundleRoot, config, t)
              public == BundleRoot \o <<"bin", t>>
          IN /\ tool.ok /\ inspect_executable_for_arch(fs[tool.val.target].prog, config.arch)
             /\ verify_wrapper(fs, BundleRoot \o WRAPPED_BIN \o <<t>>, <<"..", LauncherName>>)
             /\ IF config.tools[t].visibility = "public"
                THEN verify_wrapper(fs, public, <<"..">> \o OUTPUT_LAUNCHER_PATH)
                ELSE public \notin DOMAIN fs
     /\ \A i \in DOMAIN config.lib_dirs :
          LET d == resolve_inside_bundle(fs, config.lib_dirs[i]) IN d.ok /\ fs[d.val].kind = "directory"
     /\ verify_environment_paths(fs, config.environment)
     /\ \A t \in DOMAIN config.tools : verify_environment_paths(fs, config.tools[t].environment)

\* parse_elf: a library may have an interpreter of its own.
ParsesAsElf(prog, arch) == prog.form = "elf" /\ prog.arch = arch
\* Path::components drops empty names and single dots.
resolve_logical_payload_path(cx, logical) ==
  IF logical = <<>> \/ Head(logical) # "" \/ ".." \in ToSet(logical) THEN Err
  ELSE Then(Inside(cx.fs, cx.payload \o logical, cx.payload),
            LAMBDA p : IF ExecutableFile(cx.fs, p) THEN Ok(p) ELSE Err)

Dedup(seq) == FoldLeft(LAMBDA s, x : IF x \in ToSet(s) THEN s ELSE Append(s, x), <<>>, seq)
\* Entries are relative to the object's directory; one that does not exist is
\* kept as it is.
expand_dynamic_paths(cx, entries, origin) ==
  Lowered(entries, LAMBDA e :
    IF ~e.origin THEN Err
    ELSE LET c == canonicalize(cx.fs, origin \o e.path)
         IN IF ~c.ok THEN Ok(origin \o e.path)
            ELSE IF IsPrefix(cx.payload, c.val) THEN c ELSE Err)
\* The first directory that has the name decides, even when what it has is
\* of no use.
resolve_needed(cx, needed, search) ==
  LET blocked(d) == \E i \in 1..Len(d) : SubSeq(d, 1, i) \in DOMAIN cx.fs /\ cx.fs[SubSeq(d, 1, i)].kind = "file"
      found == {i \in DOMAIN search : Append(search[i], needed) \in DOMAIN cx.fs \/ blocked(search[i])}
  IN IF found = {} THEN Err
     ELSE Then(Inside(cx.fs, Append(search[Min(found)], needed), cx.payload),
               LAMBDA p : IF cx.fs[p].kind = "file" THEN Ok(p) ELSE Err)

\* What an object adds to the search of the objects it loads, and its search.
rpaths_of(cx, object, inherited) ==
  Then(expand_dynamic_paths(cx, cx.fs[object].prog.rpath, Front(object)), LAMBDA rpath :
    Ok(Dedup((IF cx.fs[object].prog.runpath = <<>> THEN rpath ELSE <<>>) \o inherited)))
search_of(cx, object, inherited) ==
  Then(rpaths_of(cx, object, inherited), LAMBDA rpath :
  Then(expand_dynamic_paths(cx, cx.fs[object].prog.runpath, Front(object)), LAMBDA runpath :
    Ok(Dedup(rpath \o cx.library_dirs \o runpath))))

\* The state of the verifier: what it is at work on, what it is done with.
FreshScan == [active |-> {}, loading |-> {}, verified |-> {}, libraries |-> {}, visited |-> 0]
bump_state(st) == IF st.visited >= MAX_STARTUP_NODES THEN Err ELSE Ok([st EXCEPT !.visited = @ + 1])

verify_symbol_versions(prog, needed, dependency) ==
  {r.version : r \in {q \in prog.requires : q.library = needed}} \subseteq dependency.provides

RECURSIVE audit_dependencies(_, _, _, _)
audit_library(cx, st, path, inherited) ==
  LET state == [path |-> path, inherited |-> inherited]
  IN IF state \in st.libraries \/ path \in st.loading THEN Ok(st)
     ELSE Then(bump_state([st EXCEPT !.loading = @ \cup {path}]), LAMBDA s :
          Then(audit_dependencies(cx, s, path, inherited), LAMBDA t :
            Ok([t EXCEPT !.loading = @ \ {path}, !.libraries = @ \cup {state}])))
audit_dependencies(cx, st, object, inherited) ==
  LET prog == cx.fs[object].prog
  IN Then(search_of(cx, object, inherited), LAMBDA search :
       ForEach(st, prog.needed, LAMBDA s, needed :
         IF needed \in UnsafeNames THEN Err
         ELSE Then(resolve_needed(cx, needed, search), LAMBDA library :
                LET dep == cx.fs[library].prog
                IN IF \/ ~ParsesAsElf(dep, cx.config.arch)
                      \/ dep.soname # <<>> /\ dep.soname[1] # needed
                      \/ ~verify_symbol_versions(prog, needed, dep) THEN Err
                   ELSE audit_library(cx, s, library, rpaths_of(cx, object, inherited).val))))
audit_elf_entry(cx, st, path, inherited) ==
  LET prog == cx.fs[path].prog
      checked ==
        IF prog.interp = <<>> THEN prog.needed = <<>>
        ELSE LET loader == resolve_logical_payload_path(cx, prog.interp[1])
             IN /\ loader.ok /\ ParsesAsElf(cx.fs[loader.val].prog, cx.config.arch)
                /\ cx.fs[loader.val].prog.interp = <<>> /\ cx.fs[loader.val].prog.needed = <<>>
                /\ cx.library_dirs # <<>>
  IN IF ~checked THEN Err
     ELSE IF prog.interp = <<>> THEN Ok(st)
     ELSE audit_dependencies(cx, st, path, inherited)

ENV_INTERPRETER == <<"", "usr", "bin", "env">>
RECURSIVE audit_executable(_, _, _, _, _)
audit_script(cx, st, script, inherited, depth) ==
  LET prog == cx.fs[script].prog
      command == prog.arg[1]
  IN Then(resolve_logical_payload_path(cx, prog.interp), LAMBDA interp :
       IF prog.interp # ENV_INTERPRETER THEN audit_executable(cx, st, interp, inherited, depth + 1)
       ELSE IF prog.arg = <<>> \/ Len(command) # 1 \/ command[1] \notin DOMAIN cx.managed THEN Err
       ELSE Then(audit_executable(cx, st, interp, inherited, depth + 1),
                 LAMBDA s : audit_executable(cx, s, cx.managed[command[1]], <<>>, 0)))
\* st with path audited, and remembered as state.
Audited(cx, st, path, inherited, depth, state) ==
  LET prog == cx.fs[path].prog
  IN IF state \in st.verified THEN Ok(st)
     ELSE IF path \in st.active THEN Err
     ELSE Then(bump_state([st EXCEPT !.active = @ \cup {path}]), LAMBDA s :
            IF ~inspect_executable_for_arch(prog, cx.config.arch) THEN Err
            ELSE IF prog.form = "script" /\ depth >= MAX_SCRIPT_DEPTH THEN Err
            ELSE Then(IF prog.form = "script" THEN audit_script(cx, s, path, inherited, depth)
                      ELSE audit_elf_entry(cx, s, path, inherited),
                   LAMBDA t : Ok([t EXCEPT !.active = @ \ {path}, !.verified = @ \cup {state}])))
\* as it would be with what was verified remembered at any depth
AuditedAtAnyDepth(cx, st, path, inherited, depth) ==
  Audited(cx, st, path, inherited, depth, [path |-> path, inherited |-> inherited, depth |-> 0])
audit_executable(cx, st, path, inherited, depth) ==
  Audited(cx, st, path, inherited, depth, [path |-> path, inherited |-> inherited, depth |-> depth])

verify_startup_closure(fs, config) ==
  LET payload == canonicalize(fs, BundleRoot \o config.payload).val
      dirs == Lowered(config.lib_dirs, LAMBDA rel : Inside(fs, BundleRoot \o rel, payload))
      launcher == fs[BundleRoot \o OUTPUT_LAUNCHER_PATH].prog
      target(t) == resolve_tool(fs, BundleRoot, config, t).val.target
  IN Then(dirs, LAMBDA library_dirs :
       LET cx == [fs |-> fs, config |-> config, payload |-> payload, library_dirs |-> library_dirs,
                  managed |-> [t \in DOMAIN config.tools |-> target(t)]]
       IN IF launcher.interp # <<>> \/ launcher.needed # <<>> THEN Err
          ELSE ForEach(FreshScan, Listing(DOMAIN config.tools),
                 LAMBDA st, t : audit_executable(cx, st, target(t), <<>>, 0)))

\* inputs: the declaration, the payload, the launcher's file and the overrides.
build_host_bundle(decl, inputs) ==
  Then(lower_runtime_config(decl, inputs.overrides # <<>>), LAMBDA config :
    LET fs == Overlay_(Under(BundleRoot, materialize_facade(copy_inputs(inputs), config)),
                       [p \in Parents(BundleRoot) |-> Dir_])
    IN IF ~verify_structure(fs, config) THEN Err
       ELSE Then(verify_startup_closure(fs, config), LAMBDA st :
              Ok([fs |-> fs, config |-> config, verified |-> st])))

------------------------------------------------------------------------------
(***************************************************************************)
(* Host bundles: the inputs on which they are built and started, and what    *)
(* the results are for.                                                      *)
(***************************************************************************)

RootDef == <<"build", "b">>
ColonDef == {"l:x"}
Elsewhere == <<"opt", "c">>

------------------------------------------------------------------------------
(* Host bundles: payloads, declarations and hosts.                          *)

Env == <<"", "usr", "bin", "env">>
Bin(name) == <<"", "bin", name>>
Loader == <<"", "lib", "ld">>
Origin(p) == [origin |-> TRUE, path |-> p]
Static == Elf(<<>>, <<>>)
Dynamic(needed) == Elf(<<Loader>>, needed)
NoEnv == [v \in {} |-> 0]
Tool_(path) == [path |-> path, argv0 |-> <<>>, prefix |-> <<>>, environment |-> NoEnv]
Decl(public, internal, env, dirs) ==
  [arch |-> "x86_64", min_kernel |-> <<4, 19>>, library_dirs |-> dirs, public |-> public, internal |-> internal, environment |-> env]

ProgramsA ==
  {Static, Dynamic(<<>>), Dynamic(<<"l1">>), Dynamic(<<"l1", "l2">>), Elf(<<>>, <<"l1">>), Elf(<<<<"", "lib", "", "ld">>>>, <<>>),
   [Dynamic(<<"l1">>) EXCEPT !.rpath = <<Origin(<<"..", "priv">>)>>],
   [Dynamic(<<"l1">>) EXCEPT !.runpath = <<Origin(<<"..", "priv">>)>>],
   [Dynamic(<<"l1">>) EXCEPT !.rpath = <<Origin(<<"..", "priv">>)>>, !.runpath = <<Origin(<<"..", "none">>)>>],
   [Dynamic(<<"l1">>) EXCEPT !.rpath = <<[origin |-> FALSE, path |-> <<"priv">>]>>],
   [Dynamic(<<"l1">>) EXCEPT !.rpath = <<Origin(<<"..", "..", "..">>)>>],
   [Dynamic(<<"l1">>) EXCEPT !.requires = {[library |-> "l1", version |-> 2]}],
   [Dynamic(<<"l1">>) EXCEPT !.arch = "aarch64"],
   Script(Env, <<<<"b">>>>), Script(Env, <<<<"a">>>>), Script(Env, <<>>), Script(Env, <<<<"none">>>>),
   Script(Bin("c1"), <<<<"-e">>>>), Script(Bin("c2"), <<>>), Script(Bin("c4"), <<>>), Script(Bin("out"), <<>>),
   Script(Bin("b"), <<>>), [form |-> "other"]}
ProgramsB == {Static, Dynamic(<<"l2">>), Script(Env, <<<<"a">>>>), Script(Bin("c1"), <<>>), Script(Bin("c2"), <<>>), Script(Bin("b"), <<>>), Script(Bin("a"), <<>>)}
\* Two libraries that may need each other, and a second copy of the first.
Libraries ==
  {[l1 |-> x, l2 |-> y, priv |-> z] :
     x \in {Elf(<<>>, <<"l2">>), [Elf(<<>>, <<>>) EXCEPT !.soname = <<"l1">>, !.provides = {1}]},
     y \in {Elf(<<>>, <<"l1">>), [Elf(<<>>, <<>>) EXCEPT !.soname = <<"l9">>]},
     z \in {[Elf(<<>>, <<"l3">>) EXCEPT !.provides = {2}], Elf(<<>>, <<"l2">>)}}
Payload(pa, pb, libs, cxx) ==
  LET files == [p \in {<<"bin", "a">>, <<"bin", "b">>, <<"bin", "c1">>, <<"bin", "c2">>, <<"bin", "c3">>, <<"bin", "c4">>,
                       <<"usr", "bin", "env">>, <<"lib", "ld">>, <<"lib", "l1">>, <<"lib", "l2">>, <<"priv", "l1">>, <<"priv", "l3">>, <<"bin", "out">>} |->
        CASE p = <<"bin", "a">> -> File_(TRUE, pa)
          [] p = <<"bin", "b">> -> File_(TRUE, pb)
          [] p = <<"bin", "c1">> -> File_(TRUE, Script(Bin("c2"), <<>>))
          [] p = <<"bin", "c2">> -> File_(TRUE, Script(Bin("c3"), <<<<"-x">>>>))
          [] p = <<"bin", "c3">> -> File_(TRUE, IF cxx THEN Script(Bin("c4"), <<>>) ELSE Dynamic(<<"l1">>))
          [] p = <<"bin", "c4">> -> File_(TRUE, Static)
          [] p = <<"bin", "out">> -> Link(<<"..", "..", "bundle.toml">>)
          [] p = <<"usr", "bin", "env">> -> Link(<<"..", "..", "bin", "c4">>)
          [] p = <<"lib", "ld">> -> File_(TRUE, Static)
          [] p = <<"lib", "l1">> -> File_(FALSE, libs.l1)
          [] p = <<"lib", "l2">> -> File_(FALSE, libs.l2)
          [] p = <<"priv", "l1">> -> File_(FALSE, libs.priv)
          [] p = <<"priv", "l3">> -> File_(FALSE, [Elf(<<>>, <<>>) EXCEPT !.soname = <<"l3">>])]
  IN [p \in DOMAIN files \cup {<<>>, <<"bin">>, <<"usr">>, <<"usr", "bin">>, <<"lib">>, <<"priv">>, <<"priv", "l:x">>} |->
        IF p \in DOMAIN files THEN files[p] ELSE Dir_]
TwoTools == Decl([t \in {"a"} |-> Tool_(<<"bin", "a">>)], [t \in {"b"} |-> Tool_(<<"bin", "b">>)], NoEnv, <<<<"lib">>>>)
Declarations ==
  {TwoTools, [TwoTools EXCEPT !.library_dirs = <<>>], [TwoTools EXCEPT !.library_dirs = <<<<"priv">>, <<"lib">>>>]}
OddDeclarations ==
  {[TwoTools EXCEPT !.library_dirs = <<<<"priv", "l:x">>>>], [TwoTools EXCEPT !.library_dirs = <<<<"bin", "a">>>>],
   [TwoTools EXCEPT !.internal = [t \in {} |-> 0]], [TwoTools EXCEPT !.public = [t \in {} |-> 0]],
   [TwoTools EXCEPT !.internal = [t \in {"a", "b"} |-> Tool_(<<"bin", t>>)]],
   [TwoTools EXCEPT !.public = [t \in {LauncherName} |-> Tool_(<<"bin", "a">>)]],
   [TwoTools EXCEPT !.min_kernel = <<5>>], [TwoTools EXCEPT !.public["a"].path = <<"..", "a">>],
   [TwoTools EXCEPT !.public["a"].prefix = <<[kind |-> "literal", value |-> <<"-p">>], [kind |-> "payload", path |-> <<"lib", "l1">>]>>,
                    !.public["a"].argv0 = <<<<"x">>>>],
   [TwoTools EXCEPT !.public["a"].prefix = <<[kind |-> "overrides", path |-> <<"cfg">>]>>]}
SomeLibraries == CHOOSE l \in Libraries : l.l1.needed = <<"l2">> /\ l.l2.needed = <<"l1">> /\ l.priv.needed = <<"l3">>
Overrides == {<<>>, <<[p \in {<<>>, <<"cfg">>} |-> IF p = <<>> THEN Dir_ ELSE File_(FALSE, Static)]>>}
BundleInputs(payload, launcher, overrides) == [root |-> payload, launcher |-> launcher, overrides |-> overrides]
LauncherFile == File_(TRUE, Static)

\* Rules for one variable, and what the host has for it.
RuleOf(op, paths, values, inherit, default) ==
  [operation |-> op, paths |-> paths, values |-> values, inherit |-> inherit, host_default |-> default]
Rules_ ==
  {RuleOf(op, p, v, i, d) : op \in Operations, p \in {<<>>, <<[kind |-> "payload", path |-> <<"lib">>]>>},
                            v \in {<<>>, <<<<"v">>, <<"w">>>>, <<<<>>>>}, i \in BOOLEAN, d \in {<<>>, <<<<"d">>>>}}
HostValues == {<<>>, <<<<>>>>, <<<<"h">>>>, <<<<"h", ":", "i">>>>}
OneVar(r) == IF r = <<>> THEN NoEnv ELSE [v \in {"V"} |-> r[1]]
\* The rules that pass, and a few that do not.
CommonRules == {<<>>} \cup {<<r>> : r \in {x \in Rules_ : ValidRule(x)} \cup
  {RuleOf("replace", <<>>, <<>>, FALSE, <<>>), RuleOf("unset", <<>>, <<>>, TRUE, <<>>)}}
Kernels == {<<4, 19>>, <<4, 18, 9>>, <<5, 0>>, <<3, 20>>, <<4>>}
HostOf(kernel, value) ==
  [kernel |-> kernel, arch |-> "x86_64",
   env |-> [v \in {"PATH", "LD_LIBRARY_PATH"} \cup (IF value = <<>> THEN {} ELSE {"V"}) |->
              IF v = "V" THEN value[1] ELSE <<"/", "host">>]]
EnvDecl(common, own) == [TwoTools EXCEPT !.environment = OneVar(common), !.public["a"].environment = OneVar(own)]
Plainly == BundleInputs(Payload(Static, Static, SomeLibraries, FALSE), LauncherFile, <<>>)

BundleCases ==
  [op : {"bundle"}, decl : Declarations, inputs :
     {BundleInputs(Payload(x, y, l, c), LauncherFile, <<>>) : x \in ProgramsA, y \in ProgramsB, l \in Libraries, c \in BOOLEAN}]
  \cup [op : {"bundle"}, decl : OddDeclarations, inputs :
     {BundleInputs(Payload(x, Static, SomeLibraries, c), l, o) : x \in {Static, Dynamic(<<"l1">>), Script(Bin("c1"), <<>>)}, c \in BOOLEAN,
        l \in {LauncherFile, File_(FALSE, Static), File_(TRUE, Dynamic(<<>>))}, o \in Overrides}]
  \cup [op : {"environment"}, decl : {EnvDecl(c, o) : c \in CommonRules, o \in CommonRules}, value : HostValues]
  \cup [op : {"launcher"}, argv0 : {<<"bin", "a">>, <<"none">>, <<"b">>, <<"libexec", LauncherName>>}, kernel : Kernels,
        args : {<<>>, <<"x">>, <<"--run">>, <<"--run", "a", "--">>, <<"--run", "b", "--", "x", "--">>, <<"--run", "a", "x">>, <<"--run", "..", "--">>,
                <<"--diagnose", "a">>, <<"--diagnose", "b", "--json">>, <<"--diagnose", "a", "x">>}]
  \cup [op : {"shebang"}, prefix : UNION {[1..n -> {"/", "p", "..", " ", Newline_, "nul"}] : n \in 0..5}
                              \cup {<<" ", "/", "p", "more">>, <<"/", "p", Newline_, "more">>, <<"/", "p", "/", "p", " ", "p", " ", "..">>}]

------------------------------------------------------------------------------
(* The calls.                                                               *)

\* The bundle after a move.
Moved(bundle) ==
  Overlay_(Under(Elsewhere, [p \in {SubSeq(q, Len(BundleRoot) + 1, Len(q)) : q \in {x \in DOMAIN bundle.fs : IsPrefix(BundleRoot, x)}} |->
                               bundle.fs[BundleRoot \o p]]),
           [p \in Parents(Elsewhere) |-> Dir_])
Started(bundle, argv0, args, host) ==
  run_launcher(Moved(bundle), Elsewhere \o OUTPUT_LAUNCHER_PATH, bundle.config, argv0, args, host)
GoodHost == HostOf(<<5, 0>>, <<>>)

Build == Call("bundle", build_host_bundle(input.decl, input.inputs))
Environment_ == Call("environment",
  Then(build_host_bundle(input.decl, Plainly), LAMBDA b : Started(b, <<"a">>, <<>>, HostOf(<<5, 0>>, input.value))))
Launch == Call("launcher", Then(build_host_bundle(TwoTools, Plainly), LAMBDA b : Started(b, input.argv0, input.args, HostOf(input.kernel, <<>>))))
Shebang == Call("shebang", parse_shebang(input.prefix))
BundleCall == Build \/ Environment_ \/ Launch \/ Shebang

------------------------------------------------------------------------------
(* What the calls are for.                                                  *)

\* What an object needs, each in the first directory of its search that has
\* it, and the objects the loader maps when it starts a program.
Needs(cx, o, search, inherited) ==
  {[path |-> r.val, inherited |-> inherited] :
     r \in {x \in {resolve_needed(cx, n, search) : n \in ToSet(cx.fs[o.path].prog.needed)} : x.ok}}
Loaded(cx, program) ==
  FoldLeft(LAMBDA S, round : S \cup UNION {Needs(cx, o, search_of(cx, o.path, o.inherited).val, rpaths_of(cx, o.path, o.inherited).val) : o \in S},
           {[path |-> program, inherited |-> <<>>]}, <<1, 2, 3, 4>>)
\* All of it is there, and is what the objects ask for.
Closed(cx, program) ==
  \A o \in Loaded(cx, program) :
    LET prog == cx.fs[o.path].prog
    IN \A n \in ToSet(prog.needed) :
         LET r == resolve_needed(cx, n, search_of(cx, o.path, o.inherited).val)
         IN /\ r.ok /\ IsPrefix(cx.payload, r.val)
            /\ \A q \in prog.requires : q.library = n => q.version \in cx.fs[r.val].prog.provides
LaunchContext(bundle, plan) ==
  [fs |-> Moved(bundle), config |-> bundle.config, payload |-> Append(Elsewhere, PAYLOAD_ROOT), library_dirs |-> plan.library_dirs]
\* The tools that start, given that those in S do: env looks its command up
\* in PATH, whose first entry has the bundle's own tools.
StartsAs(bundle, S, fs, launched) ==
  LET plan == launched.plan
      first == [i \in 1..2 * Len(Elsewhere \o WRAPPED_BIN) |-> launched.env.values["PATH"][i]]
  IN /\ IsPrefix(Append(Elsewhere, PAYLOAD_ROOT), plan.exec) /\ IsPrefix(Append(Elsewhere, PAYLOAD_ROOT), plan.program)
     /\ Closed(LaunchContext(bundle, plan), plan.program)
     /\ IsSuffix(launched.tool.prefix \o <<<<"x">>, <<"y">>>>, plan.args)
     /\ first = Spelled(Elsewhere \o WRAPPED_BIN)
     /\ plan.argv0 = Spelled(Tail(Env)) =>
          /\ plan.args # <<>> /\ Len(plan.args[1]) = 1 /\ plan.args[1][1] \in S
          /\ canonicalize(fs, Elsewhere \o WRAPPED_BIN \o plan.args[1]).val = Elsewhere \o OUTPUT_LAUNCHER_PATH
Starting(bundle) ==
  FoldLeft(LAMBDA S, round :
             {t \in DOMAIN bundle.config.tools :
                \E r \in {Started(bundle, <<"bin", t>>, <<"x", "y">>, GoodHost)} :
                  r.ok /\ StartsAs(bundle, S, Moved(bundle), r.val)},
           {}, <<1, 2, 3>>)

\* Two ways of writing a path that the verification lets through and the
\* launcher does not take.
OddlySpelled ==
  \/ \E i \in DOMAIN input.decl.library_dirs : ToSet(input.decl.library_dirs[i]) \cap SeparatorNames # {}
  \/ \E p \in DOMAIN input.inputs.root :
       LET n == input.inputs.root[p]
       IN n.kind = "file" /\ n.prog.form = "elf" /\ n.prog.interp # <<>> /\ "" \in ToSet(Tail(n.prog.interp[1]))
\* A bundle that was built starts every one of its tools from wherever it is
\* copied to: through the bundle's own programs, loader and libraries only,
\* with the user's arguments last and in order, and with the tools that its
\* scripts ask env for; none of them waits for itself.
VerifiedBundlesStart ==
  (Answered("bundle") /\ output.ok /\ ~OddlySpelled) => Starting(output.val) = DOMAIN output.val.config.tools
\* The same of every bundle, however its paths are written.
EveryBundleStarts ==
  (Answered("bundle") /\ output.ok) => Starting(output.val) = DOMAIN output.val.config.tools

\* The entries of a value, in order.
Entries(value) == IF value = <<>> THEN <<>> ELSE SplitAt(value, ":")
\* What one rule makes of the list of entries, <<>> for none and <<list>>.
Meant(rule, current) ==
  LET own == IF rule.paths # <<>> THEN <<Spelled(Elsewhere \o <<PAYLOAD_ROOT, "lib">>)>>
             ELSE SelectSeq(rule.values, LAMBDA v : v # <<>>)
      seen == IF ~rule.inherit THEN <<>> ELSE IF current # <<>> THEN current[1] ELSE rule.host_default
  IN CASE rule.operation = "unset" -> <<>>
       [] rule.operation = "replace" -> <<own>>
       [] rule.operation = "prepend" -> <<own \o seen>>
       [] rule.operation = "append" -> <<seen \o own>>
       [] rule.operation = "default" ->
            IF current # <<>> THEN current ELSE IF rule.paths = <<>> /\ rule.values = <<>> THEN <<rule.host_default>> ELSE <<own>>
\* The entries of a variable are those the rules of the bundle and then of the
\* tool put around the host's, without empty ones in between; --diagnose says
\* that the host has a part in it exactly when it has; and no variable that
\* the loader listens to comes from the host.
EnvironmentMeant ==
  Answered("environment") =>
    LET rules == <<input.decl.environment, input.decl.public["a"].environment>>
        apply(current, r) == IF r = NoEnv THEN current ELSE Meant(r["V"], current)
        host == IF input.value = <<>> THEN <<>> ELSE <<Entries(input.value[1])>>
        meant == apply(apply(host, rules[1]), rules[2])
        env == output.val.env
    IN /\ output.ok <=> \A i \in 1..2 : rules[i] # NoEnv => ValidRule(rules[i]["V"])
       /\ output.ok =>
            /\ "V" \in DOMAIN env.values <=> meant # <<>>
            /\ "V" \in DOMAIN env.values =>
                 /\ Entries(env.values["V"]) = meant[1]
                 /\ "h" \in ToSet(env.values["V"]) => Head(env.traces["V"])[1] = "host"
                 /\ Head(env.traces["V"])[1] = "host" => ToSet(input.value[1]) \subseteq ToSet(env.values["V"])
            /\ DOMAIN env.values \cap LoaderSensitive = {}
\* A tool called by its name gets all of the arguments; --run and --diagnose
\* are the launcher's own; a host that is too old runs nothing and is still
\* diagnosed.
InvocationMeant ==
  Answered("launcher") =>
    LET own == Last(input.argv0) = LauncherName
        old == input.kernel \in {<<4, 18, 9>>, <<3, 20>>}
        diagnose == own /\ input.args \in {<<"--diagnose", "a">>, <<"--diagnose", "b", "--json">>}
        tool == IF ~own THEN Last(input.argv0) ELSE IF Len(input.args) > 1 THEN input.args[2] ELSE "none"
        meant == IF ~own THEN input.args ELSE SubSeq(input.args, 4, Len(input.args))
    IN /\ output.ok <=> /\ input.kernel # <<4>> /\ tool \in {"a", "b"}
                        /\ own => diagnose \/ (Len(input.args) >= 3 /\ input.args[1] = "--run" /\ input.args[3] = "--")
                        /\ diagnose \/ ~old
       /\ output.ok => /\ output.val.tool.name = tool
                       /\ output.val.plan.args = [i \in DOMAIN meant |-> <<meant[i]>>]
\* A word that is the path of a file below the root, without a step up.
NamesPayloadFile(word) ==
  /\ word # <<>> /\ Head(word) = "/"
  /\ \A i \in DOMAIN word : word[i] = "/" =>
       /\ i < Len(word) /\ word[i + 1] # "/"
       /\ word[i + 1] = ".." => i + 2 \in DOMAIN word /\ word[i + 2] # "/"
\* The first line of a script reads as the kernel reads it: a word, and all
\* that follows it as one argument; and a script whose interpreter is not a
\* path inside the payload is refused.
ShebangMeant ==
  Answered("shebang") =>
    LET ends == {i \in DOMAIN input.prefix : input.prefix[i] = Newline_}
        line == IF ends = {} THEN input.prefix ELSE SubSeq(input.prefix, 1, Min(ends) - 1)
        words == {i \in DOMAIN line : line[i] # " "}
        first == {i \in words : \A j \in Min(words)..i : j \in words}
    IN /\ output.ok <=> /\ words # {} /\ {"nul", "more"} \cap ToSet(line) = {}
                        /\ NamesPayloadFile(SubSeq(line, Min(first), Max(first)))
       /\ output.ok =>
            LET interp == output.val.interpreter
                arg == output.val.argument
            IN /\ interp # <<>> /\ " " \notin ToSet(interp)
               /\ arg # <<>> => Head(arg) # " " /\ Last(arg) # " "
               /\ \E b1, b2, b3 \in {[i \in 1..n |-> " "] : n \in 0..4} :
                    /\ line = b1 \o interp \o b2 \o arg \o b3
                    /\ arg # <<>> => b2 # <<>>
\* What the launcher is asked for is what it starts, and nothing it reads on
\* the way is read differently from what it says.
LauncherFaithful == EnvironmentMeant /\ InvocationMeant /\ ShebangMeant

\* Bundles start their tools, and the launcher starts what it is asked for.
BundlesFaithful == VerifiedBundlesStart /\ LauncherFaithful
=============================================================================
