----------------------------- MODULE SandboxPlan -----------------------------
(***************************************************************************)
(* How a sandbox recipe becomes the mounts and the steps of a build: the     *)
(* builder checks it and puts the paths of the container into its texts, the *)
(* runtime function checks it again and lists the mounts, the launcher makes *)
(* them.  A text is a sequence of words and of the characters @, { and };    *)
(* paths in the container are sequences of names.                            *)
(***************************************************************************)
EXTENDS Files, Calls, TLC

CONSTANTS WellFormed,   \* names of letters, digits and _ that start with no digit
          KeyNames,     \* non-empty names of [A-Za-z0-9._-], other than . and ..
          Sanitized,    \* what sanitize_log_name makes of a step's name
          IndexName     \* the index of an array element as a file name

CONTAINER_BUILD_DIR == <<"__bobr", "build">>
CONTAINER_CONFIG_DIR == <<"__bobr", "config">>
CONTAINER_INPUTS_DIR == <<"__bobr", "inputs">>
CONTAINER_LOG_DIR == <<"__bobr", "logs">>
CONTAINER_OUT_DIR == <<"__bobr", "out">>
CONTAINER_LAUNCHER_DIR == <<"__bobr", "launcher">>
CONTAINER_RUNTIME_DIR == <<"__bobr", "runtime">>
input_mount_path(name) == Append(CONTAINER_INPUTS_DIR, name)
\* An absolute path as the words of a text.
Written(path) == FlattenSeq([i \in DOMAIN path |-> <<"/", path[i]>>])

-----------------------------------------------------------------------------
(* Texts.                                                                   *)

validate_interpolation_name(key) == Len(key) = 1 /\ key[1] \in WellFormed
validate_input_name(name) == name \in WellFormed
interpolation_value(key, inputs, plain) ==
  IF key = "build" THEN Ok(Written(CONTAINER_BUILD_DIR))
  ELSE IF key = "config" THEN Ok(Written(CONTAINER_CONFIG_DIR))
  ELSE IF key = "out" /\ plain THEN Ok(Written(CONTAINER_OUT_DIR))
  ELSE IF key \in inputs THEN Ok(Written(input_mount_path(key)))
  ELSE Err
\* The escape is looked for before the variable it escapes.
Opening(rest) ==
  IF IsPrefix(<<"@", "@", "{">>, rest) THEN "escape"
  ELSE IF IsPrefix(<<"@", "{">>, rest) THEN "variable"
  ELSE "none"
interpolate_step_string(value, inputs, plain) ==
  LET render[i \in 1..(Len(value) + 1)] ==
        IF i > Len(value) THEN Ok(<<>>)
        ELSE LET opening == Opening(SubSeq(value, i, Len(value)))
                 start == IF opening = "escape" THEN i + 3 ELSE i + 2
                 ends == {j \in start..Len(value) : value[j] = "}"}
                 key == SubSeq(value, start, Min(ends) - 1)
                 piece == IF opening = "escape" THEN Ok(<<"@", "{">> \o key \o <<"}">>)
                          ELSE interpolation_value(key[1], inputs, plain)
             IN IF opening = "none"
                THEN Then(render[i + 1], LAMBDA rest : Ok(<<value[i]>> \o rest))
                ELSE IF ends = {} THEN Err
                ELSE IF ~validate_interpolation_name(key) THEN Err
                ELSE Then(piece, LAMBDA text :
                       Then(render[Min(ends) + 1], LAMBDA rest : Ok(text \o rest)))
  IN render[1]

-----------------------------------------------------------------------------
(* The checks of the builder.                                               *)

Distinct(seq) == \A i, j \in DOMAIN seq : i # j => seq[i] # seq[j]
validate_step_env(env) == \A k \in DOMAIN env : k \in KeyNames /\ env[k].string
validate_steps(steps) ==
  /\ steps # <<>>
  /\ Distinct([i \in DOMAIN steps |-> steps[i].name])
  /\ Distinct([i \in DOMAIN steps |-> Sanitized[steps[i].name]])
  /\ \A i \in DOMAIN steps :
       /\ steps[i].name # ""
       /\ steps[i].cwd # <<>>
       /\ steps[i].argv # <<>> /\ \A a \in DOMAIN steps[i].argv : steps[i].argv[a] # <<>>
       /\ validate_step_env(steps[i].env)
CollectUnreserved(inputs) == \A name \in DOMAIN inputs : validate_input_name(name)
collect_extra_inputs(inputs) ==
  \A name \in DOMAIN inputs : validate_input_name(name) /\ name \notin {"build", "config", "out"}
resolve_step_cwd(step, names, plain) ==
  Then(interpolate_step_string(step.cwd, names, plain), LAMBDA cwd :
    IF cwd = <<>> \/ Head(cwd) # "/" THEN Err ELSE Ok(cwd))
resolve_step_argv(step, names, plain) ==
  ForEach(<<>>, step.argv, LAMBDA args, arg :
    Then(interpolate_step_string(arg, names, plain), LAMBDA text : Ok(Append(args, text))))
resolve_step_env(step, names, plain) ==
  LET texts == [k \in DOMAIN step.env |-> interpolate_step_string(step.env[k].text, names, plain)]
  IN IF \A k \in DOMAIN texts : texts[k].ok THEN Ok([k \in DOMAIN texts |-> texts[k].val]) ELSE Err
\* The log files are named for the step.
build_sandbox_step(step, names, plain) ==
  Then(resolve_step_cwd(step, names, plain), LAMBDA cwd :
    Then(resolve_step_argv(step, names, plain), LAMBDA argv :
      Then(resolve_step_env(step, names, plain), LAMBDA env :
        Ok([name |-> step.name, run_as |-> step.run_as, cwd |-> cwd, argv |-> argv, env_overrides |-> env,
            stdout_path |-> <<Sanitized[step.name], "stdout">>,
            stderr_path |-> <<Sanitized[step.name], "stderr">>]))))

\* script_config: [kind, text, items, fields]; the files it becomes.
RECURSIVE validate_script_config_node(_)
validate_script_config_node(value) ==
  \/ value.kind = "string"
  \/ value.kind = "array" /\ \A i \in DOMAIN value.items : validate_script_config_node(value.items[i])
  \/ /\ value.kind = "object"
     /\ \A k \in DOMAIN value.fields : k \in KeyNames /\ validate_script_config_node(value.fields[k])
validate_script_config(value) == value.kind = "null" \/ validate_script_config_node(value)
RECURSIVE write_script_config_node(_, _)
write_script_config_node(path, value) ==
  IF value.kind = "string" THEN {[path |-> path, kind |-> "file", text |-> value.text]}
  ELSE {[path |-> path, kind |-> "directory", text |-> "none"]} \cup
       IF value.kind = "array"
       THEN UNION {write_script_config_node(Append(path, IndexName[i]), value.items[i]) : i \in DOMAIN value.items}
       ELSE UNION {write_script_config_node(Append(path, k), value.fields[k]) : k \in DOMAIN value.fields}
\* The directory itself is there already: a text cannot take its place.
write_script_config(value) ==
  IF value.kind = "null" THEN Ok({[path |-> <<>>, kind |-> "directory", text |-> "none"]})
  ELSE IF value.kind = "string" THEN Err
  ELSE Ok(write_script_config_node(<<>>, value))

\* The launcher: the first place that has a file; it must be usable.
resolve_sandbox_launcher_path(tools) ==
  LET places == <<tools.override>> \o tools.beside \o tools.path
      found == {i \in DOMAIN places : places[i] # "absent"}
  IN IF found = {} THEN Err ELSE Ok(places[Min(found)])
resolve_and_preflight_sandbox_launcher(tools) ==
  Then(resolve_sandbox_launcher_path(tools), LAMBDA file : IF file = "usable" THEN Ok(file) ELSE Err)

-----------------------------------------------------------------------------
(* The checks and the mount list of the runtime function.                   *)

validate_runtime_steps(steps) ==
  /\ Distinct([i \in DOMAIN steps |-> steps[i].name])
  /\ Distinct(FlattenSeq([i \in DOMAIN steps |-> <<steps[i].stdout_path, steps[i].stderr_path>>]))
  /\ \A i \in DOMAIN steps :
       /\ Head(steps[i].cwd) = "/"
       /\ steps[i].argv # <<>> /\ steps[i].argv[1] # <<>>
\* A root: what it is, and the kinds of its entries; a link leads to a
\* directory, a broken one nowhere.
UndecodableNames == {"\\xff"}
validate_rootfs_top_level(rootfs) ==
  /\ "__bobr" \notin DOMAIN rootfs.top
  /\ \A name \in DOMAIN rootfs.top :
       name \notin UndecodableNames /\ rootfs.top[name] \in {"file", "directory", "link", "broken link"}
validate_config(sandbox) ==
  /\ sandbox.rootfs.kind = "directory" /\ validate_rootfs_top_level(sandbox.rootfs)
  /\ \A name \in DOMAIN sandbox.inputs : sandbox.inputs[name] \in {"file", "directory"}
  /\ validate_runtime_steps(sandbox.steps)

bind_mount(source, target, readonly) == [kind |-> "bind", source |-> source, target |-> target, readonly |-> readonly]
tmpfs_mount(target) == [kind |-> "tmpfs", source |-> <<"tmpfs">>, target |-> target, readonly |-> FALSE]
proc_mount(target) == [kind |-> "proc", source |-> <<"proc">>, target |-> target, readonly |-> FALSE]
\* Index and stream make one name together.
LogPath(i, stream) == CONTAINER_LOG_DIR \o <<IndexName[i], stream>>
build_launcher_config(sandbox) ==
  LET devices == <<"null", "zero", "full", "random", "urandom">>
      steps == sandbox.steps
      names == Listing(DOMAIN sandbox.inputs)
  IN [i \in DOMAIN devices |-> bind_mount(<<"host", devices[i]>>, <<"dev", devices[i]>>, FALSE)]
     \o <<proc_mount(<<"proc">>), tmpfs_mount(<<"tmp">>), tmpfs_mount(<<"run">>), tmpfs_mount(<<"dev", "shm">>),
          bind_mount(<<"build">>, CONTAINER_BUILD_DIR, FALSE),
          bind_mount(<<"config">>, CONTAINER_CONFIG_DIR, TRUE),
          bind_mount(<<"launcher">>, CONTAINER_LAUNCHER_DIR \o <<"bobr-sandbox-launcher">>, TRUE),
          bind_mount(<<"runtime">>, CONTAINER_RUNTIME_DIR, FALSE)>>
     \o (IF sandbox.plain THEN <<bind_mount(<<"out">>, CONTAINER_OUT_DIR, FALSE)>> ELSE <<>>)
     \o FlattenSeq([i \in DOMAIN steps |->
          <<bind_mount(steps[i].stdout_path, LogPath(i, "stdout"), FALSE),
            bind_mount(steps[i].stderr_path, LogPath(i, "stderr"), FALSE)>>])
     \o [i \in DOMAIN names |-> bind_mount(<<"input", names[i]>>, input_mount_path(names[i]), TRUE)]
relative_launcher_target(target) == target # <<>> /\ \A i \in DOMAIN target : target[i] \notin {".", ".."}
validate_launcher_config(mounts) ==
  /\ \A i \in DOMAIN mounts : relative_launcher_target(mounts[i].target)
  /\ Distinct([i \in DOMAIN mounts |-> mounts[i].target])
\* Overrides come last.
effective_step_env(step, plain) ==
  LET fixed == ("PATH" :> <<"path">>) @@ ("HOME" :> Written(CONTAINER_BUILD_DIR)) @@ ("TMPDIR" :> <<"/", "tmp">>)
        @@ ("BOBR_CONFIG_DIR" :> Written(CONTAINER_CONFIG_DIR)) @@ ("BOBR_BUILD_DIR" :> Written(CONTAINER_BUILD_DIR))
        @@ ("BOBR_INPUTS_DIR" :> Written(CONTAINER_INPUTS_DIR)) @@ ("BOBR_STEP_NAME" :> <<step.name>>)
      out == IF plain THEN fixed @@ ("BOBR_OUT_DIR" :> Written(CONTAINER_OUT_DIR)) ELSE fixed
  IN step.env_overrides @@ out
write_runner_config(sandbox) ==
  [i \in DOMAIN sandbox.steps |->
     [name |-> sandbox.steps[i].name, run_as |-> sandbox.steps[i].run_as,
      cwd |-> sandbox.steps[i].cwd, argv |-> sandbox.steps[i].argv,
      env |-> effective_step_env(sandbox.steps[i], sandbox.plain),
      stdout_path |-> LogPath(i, "stdout"), stderr_path |-> LogPath(i, "stderr")]]

\* prepare_bind_target: the target cannot be made inside a mount that is
\* read-only, or where the root has something else than a directory; dev is a
\* directory of the upper layer whatever the root has.
mount_layout(mounts, rootfs) ==
  LET blocked(name) == name # "dev" /\ name \in DOMAIN rootfs.top /\ rootfs.top[name] \notin {"directory", "link"}
  IN ForEach(<<>>, mounts, LAMBDA done, mount :
       IF \/ blocked(mount.target[1])
          \/ \E i \in DOMAIN done : done[i].readonly /\ IsStrictPrefix(done[i].target, mount.target)
       THEN Err ELSE Ok(Append(done, mount)))

prepare_sandbox_input(recipe) ==
  Then(write_script_config(recipe.config), LAMBDA files :
    IF \E name \in DOMAIN recipe.inputs : recipe.inputs[name] \notin {"file", "directory"} THEN Err
    ELSE Then(ForEach(<<>>, recipe.steps, LAMBDA done, step :
                Then(build_sandbox_step(step, DOMAIN recipe.inputs, recipe.plain), LAMBDA s : Ok(Append(done, s)))),
              LAMBDA steps : Ok([files |-> files, inputs |-> recipe.inputs, steps |-> steps, plain |-> recipe.plain,
                                      rootfs |-> recipe.rootfs])))
\* What the builder hands to the runtime function.
build_sandbox(recipe) ==
  IF /\ validate_script_config(recipe.config) /\ validate_steps(recipe.steps)
     /\ recipe.rootfs.kind = "directory" /\ collect_extra_inputs(recipe.inputs)
     /\ \A i \in DOMAIN recipe.steps :
          build_sandbox_step(recipe.steps[i], DOMAIN recipe.inputs, recipe.plain).ok
  THEN Then(resolve_and_preflight_sandbox_launcher(recipe.tools), LAMBDA file : prepare_sandbox_input(recipe))
  ELSE Err
\* What the runtime function hands to the launcher.
PreparedSandbox(sandbox) ==
  LET mounts == build_launcher_config(sandbox)
  IN IF validate_config(sandbox) /\ validate_launcher_config(mounts)
     THEN Then(mount_layout(mounts, sandbox.rootfs), LAMBDA done : Ok([mounts |-> done, steps |-> write_runner_config(sandbox)]))
     ELSE Err

------------------------------------------------------------------------------
(***************************************************************************)
(* Sandbox recipes, good and bad ones, and what their plans promise.         *)
(***************************************************************************)

WellFormedDef == {"src", "tool", "build", "config", "out"}
KeyNamesDef == {"src", "PATH", "BOBR_OUT_DIR", "a.b"}
SanitizedDef == [n \in {"", "one", "a b", "a_b"} |-> IF n = "a b" THEN "a_b" ELSE n]
IndexNameDef == <<"00000000", "00000001">>

Texts == UNION {[1..n -> {"@", "{", "}", "src", "1x"}] : n \in 0..5}
Var(name) == <<"@", "{", name, "}">>
StepOf(name, cwd, argv, env) == [name |-> name, run_as |-> "build-user", cwd |-> cwd, argv |-> argv, env |-> env]
Str(words) == [string |-> TRUE, text |-> words]
NoOverrides == [k \in {} |-> Str(<<>>)]
GoodStep == StepOf("one", Var("build"), <<<<"make">>, Var("src")>>, NoOverrides)
StepLists ==
  LET env(k, v) == [n \in {k} |-> v]
      others == {StepOf(n, c, <<<<"make">>>>, NoOverrides) : n \in {"", "one", "a b"}, c \in {<<>>, <<"src">>, <<"/", "src">>, Var("config")}}
        \cup {StepOf("a_b", <<"/">>, argv, NoOverrides) : argv \in {<<>>, <<<<>>>>, <<<<"make">>, <<>>>>, <<Var("out")>>, <<Var("tool"), Var("src")>>, <<Var("1x")>>}}
        \cup {StepOf("a_b", Var("src"), <<<<"make">>>>, env(k, v)) : k \in {"PATH", "BOBR_OUT_DIR", ""}, v \in {Str(Var("src")), Str(<<>>), [string |-> FALSE]}}
  IN {<<>>, <<GoodStep>>} \cup {<<s>> : s \in others} \cup {<<GoodStep, s>> : s \in others} \cup {<<s, t>> : s, t \in {u \in others : u.env = NoOverrides /\ u.cwd = <<"/">>}}
        \cup {<<StepOf("a b", <<"/">>, <<<<"x">>>>, NoOverrides), StepOf("a_b", <<"/">>, <<<<"x">>>>, NoOverrides)>>}
InputSets == [{} -> {"file"}] \cup UNION {[S -> {"file", "directory"}] : S \in {{"src"}, {"src", "tool"}}}
               \cup {[n \in {"src", m} |-> "file"] : m \in {"1x", "out", "build", "config"}} \cup {[n \in {"src"} |-> "missing"]}
Leaf(t) == [kind |-> "string", text |-> t]
Arr(items) == [kind |-> "array", items |-> items]
Obj(fields) == [kind |-> "object", fields |-> fields]
Configs ==
  LET flat == {Leaf("t"), Arr(<<>>), Arr(<<Leaf("t"), Leaf("u")>>), Obj([k \in {"src"} |-> Leaf("t")]), [kind |-> "number"]}
  IN {[kind |-> "null"]} \cup flat \cup {Arr(<<c>>) : c \in flat} \cup {Obj([k \in {"a.b", x} |-> IF k = x THEN c ELSE Leaf("v")]) : c \in flat, x \in {"src", ".."}}
Tools == [override : {"absent", "usable", "dynamic"}, beside : {<<>>, <<"absent", "usable">>, <<"old", "usable">>}, path : {<<>>, <<"usable">>}]
GoodTools == [override |-> "absent", beside |-> <<"absent", "usable">>, path |-> <<>>]
GoodRoot == [kind |-> "directory", top |-> [n \in {"bin", "tmp"} |-> "directory"]]
\* Roots with one more entry, and one that is a file.
Roots ==
  {[GoodRoot EXCEPT !.top = [n \in {"bin", name} |-> IF n = name THEN kind ELSE "directory"]] :
     name \in {"__bobr", "\\xff", "dev", "proc", "run", "tmp", "lib"}, kind \in {"file", "directory", "link", "broken link", "special"}}
  \cup {[kind |-> "file", top |-> <<>>]}
Recipe(steps, inputs, config, tools, plain) ==
  [op |-> "plan", steps |-> steps, inputs |-> inputs, config |-> config, tools |-> tools, plain |-> plain, rootfs |-> GoodRoot]
OneInput == [n \in {"src"} |-> "directory"]
SandboxCases ==
  {[op |-> o, value |-> v, plain |-> p] : o \in {"text", "escaped"}, v \in Texts, p \in BOOLEAN}
    \cup {Recipe(s, i, [kind |-> "null"], GoodTools, p) : s \in StepLists, i \in InputSets, p \in BOOLEAN}
    \cup {Recipe(<<GoodStep>>, OneInput, c, t, FALSE) : c \in Configs, t \in Tools}
    \cup {[Recipe(<<GoodStep>>, OneInput, [kind |-> "null"], GoodTools, p) EXCEPT !.rootfs = r] : r \in Roots, p \in BOOLEAN}

\* @ becomes @@ where a variable would begin.
Escaped(v) ==
  FlattenSeq([i \in DOMAIN v |-> IF v[i] = "@" /\ i < Len(v) /\ v[i + 1] = "{" THEN <<"@", "@">> ELSE <<v[i]>>])
Prepared(built) == IF built.ok THEN PreparedSandbox(built.val) ELSE Err
SandboxCall ==
  \/ Call("text", interpolate_step_string(input.value, {"src"}, input.plain))
  \/ Call("escaped", interpolate_step_string(Escaped(input.value), {"src"}, input.plain))
  \/ Call("plan", LET built == build_sandbox(input) IN [builder |-> built, runtime |-> Prepared(built)])

-----------------------------------------------------------------------------
\* Every @{ of a text begins a name and is closed.
ClosedText(v) == \A i \in DOMAIN v : (i < Len(v) /\ v[i] = "@" /\ v[i + 1] = "{") =>
                  i + 3 <= Len(v) /\ v[i + 2] \in WellFormed /\ v[i + 3] = "}"
\* Every text of that kind can be written with the escape, and a text is
\* rendered piece by piece: what stands before does not matter.
TextsRendered ==
  /\ Answered("escaped") =>
       output = IF ClosedText(input.value) THEN Ok(input.value) ELSE Err
  /\ Answered("text") => \A k \in 1..(Len(input.value) - 1) :
       LET a == interpolate_step_string(SubSeq(input.value, 1, k), {"src"}, input.plain)
           b == interpolate_step_string(SubSeq(input.value, k + 1, Len(input.value)), {"src"}, input.plain)
       IN input.value[k] # "@" /\ a.ok /\ b.ok => output = Ok(a.val \o b.val)
\* The file tree that holds a script_config value.
RECURSIVE TreeOfConfig(_)
TreeOfConfig(c) ==
  IF c.kind = "string" THEN {<<<<>>, c.text>>}
  ELSE LET parts == IF c.kind = "array" THEN [n \in {IndexName[i] : i \in DOMAIN c.items} |-> c.items[CHOOSE i \in DOMAIN c.items : IndexName[i] = n]]
                    ELSE IF c.kind = "object" THEN c.fields ELSE [n \in {} |-> c]
       IN UNION {{<<<<n>> \o leaf[1], leaf[2]>> : leaf \in TreeOfConfig(parts[n])} : n \in DOMAIN parts}
\* A root in which a build can be mounted: it keeps __bobr free, has only
\* names and kinds that the runtime can handle, and no file where a mount goes.
Mountable(rootfs) ==
  \A name \in DOMAIN rootfs.top :
    /\ name \notin {"__bobr"} \cup UndecodableNames /\ rootfs.top[name] # "special"
    /\ name \in {"proc", "run", "tmp"} => rootfs.top[name] \notin {"file", "broken link"}
\* Of what the builder accepts, the runtime function and the launcher accept
\* everything whose root has room for the mounts, which the builder does not
\* look at, and nothing else; and then the build finds what its texts speak of:
\* each variable is the place of the mount with that thing, writable only for
\* build and out; no mount hides another; each step has its own two log files;
\* the directories in its environment are mounted; the configuration's strings
\* are in its files; and the launcher is a usable one, the one asked for if
\* there is one.
PlanHolds(builder, runtime) ==
  LET mounts == ToSet(runtime.val.mounts)
      steps == runtime.val.steps
      At(words) == {m \in mounts : Written(m.target) = words}
      variables == DOMAIN input.inputs \cup {"build", "config"} \cup (IF input.plain THEN {"out"} ELSE {})
      Thing(x) == IF x \in DOMAIN input.inputs THEN <<"input", x>> ELSE <<x>>
  IN /\ runtime.ok <=> Mountable(input.rootfs)
     /\ runtime.ok =>
          /\ \A x \in variables :
               LET value == interpolation_value(x, DOMAIN input.inputs, input.plain)
               IN value.ok /\ {<<m.source, m.readonly>> : m \in At(value.val)} = {<<Thing(x), x \notin {"build", "out"}>>}
          /\ \A i, j \in DOMAIN runtime.val.mounts :
               i # j => ~IsPrefix(runtime.val.mounts[i].target, runtime.val.mounts[j].target)
          /\ \A i \in DOMAIN steps :
               /\ steps[i].name = input.steps[i].name
               /\ \A stream \in {"stdout", "stderr"} :
                    LET path == IF stream = "stdout" THEN steps[i].stdout_path ELSE steps[i].stderr_path
                    IN {m.source : m \in {n \in mounts : n.target = path}} = {<<Sanitized[input.steps[i].name], stream>>}
               /\ \A k \in {"HOME", "BOBR_CONFIG_DIR", "BOBR_BUILD_DIR", "BOBR_OUT_DIR"} \cap DOMAIN steps[i].env :
                    k \notin DOMAIN input.steps[i].env => At(steps[i].env[k]) # {}
          /\ {<<f.path, f.text>> : f \in {g \in builder.val.files : g.kind = "file"}} = TreeOfConfig(input.config)
          /\ IF input.tools.override # "absent" THEN input.tools.override = "usable"
             ELSE "usable" \in ToSet(input.tools.beside \o input.tools.path)
\* The texts and the plans of sandbox builds are what their recipes say
\* (interpolate_step_string, build_sandbox, PreparedSandbox::create).
SandboxPlanFaithful ==
  /\ TextsRendered
  /\ (Answered("plan") /\ output.builder.ok) => PlanHolds(output.builder, output.runtime)
=============================================================================
