--------------------------- MODULE BundleLauncher ---------------------------
(***************************************************************************)
(* The launcher of a host bundle: which tool it is asked for, where the      *)
(* tool's program is, which environment it gets and what is executed in the  *)
(* end.  A file system maps absolute paths, sequences of names, to nodes; a  *)
(* path that is configured or read from a file is what split('/') makes of   *)
(* it, so that an absolute one starts with an empty name.  A string such as  *)
(* the value of a variable is the sequence of its parts, ":" one of them.    *)
(***************************************************************************)
EXTENDS Files

CONSTANT SeparatorNames     \* the names that have a ':' in them

Dir_ == [kind |-> "directory"]
Link(target) == [kind |-> "symlink", target |-> target]
File_(exec, prog) == [kind |-> "file", exec |-> exec, prog |-> prog]
MaxLinks == 8

\* The path without links, or an error: a missing name, a file that is not a
\* directory on the way, or links without end.
RECURSIVE Walk(_, _, _, _)
Walk(fs, at, todo, links) ==
  IF todo = <<>> THEN Ok(at)
  ELSE LET p == Append(at, Head(todo))
       IN IF Head(todo) \in {"", "."} THEN Walk(fs, at, Tail(todo), links)
          ELSE IF Head(todo) = ".." THEN Walk(fs, IF at = <<>> THEN at ELSE Front(at), Tail(todo), links)
          ELSE IF p \notin DOMAIN fs THEN Err
          ELSE IF fs[p].kind = "symlink"
          THEN IF links = 0 THEN Err
               ELSE Walk(fs, IF Head(fs[p].target) = "" THEN <<>> ELSE at, fs[p].target \o Tail(todo), links - 1)
          ELSE IF Len(todo) > 1 /\ fs[p].kind # "directory" THEN Err
          ELSE Walk(fs, p, Tail(todo), links)
canonicalize(fs, path) == Walk(fs, <<>>, path, MaxLinks)
\* canonicalize, and the result must be below root.
Inside(fs, path, root) ==
  Then(canonicalize(fs, path), LAMBDA p : IF IsPrefix(root, p) THEN Ok(p) ELSE Err)
ExecutableFile(fs, p) == fs[p].kind = "file" /\ fs[p].exec

UnsafeNames == {"", ".", ".."}
validate_relative_path(p) == p # <<>> /\ ToSet(p) \cap UnsafeNames = {}
validate_absolute_payload_path(p) ==
  p # <<>> /\ Head(p) = "" /\ validate_relative_path(Tail(p))
ensure_no_separator(p) == ToSet(p) \cap SeparatorNames = {}

------------------------------------------------------------------------------
(* The invocation and the place of the bundle.                              *)

LauncherName == "bobr-bundle-launcher"
ToolName(name) == name \notin UnsafeNames
\* argv[0] is given by its components, the last one its file name.
parse_invocation(argv0, args) ==
  IF argv0 = <<>> \/ Last(argv0) \in UnsafeNames THEN Err
  ELSE IF Last(argv0) # LauncherName THEN Ok([mode |-> "run", tool |-> Last(argv0), args |-> args])
  ELSE IF Len(args) >= 3 /\ args[1] = "--run" /\ args[3] = "--" /\ ToolName(args[2])
  THEN Ok([mode |-> "run", tool |-> args[2], args |-> SubSeq(args, 4, Len(args))])
  ELSE IF /\ Len(args) \in {2, 3} /\ args[1] = "--diagnose" /\ ToolName(args[2])
          /\ Len(args) = 3 => args[3] = "--json"
  THEN Ok([mode |-> "diagnose", tool |-> args[2], args |-> <<>>])
  ELSE Err

locate_bundle_from_launcher(launcher) ==
  IF Len(launcher) >= 2 /\ Last(launcher) = LauncherName /\ launcher[Len(launcher) - 1] = "libexec"
  THEN Ok(SubSeq(launcher, 1, Len(launcher) - 2))
  ELSE Err

\* Versions are compared part by part, a missing third part is 0.
Part3(v) == [i \in 1..3 |-> IF i \in DOMAIN v THEN v[i] ELSE 0]
AtLeast(v, w) ==
  \A i \in 1..3 : Part3(v)[i] < Part3(w)[i] => \E j \in 1..(i - 1) : Part3(v)[j] > Part3(w)[j]
ParseRequired(v) == Len(v) \in 2..3
check_host_platform(config, host) ==
  IF Len(host.kernel) < 2 THEN Err
  ELSE Ok(AtLeast(host.kernel, config.min_kernel) /\ host.arch = config.arch)

------------------------------------------------------------------------------
(* The configuration.                                                       *)

Operations == {"replace", "prepend", "append", "unset", "default"}
ValidRule(rule) ==
  LET empty == rule.paths = <<>> /\ rule.values = <<>>
  IN /\ rule.paths = <<>> \/ rule.values = <<>>
     /\ CASE rule.operation = "replace" -> ~empty /\ ~rule.inherit /\ rule.host_default = <<>>
          [] rule.operation \in {"prepend", "append"} -> ~empty /\ (rule.inherit \/ rule.host_default = <<>>)
          [] rule.operation = "unset" -> empty /\ ~rule.inherit /\ rule.host_default = <<>>
          [] rule.operation = "default" -> ~rule.inherit /\ (~empty \/ rule.host_default # <<>>)

ValidConfig(config) ==
  /\ DOMAIN config.tools # {}
  /\ ParseRequired(config.min_kernel)
  /\ \A t \in DOMAIN config.tools :
       /\ t # LauncherName /\ ToolName(t)
       /\ \A i \in DOMAIN config.tools[t].prefix :
            config.tools[t].prefix[i].kind = "path" => validate_relative_path(config.tools[t].prefix[i].path)

\* How an absolute path reads.
Spelled(p) == [i \in 1..(2 * Len(p)) |-> IF i % 2 = 1 THEN "/" ELSE p[i \div 2]]

resolve_tool(fs, root, config, name) ==
  IF name \notin DOMAIN config.tools THEN Err
  ELSE LET tool == config.tools[name]
           argument(a) == IF a.kind = "literal" THEN Ok(a.value)
                          ELSE IF ~validate_relative_path(a.path) THEN Err
                          ELSE Then(Inside(fs, root \o a.path, root), LAMBDA p : Ok(Spelled(p)))
       IN IF ~validate_relative_path(config.payload) \/ ~validate_relative_path(tool.path) THEN Err
          ELSE Then(Inside(fs, root \o config.payload, root), LAMBDA payload :
               Then(Inside(fs, root \o tool.path, payload), LAMBDA target :
                 IF ~ExecutableFile(fs, target) THEN Err
                 ELSE Then(ForEach(<<>>, tool.prefix, LAMBDA s, a : Then(argument(a), LAMBDA v : Ok(Append(s, v)))),
                        LAMBDA prefix : Ok([name |-> name, target |-> target, payload |-> payload,
                                            prefix |-> prefix, config |-> tool]))))

------------------------------------------------------------------------------
(* The environment: [values, traces], functions of the names that are set.  *)

join_list(values) ==
  FoldLeft(LAMBDA s, i : s \o (IF i = 1 THEN <<>> ELSE <<":">>) \o values[i], <<>>, [i \in DOMAIN values |-> i])
join_pair(a, b) == IF a = <<>> THEN b ELSE IF b = <<>> THEN a ELSE join_list(<<a, b>>)

configured_values(fs, root, rule) ==
  IF rule.paths = <<>> THEN Ok(rule.values)
  ELSE ForEach(<<>>, rule.paths, LAMBDA s, rel :
         IF ~validate_relative_path(rel) THEN Err
         ELSE Then(Inside(fs, root \o rel, root),
                   LAMBDA p : IF ensure_no_separator(p) THEN Ok(Append(s, Spelled(p))) ELSE Err))

Bind(f, k, v) == [x \in DOMAIN f \cup {k} |-> IF x = k THEN v ELSE f[x]]
Unbind(f, k) == [x \in DOMAIN f \ {k} |-> f[x]]
ApplyRule(env, name, rule, configured, scope) ==
  LET set == name \in DOMAIN env.values
      origin == <<scope, rule.operation>>
      with(value, trace) == [values |-> Bind(env.values, name, value), traces |-> Bind(env.traces, name, trace)]
      default == IF rule.host_default = <<>> THEN <<>> ELSE join_list(rule.host_default)
      inherited == IF ~rule.inherit THEN <<>> ELSE IF set THEN env.values[name] ELSE default
      bundled == join_list(configured)
      earlier == IF inherited # <<>> /\ set THEN env.traces[name] ELSE <<>>
  IN CASE rule.operation = "unset" -> [values |-> Unbind(env.values, name), traces |-> Unbind(env.traces, name)]
       [] rule.operation = "replace" -> with(bundled, <<origin>>)
       [] rule.operation = "prepend" -> with(join_pair(bundled, inherited), Append(earlier, origin))
       [] rule.operation = "append" -> with(join_pair(inherited, bundled), Append(earlier, origin))
       [] rule.operation = "default" ->
            IF set THEN env ELSE with(IF configured = <<>> THEN default ELSE bundled, <<origin>>)
apply_rules(fs, root, env, rules, scope) ==
  ForEach(env, Listing(DOMAIN rules), LAMBDA e, name :
    IF ~ValidRule(rules[name]) THEN Err
    ELSE Then(configured_values(fs, root, rules[name]),
              LAMBDA values : Ok(ApplyRule(e, name, rules[name], values, scope))))

LoaderSensitive == {"LD_LIBRARY_PATH", "GLIBC_TUNABLES"}
HostPart(host) == [v \in DOMAIN host \ LoaderSensitive |-> host[v]]
build_environment(fs, root, config, tool, host) ==
  LET start == [values |-> HostPart(host), traces |-> [v \in DOMAIN HostPart(host) |-> <<<<"host", "set">>>>]]
  IN Then(apply_rules(fs, root, start, config.environment, "common"),
          LAMBDA env : apply_rules(fs, root, env, tool.config.environment, "tool"))

------------------------------------------------------------------------------
(* The program.                                                             *)

MAX_SCRIPT_DEPTH == 4

Newline_ == "\n"
Blanks == {" ", "\t"}
Trim(line) ==
  LET text == {i \in DOMAIN line : line[i] \notin Blanks}
  IN IF text = {} THEN <<>> ELSE SubSeq(line, Min(text), Max(text))
\* The parts of a text between its separators.
SplitAt(text, separator) ==
  LET cut == SortedListing({0, Len(text) + 1} \cup {i \in DOMAIN text : text[i] = separator}, <)
  IN [i \in 1..(Len(cut) - 1) |-> SubSeq(text, cut[i] + 1, cut[i + 1] - 1)]
\* The path that a text spells; a name of several parts is none of the special ones.
PathOf(text) ==
  LET name(parts) == IF parts = <<>> THEN "" ELSE IF Len(parts) = 1 THEN parts[1] ELSE "name"
  IN [i \in DOMAIN SplitAt(text, "/") |-> name(SplitAt(text, "/")[i])]
\* prefix: what follows "#!" in the buffer, the last part "more" when the file
\* goes on after it; a "/" is a part of its own.
parse_shebang(prefix) ==
  LET ends == {i \in DOMAIN prefix : prefix[i] = Newline_}
      raw == IF ends = {} THEN prefix ELSE SubSeq(prefix, 1, Min(ends) - 1)
      line == Trim(raw)
      blank == {i \in DOMAIN line : line[i] \in Blanks}
      stop == IF blank = {} THEN Len(line) ELSE Min(blank) - 1
  IN IF "nul" \in ToSet(raw) \/ (ends = {} /\ "more" \in ToSet(prefix)) \/ line = <<>> THEN Err
     ELSE IF ~validate_absolute_payload_path(PathOf(SubSeq(line, 1, stop))) THEN Err
     ELSE Ok([interpreter |-> SubSeq(line, 1, stop), argument |-> Trim(SubSeq(line, stop + 1, Len(line)))])

\* A program is an ELF file, a script or something else.  Interpreters and
\* arguments that may be missing are sequences of at most one element.
Elf(interp, needed) ==
  [form |-> "elf", arch |-> "x86_64", interp |-> interp, needed |-> needed, rpath |-> <<>>, runpath |-> <<>>,
   soname |-> <<>>, requires |-> {}, provides |-> {}]
Script(interp, arg) == [form |-> "script", interp |-> interp, arg |-> arg]
inspect_elf_for_arch(prog, arch) ==
  /\ prog.form = "elf" /\ prog.arch = arch
  /\ Len(prog.interp) <= 1
  /\ \A i \in DOMAIN prog.interp : prog.interp[i] # <<>> /\ Head(prog.interp[i]) = ""
inspect_executable_for_arch(prog, arch) ==
  IF prog.form = "script" THEN validate_absolute_payload_path(prog.interp)
  ELSE inspect_elf_for_arch(prog, arch)

prepare_dynamic_program(fs, root, config, payload, target, argv0, args) ==
  LET interp == fs[target].prog.interp[1]
      directory(rel) ==
        IF ~validate_relative_path(rel) THEN Err
        ELSE Then(Inside(fs, root \o rel, payload),
                  LAMBDA p : IF fs[p].kind = "directory" /\ ensure_no_separator(p) THEN Ok(p) ELSE Err)
  IN IF ~validate_absolute_payload_path(interp) THEN Err
     ELSE Then(Inside(fs, payload \o Tail(interp), payload), LAMBDA loader :
       IF \/ ~ExecutableFile(fs, loader)
          \/ ~inspect_elf_for_arch(fs[loader].prog, config.arch)
          \/ fs[loader].prog.interp # <<>>
          \/ config.lib_dirs = <<>> THEN Err
       ELSE Then(ForEach(<<>>, config.lib_dirs, LAMBDA s, rel : Then(directory(rel), LAMBDA d : Ok(Append(s, d)))),
              LAMBDA dirs : Ok([exec |-> loader, program |-> target, argv0 |-> argv0, library_dirs |-> dirs, args |-> args])))

RECURSIVE prepare_inspected(_, _, _, _, _, _, _, _)
prepare_inspected(fs, root, config, payload, target, argv0, args, depth) ==
  LET prog == fs[target].prog
  IN IF ~inspect_executable_for_arch(prog, config.arch) THEN Err
     ELSE IF prog.form = "elf"
     THEN IF prog.interp = <<>>
          THEN Ok([exec |-> target, program |-> target, argv0 |-> argv0, library_dirs |-> <<>>, args |-> args])
          ELSE prepare_dynamic_program(fs, root, config, payload, target, argv0, args)
     ELSE IF depth >= MAX_SCRIPT_DEPTH THEN Err
     ELSE Then(Inside(fs, payload \o Tail(prog.interp), payload), LAMBDA interp :
            IF ~ExecutableFile(fs, interp) THEN Err
            ELSE prepare_inspected(fs, root, config, payload, interp, Spelled(Tail(prog.interp)),
                   prog.arg \o <<Spelled(target)>> \o args, depth + 1))
prepare_tool_launch(fs, root, config, tool, args) ==
  prepare_inspected(fs, root, config, tool.payload, tool.target, tool.config.argv0, tool.prefix \o args, 0)

\* What the launcher at this path executes; platform is off for a diagnosis.
run_launcher(fs, launcher, config, argv0, args, host) ==
  Then(parse_invocation(argv0, args), LAMBDA call :
  Then(locate_bundle_from_launcher(launcher), LAMBDA root :
  IF ~ValidConfig(config) THEN Err
  ELSE Then(check_host_platform(config, host), LAMBDA compatible :
  IF call.mode = "run" /\ ~compatible THEN Err
  ELSE Then(resolve_tool(fs, root, config, call.tool), LAMBDA tool :
       Then(build_environment(fs, root, config, tool, host.env), LAMBDA env :
       Then(prepare_tool_launch(fs, root, config, tool, [i \in DOMAIN call.args |-> <<call.args[i]>>]), LAMBDA plan :
         Ok([plan |-> plan, env |-> env, mode |-> call.mode, tool |-> tool])))))))
=============================================================================
