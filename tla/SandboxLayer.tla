----------------------------- MODULE SandboxLayer -----------------------------
(***************************************************************************)
(* What a SandboxInstall build leaves behind.  The root of the sandbox is an *)
(* overlay: the given rootfs below, and above it the layer that takes every  *)
(* write.  When the steps are done, that layer alone becomes the object,     *)
(* provided that it only adds.  Paths are sequences of names, Top the root.  *)
(* The overlay is the kernel's; its marks are nodes and attributes here.     *)
(***************************************************************************)
EXTENDS Naturals, Sequences, FiniteSets, SequencesExt, Functions

CONSTANTS Paths,      \* the paths the build may touch, closed under Front
          Rootfs,     \* the possible rootfs inputs: nodes at some of Paths
          MaxChanges  \* bound on the changes of one build

VARIABLES lower, upper, merged, layer, stage, redirects, touched, changes
layerVars == <<lower, upper, merged, layer, stage, redirects, touched, changes>>

Top == <<>>
OVERLAY_SCAFFOLDING_TOP_LEVEL == {"__bobr", "dev", "proc", "run", "tmp"}
Scaffolding(p) == p # Top /\ Head(p) \in OVERLAY_SCAFFOLDING_TOP_LEVEL
Inside(p, q) == IsStrictPrefix(q, p)
Upward(p) == {SubSeq(p, 1, i) : i \in 0..(Len(p) - 1)}

\* meta stands for owner, group and permissions.
Dir(meta) == [kind |-> "directory", meta |-> meta, content |-> "none"]
Fil(content) == [kind |-> "file", meta |-> "a", content |-> content]
NoRedirect == [absolute |-> FALSE, path |-> Top]
Marked(n) == [kind |-> n.kind, meta |-> n.meta, content |-> n.content,
              opaque |-> FALSE, redirect |-> NoRedirect]
Bare(n) == [kind |-> n.kind, meta |-> n.meta, content |-> n.content]
Whiteout == Marked([kind |-> "whiteout", meta |-> "a", content |-> "none"])
Redirected(n) == n.redirect # NoRedirect

-----------------------------------------------------------------------------
(* The overlay.                                                             *)

\* Where in the rootfs the lower half of each path is (no place or one), and
\* the root as the steps see it.
Overlaid(low, up) ==
  LET origin[p \in Paths] ==
        IF p = Top THEN {Top}
        ELSE LET sibling(n) == {Append(q, n) : q \in origin[Front(p)]} \cap DOMAIN low
                 dirs(S) == {q \in S : low[q].kind = "directory"}
             IN IF p \notin DOMAIN up THEN sibling(Last(p))
                ELSE IF up[p].kind # "directory" \/ up[p].opaque THEN {}
                ELSE IF ~Redirected(up[p]) THEN dirs(sibling(Last(p)))
                ELSE IF up[p].redirect.absolute THEN dirs({up[p].redirect.path})
                ELSE dirs(sibling(Last(up[p].redirect.path)))
      seen == {p \in Paths : IF p \in DOMAIN up THEN up[p].kind # "whiteout" ELSE origin[p] # {}}
  IN [origins |-> origin,
      view |-> [p \in seen |-> IF p \in DOMAIN up THEN Bare(up[p])
                               ELSE low[CHOOSE q \in origin[p] : TRUE]]]
Origins == merged.origins
View == merged.view
\* p names something of the rootfs, hidden or not.
InRootfs(p) == \E q \in Origins[Front(p)] : Append(q, Last(p)) \in DOMAIN lower
IsFolder(p) == p \in DOMAIN View /\ View[p].kind = "directory"
Vacant(p) == p \notin DOMAIN View
Bottom(p) == \A q \in DOMAIN View : ~Inside(q, p)
CopiedUp(S) == [q \in DOMAIN upper \cup S |-> IF q \in DOMAIN upper THEN upper[q] ELSE Marked(View[q])]
Placed(u, p, node) == [q \in DOMAIN u \cup {p} |-> IF q = p THEN node ELSE u[q]]
Cleared(u, p) == Restrict(u, {q \in DOMAIN u : q # p /\ ~Inside(q, p)})
Gone(u, p) == IF InRootfs(p) THEN Placed(Cleared(u, p), p, Whiteout) ELSE Cleared(u, p)

\* One change by a program of a step.  The directories that hold mounts stay.
Change(p, result) ==
  /\ stage = "building" /\ changes < MaxChanges
  /\ IsFolder(Front(p)) /\ ~(Len(p) = 1 /\ Scaffolding(p))
  /\ changes' = changes + 1
  /\ upper' = result
  /\ merged' = Overlaid(lower, upper')
  /\ UNCHANGED <<lower, layer, stage, redirects>>
Touch(S) == touched' = (touched \/ \E p \in S : ~Scaffolding(p) /\ InRootfs(p))

WriteFile(p) ==
  /\ ~IsFolder(p)
  /\ Change(p, Placed(CopiedUp(Upward(p)), p, Marked(Fil("new")))) /\ Touch({p})
MakeDir(p) ==
  /\ Vacant(p)
  /\ Change(p, Placed(CopiedUp(Upward(p)), p,
                      [Marked(Dir("a")) EXCEPT !.opaque = p \in DOMAIN upper]))
  /\ Touch({p})
RemoveEntry(p) ==
  /\ ~Vacant(p) /\ Bottom(p)
  /\ Change(p, Gone(CopiedUp(Upward(p)), p)) /\ Touch({p})
ChangeMode(p) ==
  /\ ~Vacant(p)
  /\ LET u == CopiedUp(Upward(p) \cup {p})
     IN Change(p, [u EXCEPT ![p].meta = IF @ = "a" THEN "b" ELSE "a"])
  /\ Touch({p})
\* A directory with a lower half can only be renamed by a redirect; another
\* one is marked opaque when it arrives in a directory that has a lower half.
Rename(p, q) ==
  /\ ~Vacant(p) /\ Vacant(q) /\ p # q /\ ~Inside(q, p) /\ IsFolder(Front(q))
  /\ ~Scaffolding(p) /\ ~Scaffolding(q)
  /\ IsFolder(p) /\ Origins[p] # {} => redirects
  /\ LET u == CopiedUp(Upward(p) \cup {p} \cup Upward(q))
         beside == Front(p) = Front(q)
         moved == {r \in DOMAIN u : r = p \/ Inside(r, p)}
         At(r) == q \o SubSeq(r, Len(p) + 1, Len(r))
         top == IF ~IsFolder(p) THEN u[p]
                ELSE IF Origins[p] = {} THEN [u[p] EXCEPT !.opaque = @ \/ Origins[Front(q)] # {}]
                ELSE IF Redirected(u[p]) /\ (beside \/ u[p].redirect.absolute) THEN u[p]
                ELSE IF beside THEN [u[p] EXCEPT !.redirect = [absolute |-> FALSE, path |-> <<Last(p)>>]]
                ELSE [u[p] EXCEPT !.redirect = [absolute |-> TRUE, path |-> CHOOSE o \in Origins[p] : TRUE]]
         gone == Gone(u, p)
     IN /\ \A r \in moved : At(r) \in Paths
        /\ Change(p, [r \in (DOMAIN gone \ {s \in DOMAIN gone : Inside(s, q)}) \cup {At(s) : s \in moved} |->
                        IF r = q THEN top
                        ELSE IF \E s \in moved : At(s) = r THEN u[CHOOSE s \in moved : At(s) = r]
                        ELSE gone[r]])
  /\ Touch({p, q})

-----------------------------------------------------------------------------
(* The runtime function around the build.                                   *)

reject_reserved_rootfs_entry == <<"__bobr">> \in DOMAIN lower
validate_rootfs_top_level ==
  /\ ~reject_reserved_rootfs_entry
  /\ \A p \in DOMAIN lower : Len(p) = 1 => lower[p].kind \in {"file", "directory", "symlink"}
\* The layer starts with the links below /dev and the points of the mounts.
populate_overlay_upper ==
  [p \in {Top, <<"dev">>, <<"dev", "fd">>} |->
     Marked(IF p = <<"dev", "fd">> THEN Fil("link") ELSE Dir("a"))]
\* redirect_dir=off is asked for; a kernel that refuses the option decides
\* for itself.
mount_root_overlay == redirects' \in BOOLEAN
Start ==
  /\ stage = "given"
  /\ IF validate_rootfs_top_level
     THEN /\ stage' = "building"
          /\ upper' = populate_overlay_upper
          /\ merged' = Overlaid(lower, upper')
          /\ mount_root_overlay
     ELSE stage' = "invalid" /\ UNCHANGED <<upper, merged, redirects>>
  /\ UNCHANGED <<lower, layer, touched, changes>>

strip_overlay_scaffolding(u) == Restrict(u, {p \in DOMAIN u : ~Scaffolding(p)})
\* The attributes of a directory of the layer, in either of two name spaces.
xattr_value(n) == n.redirect
redirect_target(n) == xattr_value(n)
redirect_source(p, target) == IF target.absolute THEN target.path ELSE Front(p) \o target.path
xattr_equals(n) == n.opaque
OpaqueIgnored(n) == FALSE
is_opaque_dir(n) == xattr_equals(n)
\* The entry at p of the layer changes what the rootfs has.
Subtracts(u, p) ==
  \/ u[p].kind = "whiteout"
  \/ /\ u[p].kind = "directory" /\ Redirected(u[p])
     /\ redirect_source(p, redirect_target(u[p])) \in DOMAIN lower
  \/ /\ p \in DOMAIN lower
     /\ \/ u[p].kind # "directory"
        \/ is_opaque_dir(u[p])
        \/ lower[p].kind # "directory"
        \/ lower[p].meta # u[p].meta
validate_additive_layer(u) == \A p \in DOMAIN u \ {Top} : ~Subtracts(u, p)
\* Directories of the rootfs below which nothing is left, bottom up.
prune_passthrough_noise(u) ==
  LET noise(p) == /\ p # Top /\ u[p].kind = "directory"
                  /\ p \in DOMAIN lower /\ lower[p].kind = "directory"
  IN Restrict(u, {p \in DOMAIN u : ~(\A q \in DOMAIN u : q = p \/ Inside(q, p) => noise(q))})
CaptureLayer ==
  /\ stage = "building"
  /\ LET stripped == strip_overlay_scaffolding(upper)
     IN IF validate_additive_layer(stripped)
        THEN stage' = "captured" /\ layer' = prune_passthrough_noise(stripped)
        ELSE stage' = "refused" /\ UNCHANGED layer
  /\ UNCHANGED <<lower, upper, merged, redirects, touched, changes>>

LayerInit ==
  /\ lower \in Rootfs
  /\ upper = <<>> /\ layer = <<>> /\ merged = Overlaid(lower, upper)
  /\ stage = "given"
  /\ redirects = FALSE /\ touched = FALSE /\ changes = 0
LayerNext ==
  \/ Start \/ CaptureLayer
  \/ \E p \in Paths \ {Top} :
       \/ WriteFile(p) \/ MakeDir(p) \/ RemoveEntry(p) \/ ChangeMode(p)
       \/ \E q \in Paths \ {Top} : Rename(p, q)

-----------------------------------------------------------------------------
\* An accepted layer carries what the build did, and nothing else: on top of
\* the rootfs it shows again what the steps saw when they ended, all that the
\* rootfs had is there unchanged, and each directory of the rootfs in the layer
\* has an addition below it.  A layer is refused only when the build changed
\* something of the rootfs.  (validate_additive_layer, prune_passthrough_noise;
\* the directories of the mounts are not part of the output.)
LayerCarriesBuild ==
  LET kept == {p \in Paths \ {Top} : ~Scaffolding(p)}
      again == [p \in kept \cap (DOMAIN lower \cup DOMAIN layer) |->
                  IF p \in DOMAIN layer THEN Bare(layer[p]) ELSE lower[p]]
  IN /\ stage = "captured" =>
          /\ Restrict(View, kept \cap DOMAIN View) = again
          /\ \A p \in kept \cap DOMAIN lower : again[p] = lower[p]
          /\ \A p \in DOMAIN layer \cap DOMAIN lower : p # Top =>
               \E q \in DOMAIN layer \ DOMAIN lower : Inside(q, p)
     /\ stage = "refused" => touched
=============================================================================
