-------------------------------- MODULE SeLabel --------------------------------
(***************************************************************************)
(* Labelling the files of an image by the policy that is in it             *)
(* (crates/composefs-boot/src/selabel.rs).                                 *)
(*                                                                         *)
(* The data of /etc/selinux/config is the name of the policy or None; that *)
(* of a file_contexts file a sequence of [paths, ifmt, context]: a regular *)
(* expression is the set of the paths it matches, and ifmt "any" if the    *)
(* line has no type.  That of a subs file is a sequence of [alias, path].  *)
(***************************************************************************)
EXTENDS BootEntry

Selinux == <<"security", "selinux">>

\* openat: the data of a file, or None if there is nothing with its name.
openat(tree, p) ==
  IF ~lookup(tree, p) THEN None ELSE IF IsFile(tree, p) THEN read_file(tree, p) ELSE Error

(***************************************************************************)
(* Policy::build.  Of the rules that match, the last one counts, and those *)
(* of a later file come after those of an earlier one; an alias of a later *)
(* file replaces one of an earlier.                                        *)
(***************************************************************************)
SpecFiles == <<"file_contexts", "file_contexts.local", "file_contexts.homedirs">>
SubsFiles == <<"file_contexts.subs", "file_contexts.subs_dist">>

build(tree, dir) ==
  LET read(names) == [i \in DOMAIN names |-> openat(tree, Append(dir, names[i]))]
      given(found) == FlattenSeq([i \in DOMAIN found |-> IF found[i] = None THEN <<>> ELSE found[i]])
  IN  IF Error \in Range(read(SpecFiles)) \cup Range(read(SubsFiles)) \/ read(SpecFiles)[1] = None
      THEN Error
      ELSE [rules |-> given(read(SpecFiles)), subs |-> given(read(SubsFiles))]

check_aliased(policy, p) ==
  LET hits == {i \in DOMAIN policy.subs : policy.subs[i].alias = p}
  IN  IF hits = {} THEN p ELSE policy.subs[Max(hits)].path

\* Deliberate error: the first rule that matches counts.
ContextFirst(policy, p, ifmt) ==
  LET hits == {i \in DOMAIN policy.rules : p \in policy.rules[i].paths /\ policy.rules[i].ifmt \in {"any", ifmt}}
  IN  IF hits = {} THEN "<<none>>" ELSE policy.rules[Min(hits)].context

ContextOf(policy, p, ifmt) ==
  LET hits == {i \in DOMAIN policy.rules : p \in policy.rules[i].paths /\ policy.rules[i].ifmt \in {"any", ifmt}}
  IN  IF hits = {} THEN "<<none>>" ELSE policy.rules[Max(hits)].context

Ifmt(node) ==
  IF node.dir THEN "d"
  ELSE CASE node.content.type \in {"inline", "external"} -> "-"
         [] node.content.type = "fifo"     -> "p"
         [] node.content.type = "socket"   -> "s"
         [] node.content.type = "symlink"  -> "l"
         [] node.content.type = "blockdev" -> "b"
         [] node.content.type = "chardev"  -> "c"

(***************************************************************************)
(* The path by which a node is looked up: where an entry's path is an      *)
(* alias, the original takes its place, and that of all that is below it.  *)
(***************************************************************************)
LookupPath(policy, p) ==
  LET upto[n \in 0 .. Len(p)] ==
        IF n = 0 THEN <<>> ELSE check_aliased(policy, Append(upto[n - 1], p[n]))
  IN  upto[Len(p)]

WithLabel(stat, context) ==
  LET others == DOMAIN stat.xattrs \ {Selinux}
  IN  [stat EXCEPT !.xattrs =
         IF context = "<<none>>" THEN [k \in others |-> @[k]]
         ELSE [k \in others \cup {Selinux} |-> IF k = Selinux THEN context ELSE @[k]]]

(***************************************************************************)
(* relabel_dir.  All links of a leaf share its stat; the one that is met   *)
(* last says what the label is.                                            *)
(***************************************************************************)
LastLink(tree, p) ==
  LET links == {q \in DOMAIN tree : q = p \/ SameLeaf(tree, p, q)}
  IN  CHOOSE q \in links : \A r \in links \ {q} : VisitedBefore(r, q)

relabel_dir(tree, policy) ==
  [p \in DOMAIN tree |->
     [tree[p] EXCEPT !.stat = WithLabel(@, ContextOf(policy, LookupPath(policy, LastLink(tree, p)), Ifmt(tree[p])))]]

strip_selinux_labels(tree) == [p \in DOMAIN tree |-> [tree[p] EXCEPT !.stat = WithLabel(@, "<<none>>")]]

selabel(tree) ==
  LET etc_selinux == <<"etc", "selinux">>
      name == openat(tree, Append(etc_selinux, "config"))
      dir == etc_selinux \o <<name, "contexts", "files">>
      policy == build(tree, dir)
      labelled == IF name \in {None} THEN strip_selinux_labels(tree)
                  ELSE IF name = Error \/ ~get_directory(tree, dir) \/ policy = Error THEN Error
                  ELSE relabel_dir(tree, policy)
  IN  InDirectory(tree, etc_selinux, strip_selinux_labels(tree), labelled)

\* The entries are found before /boot is emptied; what is left is the image.
transform_for_boot(tree) ==
  IF CanTransformForBoot(tree) THEN selabel(EmptyToplevel(tree)) ELSE Error
===============================================================================
