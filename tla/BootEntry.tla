------------------------------- MODULE BootEntry -------------------------------
(***************************************************************************)
(* What an image has to boot from, and what becomes of it                  *)
(* (crates/composefs-boot/src/bootloader.rs, cmdline.rs, lib.rs).          *)
(*                                                                         *)
(* The content of a file is [type, data], and its data what it says.  A    *)
(* loader entry's data is a sequence of lines: [key, value] with a path,   *)
(* or [key, args] with arguments of the kernel.  An argument is a sequence *)
(* of words, of which "=" is one; to start with another argument is to     *)
(* have it as a prefix.  A UKI's data are its arguments, or None.          *)
(***************************************************************************)
EXTENDS Tree, Integers, Sequences, FiniteSets, SequencesExt

CONSTANTS
  Conf,    \* names that end in ".conf"
  Efi,     \* names that end in ".efi"
  Error,   \* what comes of a step that fails
  None

Failed(r) == r = Error

IsFile(tree, p) ==
  lookup(tree, p) /\ ~tree[p].dir /\ tree[p].content.type \in {"inline", "external"}

read_file(tree, p) == tree[p].content.data

\* What get_directory finds, or what follows from it if there is nothing.
InDirectory(tree, p, none, found) ==
  CASE get_directory_opt(tree, p) = "found" -> found
    [] get_directory_opt(tree, p) = "none"  -> none
    [] OTHER -> Error

Sorted(S) == InOrder(S, VisitedBefore)

(***************************************************************************)
(* The command line.                                                       *)
(***************************************************************************)
make_cmdline_composefs(id, insecure) ==
  <<"composefs", "=">> \o (IF insecure THEN <<"?">> ELSE <<>>) \o <<id>>

get_cmdline_composefs(args) ==
  LET found == {i \in DOMAIN args : IsPrefix(<<"composefs", "=">>, args[i])}
  IN  IF found = {} THEN Error
      ELSE LET value == SubSeq(args[Min(found)], 3, Len(args[Min(found)]))
               insecure == value # <<>> /\ value[1] = "?"
           IN  IF Len(value) = IF insecure THEN 2 ELSE 1
               THEN [id |-> value[Len(value)], insecure |-> insecure] ELSE Error

\* The name of an argument with the "=", or all of one that has no value.
KeyOf(arg) ==
  IF "=" \in Range(arg) THEN SubSeq(arg, 1, Min({i \in DOMAIN arg : arg[i] = "="})) ELSE arg

FileKeys == {"linux", "initrd", "efi"}

IsLines(lines) ==
  /\ lines \in Seq(Range(lines))
  /\ \A i \in DOMAIN lines :
       DOMAIN lines[i] = {"key", IF lines[i].key \in FileKeys THEN "value" ELSE "args"}

LinesWith(lines, keys) == {i \in DOMAIN lines : lines[i].key \in keys}

HasArgs(lines) == \A i \in LinesWith(lines, {"options"}) : lines[i].args \in Seq(Range(lines[i].args))

\* Deliberate error: a new argument goes behind the others also if it was there.
AddArgument(args, arg) == Append(args, arg)

\* The first argument that starts with the key is replaced.
SetArgument(args, arg) ==
  LET old == {i \in DOMAIN args : IsPrefix(KeyOf(arg), args[i])}
  IN  IF old = {} THEN Append(args, arg) ELSE [args EXCEPT ![Min(old)] = arg]

add_cmdline(lines, arg) ==
  LET options == LinesWith(lines, {"options"})
  IN  IF options = {} THEN Append(lines, [key |-> "options", args |-> <<arg>>])
      ELSE [lines EXCEPT ![Min(options)].args = SetArgument(@, arg)]

adjust_cmdline(lines, id, insecure, extra) ==
  FoldLeft(add_cmdline, add_cmdline(lines, make_cmdline_composefs(id, insecure)), extra)

\* The kernel gets the arguments of all options lines.
Cmdline(lines) ==
  FlattenSeq([i \in DOMAIN lines |-> IF lines[i].key = "options" THEN lines[i].args ELSE <<>>])

(***************************************************************************)
(* Type 1 entries: [filename, lines, files], with the data of the files by *)
(* the paths by which the lines name them.                                 *)
(***************************************************************************)
PathsIn(lines) == {lines[i].value : i \in LinesWith(lines, FileKeys)}

load(tree, p) ==
  LET lines == read_file(tree, p)
  IN  IF \A f \in PathsIn(lines) : split(tree, f) /\ IsFile(tree, f)
      THEN [filename |-> FileName(p), lines |-> lines,
            files |-> [f \in PathsIn(lines) |-> read_file(tree, f)]]
      ELSE Error

Entries1(tree) ==
  LET dir == <<"boot", "loader", "entries">>
      found == Sorted({p \in Entries(tree, dir) : FileName(p) \in Conf})
      loaded == [i \in DOMAIN found |-> IF IsFile(tree, found[i]) THEN load(tree, found[i]) ELSE Error]
  IN  InDirectory(tree, dir, <<>>, IF Error \in Range(loaded) THEN Error ELSE loaded)

\* Deliberate error: the files stay where the entry has been.
RelocateLines(t1, entry_id) ==
  [t1 EXCEPT !.filename = entry_id \o ".conf",
             !.lines = [i \in DOMAIN t1.lines |->
               IF t1.lines[i].key \in FileKeys
               THEN [t1.lines[i] EXCEPT !.value = <<entry_id, FileName(@)>>] ELSE t1.lines[i]]]

(***************************************************************************)
(* relocate, with no boot_subdir, which is how cfsctl calls it.            *)
(* The lines are changed one after the other.  A file is taken from where  *)
(* the line had it and put where the line has it now, where one of the     *)
(* same name may be already.  (Paths start with a "/": a value without any *)
(* is left alone by relocate, and write_t1_simple fails at one that does   *)
(* not start with it.)                                                     *)
(***************************************************************************)
RelocateLine(t, entry_id, i) ==
  IF t.lines[i].key \notin FileKeys THEN t
  ELSE LET old == t.lines[i].value
           path == <<entry_id, FileName(old)>>
           rest == [f \in DOMAIN t.files \ {old} |-> t.files[f]]
       IN  [t EXCEPT !.lines[i].value = path,
                     !.files = IF old \notin DOMAIN @ THEN @
                               ELSE [f \in DOMAIN rest \cup {path} |->
                                       IF f = path THEN @[old] ELSE rest[f]]]

relocate(t1, entry_id) ==
  FoldLeft(LAMBDA t, i : RelocateLine(t, entry_id, i),
           [t1 EXCEPT !.filename = entry_id \o ".conf"], [i \in DOMAIN t1.lines |-> i])

(***************************************************************************)
(* Type 2 entries: [file_path, data, addon], of the .efi files at and      *)
(* below a directory.                                                      *)
(***************************************************************************)
find_uki_components(tree, dir) ==
  LET found == Sorted({p \in DOMAIN tree : Below(dir, p) /\ ~tree[p].dir /\ FileName(p) \in Efi})
      rel(p) == SubSeq(p, Len(dir) + 1, Len(p))
  IN  IF \A i \in DOMAIN found : IsFile(tree, found[i])
      THEN [i \in DOMAIN found |-> [file_path |-> rel(found[i]), data |-> read_file(tree, found[i]),
                                    addon |-> Len(rel(found[i])) > 1]]
      ELSE Error

Modules(tree) == Sorted({p \in Entries(tree, <<"usr", "lib", "modules">>) : tree[p].dir})

Join(results) ==
  IF Error \in Range(results) THEN Error ELSE FlattenSeq(results)

Entries2(tree) ==
  LET linux == <<"boot", "EFI", "Linux">>
      modules == <<"usr", "lib", "modules">>
  IN  Join(<<InDirectory(tree, linux, <<>>, find_uki_components(tree, linux)),
             InDirectory(tree, modules, <<>>,
               Join([i \in DOMAIN Modules(tree) |-> find_uki_components(tree, Modules(tree)[i])]))>>)

rename(t2, name) == [t2 EXCEPT !.file_path = Append(Parent(@), name \o ".efi")]

(***************************************************************************)
(* Kernels in /usr/lib/modules: [kver, vmlinuz, initramfs], made into an   *)
(* entry of type 1.  To do so without an initramfs is a panic.             *)
(***************************************************************************)
Entries3(tree) ==
  LET kernels == Sorted({p \in Entries(tree, <<"usr", "lib", "modules">>) :
                           tree[p].dir /\ IsFile(tree, Append(p, "vmlinuz"))})
      file(p, name) == IF IsFile(tree, Append(p, name)) THEN read_file(tree, Append(p, name)) ELSE None
  IN  InDirectory(tree, <<"usr", "lib", "modules">>, <<>>,
        [i \in DOMAIN kernels |-> [kver |-> FileName(kernels[i]), vmlinuz |-> file(kernels[i], "vmlinuz"),
                                   initramfs |-> file(kernels[i], "initramfs.img")]])

into_type1(entry, entry_id) ==
  LET id == IF entry_id = None THEN entry.kver ELSE entry_id
      vmlinuz == <<id, "vmlinuz">> initramfs == <<id, "initramfs.img">>
  IN  IF entry.initramfs = None THEN Error
      ELSE [filename |-> id \o ".conf",
            lines |-> <<[key |-> "linux", value |-> vmlinuz], [key |-> "initrd", value |-> initramfs]>>,
            files |-> [f \in {vmlinuz, initramfs} |-> IF f = vmlinuz THEN entry.vmlinuz ELSE entry.initramfs]]

get_boot_resources(tree) ==
  LET typed(n, found) == IF Failed(found) THEN Error ELSE [i \in DOMAIN found |-> [type |-> n, entry |-> found[i]]]
  IN  Join(<<typed(1, Entries1(tree)), typed(2, Entries2(tree)), typed(3, Entries3(tree))>>)

(***************************************************************************)
(* transform_for_boot, but for the labels (SeLabel): what is in /boot and  *)
(* /sysroot is left out of the image, so that a UKI in /boot can hold the  *)
(* digest of the image it is in.                                           *)
(***************************************************************************)
ToEmpty == {<<"boot">>, <<"sysroot">>}

EmptyToplevel(tree) ==
  [q \in {r \in DOMAIN tree : \A p \in ToEmpty : ~Below(p, r)} |->
     IF q \in ToEmpty THEN [tree[q] EXCEPT !.stat.mtime = tree[<<"usr">>].stat.mtime] ELSE tree[q]]

CanTransformForBoot(tree) ==
  /\ ~Failed(get_boot_resources(tree))
  /\ \A p \in ToEmpty \cup {<<"usr">>} : get_directory(tree, p)
===============================================================================
