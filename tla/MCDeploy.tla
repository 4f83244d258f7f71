-------------------------------- MODULE MCDeploy --------------------------------
(***************************************************************************)
(* Containers with an entry of type 1, with kernels of the same version,   *)
(* with a sealed UKI, one that does without fs-verity, one that is for     *)
(* another image, an addon, and without an initramfs; with and without a   *)
(* policy.                                                                 *)
(***************************************************************************)
EXTENDS DeploySafety

Stat(label) == [mode |-> "m", mtime |-> 1,
                xattrs |-> IF label = "" THEN <<>> ELSE [k \in {Selinux} |-> label]]
D(label)    == Dir(Stat(label))
F(rc, data) == LeafOf(rc, Stat("host"), [type |-> "inline", data |-> data])

Base == (<<>> :> D("")) @@ [p \in {<<"boot">>, <<"etc">>, <<"sysroot">>, <<"usr">>, <<"var">>} |-> D("host")]

Under(p, names) == [q \in {Append(p, n) : n \in names} |-> D("")]

(***************************************************************************)
(* A policy: the rules and aliases are in several files.                   *)
(***************************************************************************)
Rule(paths, ifmt, context) == [paths |-> paths, ifmt |-> ifmt, context |-> context]
Sel(rest) == <<"etc", "selinux">> \o rest
FilesDir(rest) == Sel(<<"targeted", "contexts", "files">> \o rest)

Policy ==
  LET usr == {<<"usr">>, <<"usr", "lib">>, <<"usr", "a">>, <<"usr", "lib", "modules">>}
  IN  [p \in {Sel(<<>>), Sel(<<"targeted">>), Sel(<<"targeted", "contexts">>), FilesDir(<<>>)} |-> D("host")]
      @@ (Sel(<<"config">>) :> F(20, "targeted"))
      @@ (FilesDir(<<"file_contexts">>) :>
            F(21, <<Rule(usr \cup {<<"etc">>}, "any", "usr_t"), Rule({<<"usr", "a">>}, "-", "exec_t"),
                    Rule({<<"usr", "lib">>}, "-", "lib_t"), Rule({<<"etc">>}, "d", "<<none>>")>>))
      @@ (FilesDir(<<"file_contexts.local">>) :> F(22, <<Rule({<<"usr">>, <<"usr", "b">>}, "any", "local_t")>>))
      @@ (FilesDir(<<"file_contexts.subs_dist">>) :> F(23, <<[alias |-> <<"var">>, path |-> <<"usr">>], [alias |-> <<"usr", "b">>, path |-> <<"etc">>]>>))
      @@ ((<<"usr", "a">>) :> F(24, "x")) @@ ((<<"usr", "b">>) :> F(24, "x"))
      @@ ((<<"var", "a">>) :> F(25, "y")) @@ ((<<"var", "b">>) :> F(26, "y"))

Kernel(kver, n) ==
  Under(<<>>, {}) @@ [p \in {<<"usr", "lib">>, <<"usr", "lib", "modules">>, <<"usr", "lib", "modules", kver>>} |-> D("")]
  @@ ((<<"usr", "lib", "modules", kver, "vmlinuz">>) :> F(1, "kernel" \o n))

Initramfs(kver, n) == (<<"usr", "lib", "modules", kver, "initramfs.img">>) :> F(2, "initrd" \o n)

Arg(name, value) == <<name, "=", value>>

Type1 ==
  Under(<<"boot">>, {"k", "loader"}) @@ Under(<<"boot", "loader">>, {"entries"})
  @@ ((<<"boot", "k", "vmlinuz">>) :> F(3, "kernel1")) @@ ((<<"boot", "k", "i1">>) :> F(4, "initrd1"))
  @@ ((<<"boot", "k", "i2">>) :> F(5, "initrd2"))
  @@ ((<<"boot", "loader", "entries", "a.conf">>) :>
        F(6, <<[key |-> "linux",   value |-> <<"boot", "k", "vmlinuz">>],
               [key |-> "initrd",  value |-> <<"boot", "k", "i1">>],
               [key |-> "initrd",  value |-> <<"boot", "k", "i2">>],
               [key |-> "options", args |-> <<Arg("root", "x"), Arg("composefs", "old")>>]>>))

EfiDirs == Under(<<"boot">>, {"EFI"}) @@ Under(<<"boot", "EFI">>, {"Linux"})
Uki(args) == EfiDirs @@ ((<<"boot", "EFI", "Linux", "u.efi">>) :> F(7, args))
Addon(args) == EfiDirs @@ Under(<<"boot", "EFI", "Linux">>, {"g.efi.extra.d"})
               @@ ((<<"boot", "EFI", "Linux", "g.efi.extra.d", "a.addon.efi">>) :> F(8, args))

\* The images, and their identifiers.
Plain == [type1 |-> Base @@ Policy, vmlinuz |-> Base @@ Kernel("v1", "2") @@ Initramfs("v1", "2"),
          again |-> Base @@ Policy @@ Kernel("v1", "3") @@ Initramfs("v1", "3"),
          uki |-> Base @@ ((<<"usr", "a">>) :> F(24, "x")),
          panic |-> Base @@ Kernel("v1", "4"), none |-> Base]

MCDigest ==
  LET image(c) == transform_for_boot(Plain[c])
  IN  [t \in {image(c) : c \in DOMAIN Plain} |-> CHOOSE c \in DOMAIN Plain : image(c) = t]

MCContainers ==
  [type1 |-> Plain.type1 @@ Type1, vmlinuz |-> Plain.vmlinuz, again |-> Plain.again,
   sealed |-> Plain.uki @@ Uki(<<<<"quiet">>, Arg("composefs", "uki")>>),
   optional |-> Plain.uki @@ Uki(<<<<"composefs", "=", "?", "uki">>>>),
   wrong |-> Plain.uki @@ Uki(<<Arg("composefs", "none")>>),
   addon |-> Plain.uki @@ Uki(<<Arg("composefs", "uki")>>) @@ Addon(None),
   panic |-> Plain.panic, none |-> Plain.none]

Job(config, entry_id, insecure, cmdline) ==
  [config |-> config, entry_id |-> entry_id, insecure |-> insecure, cmdline |-> cmdline]

MCJobs ==
  {Job("type1", name, TRUE, <<<<"rw">>, Arg("root", "y")>>) : name \in {None, "new"}}
  \cup {Job(c, None, FALSE, <<>>) : c \in DOMAIN MCContainers \ {"type1", "none"}}
  \cup {Job("again", "new", TRUE, <<<<"rw">>>>), Job("sealed", "new", FALSE, <<>>),
        Job("sealed", None, FALSE, <<<<"rw">>>>), Job("none", None, TRUE, <<>>),
        Job("sealed", None, TRUE, <<>>), Job("optional", None, TRUE, <<>>)}

SetupConf(etc, etc_transient, var) ==
  [etc |-> [mount |-> etc, transient |-> etc_transient], var |-> [mount |-> var, transient |-> FALSE]]

MCSetupConfs == {SetupConf(None, FALSE, None), SetupConf(None, TRUE, "transient"), SetupConf("bind", TRUE, "none"), SetupConf("none", FALSE, "bind")}

MCConf == {"a.conf"}
MCEfi == {"u.efi", "a.addon.efi"}

MCNameOrder ==
  <<"EFI", "Linux", "a", "a.addon.efi", "a.conf", "b", "boot", "config", "contexts", "entries", "etc",
    "file_contexts", "file_contexts.local", "file_contexts.subs_dist", "files", "g.efi.extra.d",
    "i1", "i2", "initramfs.img", "k", "lib", "loader", "modules", "selinux", "sysroot", "targeted",
    "u.efi", "usr", "v1", "var", "vmlinuz">>
===============================================================================
