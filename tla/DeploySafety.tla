------------------------------ MODULE DeploySafety ------------------------------
(***************************************************************************)
(* What preparing a container for boot promises.                           *)
(***************************************************************************)
EXTENDS Deploy

TypeOK ==
  /\ pc \in [Process -> {"start", "write", "var", "upper", "work", "done", "failed", "killed"}]
  /\ repo = Range(id) \ {None} /\ DOMAIN state \subseteq repo
  /\ \A p \in Process : writing[p] # None => pc[p] = "write" /\ writing[p] \in DOMAIN bootdir
  /\ system.up => system.root \in DOMAIN state

PathsOf(p) == IF Failed(plan[p]) THEN {} ELSE DOMAIN plan[p].files \cup {plan[p].path}

\* The processes that write a file or an entry at this path, or have.
Writers(path) == {p \in Process : path \in PathsOf(p)}

(***************************************************************************)
(* "Write the content before we write the loader entry" (write_boot.rs):   *)
(* an entry that can be chosen names files that are there, in whatever     *)
(* order they were written, relocated or not, and whoever was killed.      *)
(* They are complete, too, unless another deployment writes at the same    *)
(* path, as one of the same entry_id or kernel version does.               *)
(***************************************************************************)
EntriesLead ==
  /\ TypeOK
  /\ \A e \in DOMAIN bootdir :
       IsLoaderEntry(e) /\ bootdir[e] # Partial =>
         \A f \in PathsIn(bootdir[e]) :
           /\ f \in DOMAIN bootdir
           /\ bootdir[f] = Partial => Cardinality(Writers(f)) > 1

\* Somebody else has begun to write at the same paths.
Disturbed(p) == \E q \in Process \ {p} : PathsOf(p) \cap PathsOf(q) # {}

\* What the lines of an entry lead to.
Named(lines, file) ==
  [i \in LinesWith(lines, FileKeys) |-> <<lines[i].key, file[lines[i].value]>>]

\* The kernel and initrds that the container's first entry is about.
Wanted(found) ==
  CASE found.type = 1 -> Named(found.entry.lines, found.entry.files)
    [] found.type = 3 -> <<<<"linux", found.entry.vmlinuz>>, <<"initrd", found.entry.initramfs>>>>

\* A UKI that was built for the image as it is without the UKI.
Sealed(tree, found) ==
  LET args == found[1].entry.data
      address == get_cmdline_composefs(args)
      image == selabel(EmptyToplevel(clear(tree, <<"boot">>)))
  IN  /\ CanTransformForBoot(tree) /\ ~Failed(image)
      /\ found # <<>> /\ found[1].type = 2
      /\ ~found[1].entry.addon /\ args # None
      /\ ~Failed(address) /\ address.id = Digest[image]

SealedConfigs == {c \in DOMAIN Containers : Sealed(Containers[c], Resources[c])}

\* No argument that is asked for takes the place of the image's or of another one.
OwnPlaces(args, composefs) ==
  \A j \in DOMAIN args :
    /\ ~IsPrefix(KeyOf(args[j]), composefs)
    /\ \A i \in 1 .. j - 1 : IsPrefix(KeyOf(args[j]), args[i]) => args[i] = args[j]

\* No two files of an entry that is given another name are told apart by their directory.
Apart(found, entry_id) ==
  found.type = 1 /\ entry_id # None =>
    \A f, g \in DOMAIN found.entry.files :
      FileName(f) = FileName(g) => found.entry.files[f] = found.entry.files[g]

\* setup-root has something to mount over.
HasMountpoints(tree) ==
  \A subdir \in {"etc", "var"} : MountType(subdir) # "none" => get_directory(tree, <<subdir>>)

(***************************************************************************)
(* Who has prepared a container can boot it, as long as nobody has written *)
(* over the files: setup_root gets the image's own digest from the command *)
(* line, whatever was on it before (adjust_cmdline, get_cmdline_composefs),*)
(* with the arguments and the "?" that were asked for, finds the image and *)
(* its state, and the kernel and the initrds are the container's.  A UKI   *)
(* keeps the arguments it was built with: where there is no fs-verity, it  *)
(* boots only if they have the "?", whatever was asked for.  And it can be *)
(* prepared if it is sealed: transform_for_boot leaves nothing of the UKI  *)
(* in the image that the UKI names.  Not so if an argument that is asked   *)
(* for is put in the place of the image's or of another, if files that are *)
(* relocated have the same name, or without a directory to mount over.     *)
(***************************************************************************)
MayBoot(path, args) == IsLoaderEntry(path) \/ Allowed(get_cmdline_composefs(args).insecure)

DeploymentBoots ==
  \A p \in Process :
    LET job == jobs[p] path == plan[p].path found == Resources[job.config][1]
    IN  /\ /\ pc[p] = "done" /\ ~Disturbed(p)
           /\ HasMountpoints(Containers[job.config])
           /\ OwnPlaces(job.cmdline, make_cmdline_composefs(id[p], job.insecure))
           => LET args == ArgsOf(path) booted == setup_root(args)
              IN  /\ MayBoot(path, args) => ~Failed(booted) /\ booted.root = id[p]
                  /\ IsLoaderEntry(path) =>
                       /\ booted.insecure = job.insecure
                       /\ Range(job.cmdline) \subseteq Range(args)
                       /\ Apart(found, job.entry_id) => Named(bootdir[path], bootdir) = Wanted(found)
        /\ pc[p] = "failed" => ~(job.config \in SealedConfigs /\ job.cmdline = <<>> /\ Allowed(job.insecure))

(***************************************************************************)
(* The image that is committed (transform_for_boot, selabel.rs) is the     *)
(* container without what was in /boot and /sysroot, with the labels of    *)
(* its own policy and nothing else changed.  No label of the build host is *)
(* left.  The last rule that matches a file counts, of the last file that  *)
(* has one; below an alias the path is the original's; and a file with     *)
(* several names has the label of one of them.                             *)
(***************************************************************************)
PolicyName(tree) == openat(tree, <<"etc", "selinux", "config">>)

PolicyFile(tree, name) == openat(tree, <<"etc", "selinux", PolicyName(tree), "contexts", "files", name>>)

Aliases(tree) ==
  UNION {IF PolicyFile(tree, n) = None THEN {} ELSE Range(PolicyFile(tree, n)) : n \in Range(SubsFiles)}

\* A path [is, done] with an alias in it that goes beyond what has been replaced already
\* ("done" names), and the original in the place of the alias.
Replaced(subs, k) ==
  {[is |-> s.path \o SubSeq(k.is, Len(s.alias) + 1, Len(k.is)), done |-> Len(s.path)] :
     s \in {t \in subs : In(t.alias, k.is) /\ Len(t.alias) > k.done}}

\* The paths by which the policy may know it: what is left when no alias can be replaced.
KnownAs(tree, p) ==
  LET subs == Aliases(tree)
      known[n \in 0 .. Len(p)] ==
        IF n = 0 THEN {[is |-> p, done |-> 0]}
        ELSE known[n - 1] \cup UNION {Replaced(subs, k) : k \in known[n - 1]}
  IN  {k.is : k \in {j \in known[Len(p)] : Replaced(subs, j) = {}}}

Matches(rule, path, node) == path \in rule.paths /\ rule.ifmt \in {"any", Ifmt(node)}

LabelFor(tree, path, node) ==
  LET with == {n \in DOMAIN SpecFiles : PolicyFile(tree, SpecFiles[n]) # None
                 /\ \E i \in DOMAIN PolicyFile(tree, SpecFiles[n]) : Matches(PolicyFile(tree, SpecFiles[n])[i], path, node)}
      rules == PolicyFile(tree, SpecFiles[Max(with)])
  IN  IF with = {} THEN "<<none>>"
      ELSE rules[Max({i \in DOMAIN rules : Matches(rules[i], path, node)})].context

LabelOf(node) == IF Selinux \in DOMAIN node.stat.xattrs THEN node.stat.xattrs[Selinux] ELSE "<<none>>"

Unlabelled(tree) == strip_selinux_labels(tree)

RenderedTrue(tree, image) ==
  LET emptied == {p \in DOMAIN tree : Below(<<"boot">>, p) \/ Below(<<"sysroot">>, p)}
  IN  /\ DOMAIN image = DOMAIN tree \ emptied
      /\ \A p \in DOMAIN image :
           /\ p \notin ToEmpty => Unlabelled(image)[p] = Unlabelled(tree)[p]
           /\ p \in ToEmpty => image[p].stat.mtime = tree[<<"usr">>].stat.mtime
           /\ LabelOf(image[p]) \in
                IF PolicyName(tree) = None THEN {"<<none>>"}
                ELSE UNION {{LabelFor(tree, k, tree[q]) : k \in KnownAs(tree, q)} :
                              q \in {r \in DOMAIN image : r = p \/ SameLeaf(image, p, r)}}

\* The files of a policy are sequences, those of aliases with two paths in a line; a
\* container's paths are sequences of names, its directories hold what is below them, and
\* the links of a leaf are one leaf.
ASSUME ContainersAreTrees ==
  /\ NameOrder \in Seq(Range(NameOrder))
  /\ \A c \in DOMAIN Containers :
       LET tree == Containers[c]
           data(n) == PolicyFile(tree, n)
       IN  /\ \A p \in DOMAIN tree :
                /\ p \in Seq(Range(NameOrder)) /\ tree[p].dir \in BOOLEAN
                /\ {"mtime", "xattrs"} \subseteq DOMAIN tree[p].stat
                /\ p # <<>> => Parent(p) \in DOMAIN tree /\ tree[Parent(p)].dir
                /\ \A q \in DOMAIN tree : SameLeaf(tree, p, q) => tree[p] = tree[q]
           /\ \A n \in Range(SpecFiles) \cup Range(SubsFiles) : data(n) \notin {None, Error} =>
                /\ data(n) \in Seq(Range(data(n)))
                /\ n \in Range(SubsFiles) => \A s \in Range(data(n)) :
                     {s.alias, s.path} \subseteq Seq(Range(s.alias) \cup Range(s.path))

TrueImages ==
  LET rendered == Rendered
  IN  {c \in DOMAIN rendered : Failed(rendered[c]) \/ RenderedTrue(Containers[c], rendered[c])}

ImagesAreContainers == \A p \in Process : id[p] # None => jobs[p].config \in TrueImages

(***************************************************************************)
(* What was changed in /etc of an image's deployment belongs to it and is  *)
(* still there when it is deployed again, also if that is given up, or     *)
(* when others are deployed or booted: no step takes it away.              *)
(***************************************************************************)
StateKept ==
  [][\A image \in DOMAIN state :
       /\ image \in DOMAIN state'
       /\ state[image].dirs \subseteq state'[image].dirs
       /\ state[image].etc \subseteq state'[image].etc /\ state'[image].etc \subseteq {image}]_vars
===============================================================================
