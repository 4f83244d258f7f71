--------------------------------- MODULE Deploy ---------------------------------
(***************************************************************************)
(* From a container to a running system: "cfsctl oci prepare-boot"         *)
(* (crates/cfsctl/src/main.rs, composefs-boot/src/write_boot.rs), which    *)
(* commits the image, writes a boot entry for it and makes the directories *)
(* of its state, and setup-root (composefs-setup-root/src/main.rs), which  *)
(* an entry starts with the image on the command line.                     *)
(*                                                                         *)
(* The processes prepare one container each and may be killed at any time. *)
(* A file of the boot partition is opened, which empties it, and filled.   *)
(***************************************************************************)
EXTENDS SeLabel

CONSTANTS
  Process,
  Containers,   \* the trees that create_filesystem gives, by config
  Digest,       \* the identifier of an image, by its tree
  Jobs,         \* [config, entry_id, insecure, cmdline]
  SetupConfs,   \* what setup-root-conf.toml may say for "etc" and "var": [mount, transient]
  Partial       \* what is in a file that is being written, or was by two at once

VARIABLES
  conf,      \* setup-root-conf.toml
  fsverity,  \* whether the file system of the repository has fs-verity
  jobs,      \* of each process
  pc,        \* of each process
  id,        \* the identifier of the image it has committed
  plan,      \* what it writes: [files, path, data]
  todo,      \* what of the files it has still to write; the entry comes last
  writing,   \* the path it has open
  repo,      \* the images of the repository
  bootdir,   \* the files of the boot partition
  state,     \* state/deploy: for an image [dirs, etc], with what was changed in /etc
  system     \* what is running

vars == <<conf, fsverity, jobs, pc, id, plan, todo, writing, repo, bootdir, state, system>>

Down == [up |-> FALSE]
Nothing == <<>>

(***************************************************************************)
(* Writing an entry: the files that it needs and the entry itself, or      *)
(* Error.  An entry of type 1 has the digest put on its command line, a    *)
(* UKI must have it.  An addon's directory is not made.                    *)
(***************************************************************************)
write_t1_simple(t1, root_id, job) ==
  [files |-> t1.files,
   path  |-> <<"loader", "entries", t1.filename>>,
   data  |-> adjust_cmdline(t1.lines, root_id, job.insecure, job.cmdline)]

FileOf(t2) == [files |-> Nothing, path |-> <<"EFI", "Linux">> \o t2.file_path, data |-> t2.data]

write_t2_simple(t2, root_id) ==
  LET address == IF t2.data = None THEN Error ELSE get_cmdline_composefs(t2.data)
  IN  IF Failed(address) \/ Len(t2.file_path) > 1 THEN Error
      ELSE IF address.id # root_id THEN Error
      ELSE FileOf(t2)

Relocated(t1, job) == IF job.entry_id = None THEN t1 ELSE relocate(t1, job.entry_id)
Renamed(t2, job)   == IF job.entry_id = None THEN t2 ELSE rename(t2, job.entry_id)

write_boot_simple(found, root_id, job) ==
  CASE found.type = 1 -> write_t1_simple(Relocated(found.entry, job), root_id, job)
    [] found.type = 2 ->
         IF job.cmdline # <<>> THEN Error ELSE write_t2_simple(Renamed(found.entry, job), root_id)
    [] found.type = 3 ->
         LET t1 == into_type1(found.entry, job.entry_id)
         IN  IF Failed(t1) THEN Error ELSE write_t1_simple(Relocated(t1, job), root_id, job)

Rendered  == [c \in DOMAIN Containers |-> transform_for_boot(Containers[c])]
Resources == [c \in DOMAIN Containers |-> get_boot_resources(Containers[c])]

IsLoaderEntry(path) == Len(path) = 3 /\ path[1] = "loader"

ASSUME DeployConstants ==
  /\ IsFiniteSet(Process)
  /\ \A job \in Jobs :
       /\ job.config \in DOMAIN Containers /\ job.insecure \in BOOLEAN
       /\ job.cmdline \in Seq(Range(job.cmdline))
       /\ \A arg \in Range(job.cmdline) : arg \in Seq(Range(arg))
  /\ Partial # None
  /\ \A setup \in SetupConfs, subdir \in {"etc", "var"} :
       setup[subdir].mount \in {None, "none", "bind", "overlay", "transient"}
  /\ \A c \in DOMAIN Containers :
       /\ IsFiniteSet(DOMAIN Containers[c])
       /\ \A p \in DOMAIN Containers[c] :
            /\ IsNode(Containers[c][p])
            /\ IsFile(Containers[c], p) => read_file(Containers[c], p) # Partial

\* Every image has an identifier, which is a word of an argument, and none that fails.
ASSUME DigestsAreDigests ==
  /\ \A c \in DOMAIN Containers : ~Failed(Rendered[c]) => Rendered[c] \in DOMAIN Digest
  /\ \A root_id \in Range(Digest) :
       /\ root_id # None /\ root_id # "?"
       /\ \A insecure \in BOOLEAN :
            /\ [id |-> root_id, insecure |-> insecure] # Error
            /\ [up |-> TRUE, root |-> root_id, insecure |-> insecure, etc |-> {}] # Error

\* Of what is found to boot from: a loader entry's data are lines, none of which leads
\* to a loader entry, with arguments in sequence, and the path of a UKI is a sequence of
\* names.
ASSUME EntriesAreEntries ==
  \A c \in DOMAIN Containers : ~Failed(Resources[c]) =>
    \A i \in DOMAIN Resources[c] :
      LET found == Resources[c][i]
      IN  /\ found.type = 1 =>
               /\ IsLines(found.entry.lines)
               /\ \A f \in PathsIn(found.entry.lines) : ~IsLoaderEntry(f)
               /\ HasArgs(found.entry.lines)
          /\ found.type = 2 =>
               /\ found.entry.file_path \in Seq(Range(found.entry.file_path))
               /\ \A job \in Jobs : FileOf(Renamed(found.entry, job)) # Error

\* The first entry is taken, whatever its type.
Plan(found, root_id, job) ==
  IF Failed(found) THEN Error
  ELSE IF found = <<>> THEN Error ELSE write_boot_simple(found[1], root_id, job)

-------------------------------------------------------------------------------
Init ==
  /\ conf \in SetupConfs /\ fsverity \in BOOLEAN
  /\ jobs \in [Process -> Jobs]
  /\ pc = [p \in Process |-> "start"]
  /\ id = [p \in Process |-> None]
  /\ plan = [p \in Process |-> Error]
  /\ todo = [p \in Process |-> {}]
  /\ writing = [p \in Process |-> None]
  /\ repo = {} /\ bootdir = Nothing /\ state = Nothing
  /\ system = Down

\* Without fs-verity an image can be neither stored nor mounted unless that is allowed.
\* With it, every image is sealed.
Allowed(insecure) == fsverity \/ insecure

(***************************************************************************)
(* PrepareBoot up to the first write: the image is committed before it is  *)
(* clear that there is an entry for it.                                    *)
(***************************************************************************)
PrepareBoot(p) ==
  /\ pc[p] = "start"
  /\ LET job == jobs[p] image == Rendered[job.config]
     IN  /\ id' = [id EXCEPT ![p] = IF Failed(image) \/ ~Allowed(job.insecure) THEN None ELSE Digest[image]]
         /\ plan' = [plan EXCEPT ![p] = IF id'[p] = None THEN Error ELSE Plan(Resources[job.config], id'[p], job)]
  /\ repo' = repo \cup ({id'[p]} \ {None})
  /\ pc' = [pc EXCEPT ![p] = IF Failed(plan'[p]) THEN "failed" ELSE "write"]
  /\ todo' = [todo EXCEPT ![p] = IF Failed(plan'[p]) THEN {} ELSE DOMAIN plan'[p].files]
  /\ UNCHANGED <<conf, fsverity, jobs, writing, bootdir, state, system>>

Put(path, data) == [f \in DOMAIN bootdir \cup {path} |-> IF f = path THEN data ELSE bootdir[f]]

\* The files come from a HashMap, in any order, and the entry after them.
OpenFile(p) ==
  /\ pc[p] = "write" /\ writing[p] = None
  /\ \E path \in IF todo[p] = {} THEN {plan[p].path} ELSE todo[p] :
       /\ writing' = [writing EXCEPT ![p] = path]
       /\ bootdir' = Put(path, Partial)
  /\ UNCHANGED <<conf, fsverity, jobs, pc, id, plan, todo, repo, state, system>>

FillFile(p) ==
  /\ pc[p] = "write" /\ writing[p] # None
  /\ LET path   == writing[p]
         entry  == path = plan[p].path
         shared == bootdir[path] # Partial \/ \E q \in Process \ {p} : writing[q] = path
     IN  /\ \E data \in {IF entry THEN plan[p].data ELSE plan[p].files[path]} \cup
                        IF shared THEN {Partial} ELSE {} : bootdir' = Put(path, data)
         /\ todo' = [todo EXCEPT ![p] = @ \ {path}]
         /\ pc' = [pc EXCEPT ![p] = IF entry THEN "var" ELSE @]
  /\ writing' = [writing EXCEPT ![p] = None]
  /\ UNCHANGED <<conf, fsverity, jobs, id, plan, repo, state, system>>

(***************************************************************************)
(* The state of the image: var, etc/upper, etc/work.  create_dir_all keeps *)
(* what is there from an earlier deployment of the same image.             *)
(***************************************************************************)
StateOf(image) == IF image \in DOMAIN state THEN state[image] ELSE [dirs |-> {}, etc |-> {}]

PutState(image, st) == [i \in DOMAIN state \cup {image} |-> IF i = image THEN st ELSE state[i]]

NextDir == [var |-> "upper", upper |-> "work", work |-> "done"]

\* Deliberate error: each deployment starts with an /etc of its own.
MakeStateAnew(p) ==
  /\ pc[p] \in DOMAIN NextDir
  /\ state' = PutState(id[p], [dirs |-> StateOf(id[p]).dirs \cup {pc[p]}, etc |-> {}])
  /\ pc' = [pc EXCEPT ![p] = NextDir[@]]
  /\ UNCHANGED <<conf, fsverity, jobs, id, plan, todo, writing, repo, bootdir, system>>

MakeState(p) ==
  /\ pc[p] \in DOMAIN NextDir
  /\ state' = PutState(id[p], [StateOf(id[p]) EXCEPT !.dirs = @ \cup {pc[p]}])
  /\ pc' = [pc EXCEPT ![p] = NextDir[@]]
  /\ UNCHANGED <<conf, fsverity, jobs, id, plan, todo, writing, repo, bootdir, system>>

Kill(p) ==
  /\ pc[p] \notin {"start", "done", "failed", "killed"}
  /\ pc' = [pc EXCEPT ![p] = "killed"]
  /\ writing' = [writing EXCEPT ![p] = None]
  /\ UNCHANGED <<conf, fsverity, jobs, id, plan, todo, repo, bootdir, state, system>>

-------------------------------------------------------------------------------
(***************************************************************************)
(* setup-root: what becomes of a boot with these arguments, or Error.      *)
(***************************************************************************)
MountType(subdir) ==
  CASE conf[subdir].mount # None -> conf[subdir].mount
    [] conf[subdir].mount = None /\ conf[subdir].transient -> "transient"
    [] OTHER -> IF subdir = "etc" THEN "overlay" ELSE "bind"

StateDirs(image) == {IF d = "var" THEN "var" ELSE "etc" : d \in StateOf(image).dirs}

\* The images that have a directory with the name.
WithDir(subdir) == {Digest[t] : t \in {u \in DOMAIN Digest : get_directory(u, <<subdir>>)}}
HaveDir == [etc |-> WithDir("etc"), var |-> WithDir("var")]

mount_subdir(image, subdir) ==
  CASE MountType(subdir) = "none" -> TRUE
    [] MountType(subdir) = "transient" -> image \in HaveDir[subdir]
    [] OTHER -> image \in HaveDir[subdir] /\ subdir \in StateDirs(image)

setup_root(args) ==
  LET address == get_cmdline_composefs(args)
  IN  IF Failed(address) THEN Error
      ELSE IF /\ address.id \in repo /\ Allowed(address.insecure)
              /\ address.id \in DOMAIN state
              /\ mount_subdir(address.id, "etc")
              /\ mount_subdir(address.id, "var")
           THEN [up |-> TRUE, root |-> address.id, insecure |-> address.insecure, etc |-> {}]
           ELSE Error

IsEntry(path) == IsLoaderEntry(path) \/ (Len(path) = 3 /\ path[1] = "EFI")

\* What the boot loader passes to the kernel.
ArgsOf(path) == IF IsLoaderEntry(path) THEN Cmdline(bootdir[path]) ELSE bootdir[path]

\* An overlay makes the directories it needs and that are not there.
Boot ==
  /\ ~system.up
  /\ \E path \in {f \in DOMAIN bootdir : IsEntry(f) /\ bootdir[f] # Partial} :
       LET booted == setup_root(ArgsOf(path))
       IN  /\ ~Failed(booted)
           /\ system' = booted
           /\ state' = IF MountType("etc") # "overlay" THEN state
                       ELSE PutState(booted.root, [StateOf(booted.root) EXCEPT !.dirs = @ \cup {"upper", "work"}])
  /\ UNCHANGED <<conf, fsverity, jobs, pc, id, plan, todo, writing, repo, bootdir>>

\* The running system changes something in its /etc.
ChangeEtc ==
  /\ system.up
  /\ CASE MountType("etc") \in {"overlay", "bind"} ->
            /\ state' = [state EXCEPT ![system.root].etc = @ \cup {system.root}]
            /\ UNCHANGED system
       [] MountType("etc") = "transient" ->
            /\ system' = [system EXCEPT !.etc = @ \cup {system.root}]
            /\ UNCHANGED state
       [] MountType("etc") = "none" -> UNCHANGED <<state, system>>
  /\ UNCHANGED <<conf, fsverity, jobs, pc, id, plan, todo, writing, repo, bootdir>>

Shutdown ==
  /\ system.up
  /\ system' = Down
  /\ UNCHANGED <<conf, fsverity, jobs, pc, id, plan, todo, writing, repo, bootdir, state>>

Next ==
  \/ \E p \in Process : PrepareBoot(p) \/ OpenFile(p) \/ FillFile(p) \/ MakeState(p) \/ Kill(p)
  \/ Boot \/ ChangeEtc \/ Shutdown

Spec == Init /\ [][Next]_vars
===============================================================================
