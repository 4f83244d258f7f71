----------------------------- MODULE ObjectStore ------------------------------
(***************************************************************************)
(* How one object gets into objects/: store_object_with_id and             *)
(* finalize_object_tmpfile of crates/composefs/src/repository.rs, and the  *)
(* loops of crates/composefs/src/fsverity/mod.rs that seal a file with     *)
(* fs-verity.  Tasks (threads, or other processes with the same            *)
(* repository) store at the same time.  A process that forks hands its     *)
(* child every descriptor that is open for writing, and a file cannot be   *)
(* sealed before the child has let go of it.  Operations on the disk may   *)
(* fail for a while or for ever (EIO, ENOSPC).  The power may fail; files  *)
(* that no syncfs has flushed are then whatever the file system makes of   *)
(* them.  (gc runs at other times: Repository!GcRunsAlone.)                *)
(***************************************************************************)
EXTENDS Naturals

CONSTANTS
  Task,         \* the callers
  Object,       \* fs-verity digests of good contents
  Child,        \* children the process may fork, each once
  Absent,       \* "no such entry"
  MaxFailures   \* how often the power fails

ASSUME ObjectStoreConstants ==
  /\ Absent \notin [data : {"good", "short", "wrong"}, sealed : BOOLEAN]
  /\ MaxFailures \in Nat

VARIABLES
  mode,      \* insecure: Repository::insecure; fsverity: the file system supports it
  entry,     \* the files of objects/
  flushed,   \* entries that a syncfs has flushed
  children,  \* "new", "running" or "gone"
  device,    \* operations may fail while it is "failing"; "good" until it first is
  failures,
  pc, obj, how,
  sealed,    \* fs-verity is enabled on the task's own file
  attempt,   \* enable_verity_with_retry's
  writers    \* children with a descriptor of the task's file open for writing

task == <<pc, obj, how, sealed, attempt, writers>>
vars == <<mode, entry, flushed, children, device, failures, task>>

\* Every combination of a repository and a file system.
Modes == [insecure : BOOLEAN, fsverity : BOOLEAN]

\* What a file of objects/ holds: what its name says, less, or something else of
\* the same length; and whether it is sealed.
File == [data : {"good", "short", "wrong"}, sealed : BOOLEAN]

PC == {"idle", "lookup", "measure", "upgrade", "remeasure", "write", "enable", "copy",
       "enable_copy", "stat", "link", "ok", "error"}

TypeOK ==
  /\ mode \in Modes
  /\ entry \in [Object -> File \cup {Absent}]
  /\ flushed \subseteq Object
  /\ children \in [Child -> {"new", "running", "gone"}]
  /\ device \in {"good", "failing", "repaired"}
  /\ failures \in 0..MaxFailures
  /\ pc \in [Task -> PC]
  /\ obj \in [Task -> Object]
  /\ how \in [Task -> {"store", "finalize"}]
  /\ sealed \in [Task -> BOOLEAN]
  /\ attempt \in [Task -> 1..3]
  /\ writers \in [Task -> SUBSET Child]

\* What an earlier use of the repository with insecure has left: complete files
\* without fs-verity.
Inherited == {Absent, [data |-> "good", sealed |-> FALSE]}

Init ==
  /\ mode \in Modes
  /\ entry \in [Object -> Inherited]
  /\ flushed = {o \in Object : entry[o] # Absent}
  /\ children = [c \in Child |-> "new"]
  /\ device = "good"
  /\ failures = 0
  /\ pc = [t \in Task |-> "idle"]
  /\ obj \in [Task -> Object]
  /\ how = [t \in Task |-> "store"]
  /\ sealed = [t \in Task |-> FALSE]
  /\ attempt = [t \in Task |-> 1]
  /\ writers = [t \in Task |-> {}]

-------------------------------------------------------------------------------
Goto(t, l) == pc' = [pc EXCEPT ![t] = l]
world == <<mode, flushed, children, device, failures>>
own   == <<sealed, attempt, writers>>

\* measure_verity of a file and the comparison with the digest that it should have.
Measured(f) ==
  CASE ~mode.fsverity                    -> "not_supported"
    [] mode.fsverity /\ ~f.sealed        -> "missing"
    [] mode.fsverity /\ f.sealed         -> IF f.data = "good" THEN "equal" ELSE "differs"

\* The task has its own file open for writing.
Writing(t) == pc[t] \in {"write", "copy"}

\* enable_verity_with_retry of the task's file, or of a copy of it.
Enabling(t) == pc[t] \in {"enable", "enable_copy"}

-------------------------------------------------------------------------------
(* Deliberate errors, for the properties to find *)

\* Measure that lets a file without fs-verity pass, insecure or not.
MeasureLeniently(t) ==
  /\ pc[t] = "measure"
  /\ Goto(t, IF Measured(entry[obj[t]]) \in {"equal", "missing"} THEN "ok" ELSE "error")
  /\ UNCHANGED <<world, entry, obj, how, own>>

\* EnableBusy that takes a file somebody may write to for one that has no fs-verity.
EnableBusyUnsealed(t) ==
  /\ Enabling(t) /\ mode.fsverity /\ writers[t] # {}
  /\ Goto(t, IF how[t] = "store" THEN "link" ELSE "stat")
  /\ UNCHANGED <<world, entry, obj, how, own>>

\* EnableBusy that gives up after the third attempt.
EnableBusyFails(t) ==
  /\ Enabling(t) /\ mode.fsverity /\ writers[t] # {}
  /\ IF attempt[t] < 3
     THEN attempt' = [attempt EXCEPT ![t] = @ + 1] /\ UNCHANGED pc
     ELSE Goto(t, "error") /\ UNCHANGED attempt
  /\ UNCHANGED <<world, entry, obj, how, sealed, writers>>

\* EnableUnsupported that tries a copy on every error, as if a child were in the way.
CopyWhenUnsupported(t) ==
  /\ Enabling(t) /\ ~mode.fsverity
  /\ Goto(t, IF mode.insecure THEN "copy" ELSE "error")
  /\ UNCHANGED <<world, entry, obj, how, own>>

-------------------------------------------------------------------------------
(* The two ways in *)

Begin(t, o, h, l) ==
  /\ pc[t] = "idle"
  /\ obj' = [obj EXCEPT ![t] = o]
  /\ how' = [how EXCEPT ![t] = h]
  /\ Goto(t, l)
  /\ UNCHANGED <<world, entry, own>>

\* The data is at hand, and with it the digest.
ensure_object(t, o) == Begin(t, o, "store", "lookup")

\* The data is streamed to a file; its digest is known in the end.
create_object_tmpfile(t, o) == Begin(t, o, "finalize", "write")

-------------------------------------------------------------------------------
(* An object that is there already is measured *)

Lookup(t) ==
  /\ pc[t] = "lookup"
  /\ Goto(t, IF entry[obj[t]] = Absent THEN "write" ELSE "measure")
  /\ UNCHANGED <<world, entry, obj, how, own>>

Measure(t) ==
  LET m == Measured(entry[obj[t]])
  IN /\ pc[t] = "measure"
     /\ Goto(t, CASE m = "equal"                            -> "ok"
                  [] m = "missing" /\ mode.insecure         -> "upgrade"
                  [] m = "not_supported" /\ mode.insecure   -> "ok"
                  [] OTHER                                  -> "error")
     /\ UNCHANGED <<world, entry, obj, how, own>>

\* enable_verity_maybe_copy of the entry: an error if another task was faster.
Upgrade(t) ==
  LET o == obj[t]
  IN /\ pc[t] = "upgrade"
     /\ IF entry[o].sealed
        THEN Goto(t, "error") /\ UNCHANGED entry
        ELSE /\ entry' = [entry EXCEPT ![o] = [data |-> @.data, sealed |-> TRUE]]
             /\ Goto(t, "remeasure")
     /\ UNCHANGED <<world, obj, how, own>>

Remeasure(t) ==
  /\ pc[t] = "remeasure"
  /\ Goto(t, IF Measured(entry[obj[t]]) = "equal" THEN "ok" ELSE "error")
  /\ UNCHANGED <<world, entry, obj, how, own>>

-------------------------------------------------------------------------------
(* A new file is written, sealed and linked *)

\* The file is complete, is opened again for reading and closed for writing.  The
\* same goes for a copy of it.
Written(t) ==
  /\ Writing(t)
  /\ Goto(t, IF pc[t] = "write" THEN "enable" ELSE "enable_copy")
  /\ UNCHANGED <<world, entry, obj, how, own>>

Enabled(t) == Goto(t, IF how[t] = "store" THEN "link" ELSE "stat")

Enable(t) ==
  /\ Enabling(t) /\ mode.fsverity /\ writers[t] = {}
  /\ sealed' = [sealed EXCEPT ![t] = TRUE]
  /\ attempt' = [attempt EXCEPT ![t] = 1]
  /\ Enabled(t)
  /\ UNCHANGED <<world, entry, obj, how, writers>>

EnableUnsupported(t) ==
  /\ pc[t] = "enable" /\ ~mode.fsverity
  /\ IF mode.insecure THEN Enabled(t) ELSE Goto(t, "error")
  /\ UNCHANGED <<world, entry, obj, how, own>>

\* ETXTBSY: wait a millisecond, twice, and then go on with a copy of the file, or
\* with another copy of it.
EnableBusy(t) ==
  /\ Enabling(t) /\ mode.fsverity /\ writers[t] # {}
  /\ IF attempt[t] < 3
     THEN attempt' = [attempt EXCEPT ![t] = @ + 1] /\ UNCHANGED <<pc, writers>>
     ELSE /\ Goto(t, "copy")
          /\ writers' = [writers EXCEPT ![t] = {}]
          /\ attempt' = [attempt EXCEPT ![t] = 1]
  /\ UNCHANGED <<world, entry, obj, how, sealed>>

\* Another error of the ioctl.  For the task's own file it is the answer of the call.
\* For a copy it is not looked at, and there is another copy, whatever the error was
\* and as often as it comes; only an error in measuring a sealed copy ends the call.
EnableFails(t) ==
  /\ Enabling(t) /\ device = "failing"
  /\ \E l \in IF pc[t] = "enable" THEN {"error"} ELSE {"copy", "error"} :
       /\ Goto(t, l)
       /\ writers' = [writers EXCEPT ![t] = {}]
  /\ attempt' = [attempt EXCEPT ![t] = 1]
  /\ UNCHANGED <<world, entry, obj, how, sealed>>

\* finalize_object_tmpfile: an entry of the right size is taken for the object.
Stat(t) ==
  /\ pc[t] = "stat"
  /\ Goto(t, IF entry[obj[t]] # Absent /\ entry[obj[t]].data # "short" THEN "ok" ELSE "link")
  /\ UNCHANGED <<world, entry, obj, how, own>>

\* linkat: an entry that is there, EEXIST, is taken for the work of another task.
Link(t) ==
  LET o == obj[t]
  IN /\ pc[t] = "link"
     /\ entry' = IF entry[o] = Absent
                 THEN [entry EXCEPT ![o] = [data |-> "good", sealed |-> sealed[t]]]
                 ELSE entry
     /\ Goto(t, "ok")
     /\ UNCHANGED <<world, obj, how, own>>

\* Another operation fails.  That of statat is taken for "no entry of this size".
IoFails(t) ==
  /\ device = "failing"
  /\ pc[t] \in {"lookup", "measure", "upgrade", "remeasure", "write", "copy", "stat", "link"}
  /\ Goto(t, IF pc[t] = "stat" THEN "link" ELSE "error")
  /\ UNCHANGED <<world, entry, obj, how, own>>

\* The caller has its answer, and the task's descriptors are closed.
Finish(t) ==
  /\ pc[t] \in {"ok", "error"}
  /\ Goto(t, "idle")
  /\ how' = [how EXCEPT ![t] = "store"]
  /\ sealed' = [sealed EXCEPT ![t] = FALSE]
  /\ attempt' = [attempt EXCEPT ![t] = 1]
  /\ writers' = [writers EXCEPT ![t] = {}]
  /\ UNCHANGED <<world, entry, obj>>

-------------------------------------------------------------------------------
(* The surroundings *)

Fork(c) ==
  /\ children[c] = "new"
  /\ children' = [children EXCEPT ![c] = "running"]
  /\ writers' = [t \in Task |-> IF Writing(t) THEN writers[t] \cup {c} ELSE writers[t]]
  /\ UNCHANGED <<mode, entry, flushed, device, failures, pc, obj, how, sealed, attempt>>

\* exec() closes what was opened with O_CLOEXEC.
Exec(c) ==
  /\ children[c] = "running"
  /\ children' = [children EXCEPT ![c] = "gone"]
  /\ writers' = [t \in Task |-> writers[t] \ {c}]
  /\ UNCHANGED <<mode, entry, flushed, device, failures, pc, obj, how, sealed, attempt>>

DeviceFails ==
  /\ device # "failing"
  /\ device' = "failing"
  /\ UNCHANGED <<mode, entry, flushed, children, failures, task>>

DeviceRecovers ==
  /\ device = "failing"
  /\ device' = "repaired"
  /\ UNCHANGED <<mode, entry, flushed, children, failures, task>>

sync ==
  /\ flushed' = {o \in Object : entry[o] # Absent}
  /\ UNCHANGED <<mode, entry, children, device, failures, task>>

\* What a power failure makes of an entry that was not flushed: nothing is certain
\* about the name, the data and the seal, but that a sealed file has its data.
Survivors(f) == {Absent, f} \cup [data : {"good", "short", "wrong"}, sealed : {FALSE}]

PowerFailure ==
  /\ failures < MaxFailures
  /\ failures' = failures + 1
  /\ entry' \in {e \in [Object -> File \cup {Absent}] :
       \A o \in Object : e[o] \in IF o \in flushed \/ entry[o] = Absent
                                  THEN {entry[o]} ELSE Survivors(entry[o])}
  /\ flushed' = {o \in Object : entry'[o] # Absent}
  /\ children' = [c \in Child |-> IF children[c] = "running" THEN "gone" ELSE children[c]]
  /\ pc' = [t \in Task |-> "idle"]
  /\ how' = [t \in Task |-> "store"]
  /\ sealed' = [t \in Task |-> FALSE]
  /\ attempt' = [t \in Task |-> 1]
  /\ writers' = [t \in Task |-> {}]
  /\ UNCHANGED <<mode, device, obj>>

-------------------------------------------------------------------------------
Step(t) ==
  \/ Lookup(t) \/ Measure(t) \/ Upgrade(t) \/ Remeasure(t)
  \/ Written(t) \/ Enable(t) \/ EnableUnsupported(t) \/ EnableBusy(t) \/ EnableFails(t)
  \/ Stat(t) \/ Link(t) \/ IoFails(t)

Next ==
  \/ \E t \in Task, o \in Object : ensure_object(t, o) \/ create_object_tmpfile(t, o)
  \/ \E t \in Task : Step(t) \/ Finish(t)
  \/ \E c \in Child : Fork(c) \/ Exec(c)
  \/ DeviceFails \/ DeviceRecovers
  \/ sync
  \/ PowerFailure

Spec == Init /\ [][Next]_vars

\* Tasks go on, and a child that was forked to run a program gets to run it.  Nothing
\* is said of the device: its errors may last.
FairSpec ==
  /\ Spec
  /\ \A t \in Task : WF_vars(Step(t))
  /\ \A c \in Child : WF_vars(Exec(c))

-------------------------------------------------------------------------------
(* Properties *)

Good(f) == f # Absent /\ f.data = "good"

\* ensure_object has measured what it says is stored: without insecure its answer
\* holds whatever other tasks do at the same time and however often the power has
\* failed before.
StoreKeepsWord ==
  /\ TypeOK
  /\ \A t \in Task :
       pc[t] = "ok" /\ how[t] = "store" /\ ~mode.insecure =>
         Good(entry[obj[t]]) /\ entry[obj[t]].sealed

\* A file that appears in objects/ is complete, and sealed wherever that can be,
\* however many tasks store it, children hold it open and copies were made of it.
AppearsComplete ==
  [][\A o \in Object :
       entry[o] = Absent /\ entry'[o] # Absent =>
         Good(entry'[o]) /\ entry'[o].sealed = mode.fsverity]_vars

\* Tasks that store the same object at the same time, and children that keep its
\* file open, make no task fail (the EEXIST of linkat, the copy after ETXTBSY), if
\* no operation on the disk has failed and no use with insecure and no power failure
\* has left a file without fs-verity.
NoFalseErrors ==
  /\ ~mode.insecure /\ mode.fsverity /\ failures = 0 /\ device = "good"
  /\ \A o \in Object : entry[o] # Absent => entry[o].sealed
  => \A t \in Task : pc[t] # "error"

\* Every call ends if the errors of the disk do: the copies come to an end when the
\* forking does.  While an error lasts that keeps a copy from being sealed (no space
\* for the Merkle tree, say) enable_verity_on_copy makes one copy after another and
\* tells nobody: of such a behaviour nothing is promised here.
StoreEnds ==
  <>[](device # "failing") => \A t \in Task : pc[t] # "idle" ~> pc[t] \in {"idle", "ok", "error"}

===============================================================================
