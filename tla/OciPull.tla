-------------------------------- MODULE OciPull --------------------------------
(***************************************************************************)
(* Pulling container images into a repository                              *)
(* (crates/composefs-oci/src/skopeo.rs, lib.rs).                           *)
(*                                                                         *)
(* A pull fetches the config of an image, gets all of its layers with one  *)
(* task each, and writes the config as a stream that refers to the streams *)
(* of the layers.  Several processes may pull at once; they meet in the    *)
(* repository, which is here what its own module shows it to be: streams   *)
(* that are registered under a content identifier when all they need has   *)
(* been stored and synced.                                                 *)
(*                                                                         *)
(* An object is a record.  A layer's says of which content it was made,    *)
(* and whether this was the content of the layer; a config's holds the     *)
(* streams it refers to, in the order in which they were added.            *)
(***************************************************************************)
EXTENDS Naturals, Sequences, FiniteSets, SequencesExt

CONSTANTS
  Process,       \* processes that pull
  Images,        \* what can be pulled: the config's digest (a sequence) and its diff_ids, the
                 \* sizes of the layers in the manifest, and the reference to add
  Threads,       \* available_parallelism()
  MaxFaults      \* bound: failures of the proxy, and kills, in one behaviour

ASSUME OciConstants ==
  /\ \A i \in Images :
       /\ i.diff_ids \in Seq(ToSet(i.diff_ids))
       /\ i.sizes \in Seq(Nat)
  /\ Threads \in Nat \ {0}
  /\ MaxFaults \in Nat

\* The digest of a config with one more label.
Sealed(config) == Append(config, "sealed")

\* A config lists the layers, and a label adds none: who has a config's digest, as
\* it was or sealed, has its layers.
ASSUME DigestsTell ==
  \A i, j \in Images :
    {i.config, Sealed(i.config)} \cap {j.config, Sealed(j.config)} # {} => i.diff_ids = j.diff_ids

VARIABLES
  image,      \* per process: what it pulls
  stream,     \* content identifier -> object, of the registered streams
  name,       \* reference -> the content identifier it is a link to
  pull,       \* per process: where it is
  task,       \* per process: its layer tasks, by index
  faults

vars == <<image, stream, name, pull, task, faults>>

layer_identifier(diff_id) == <<"oci-layer", diff_id>>
config_identifier(config) == <<"oci-config", config>>

LayerObject(diff_id, good) == [layer |-> diff_id, good |-> good]
ConfigObject(config, refs) == [config |-> config, refs |-> refs]

has_stream(id) == id \in DOMAIN stream

\* register_stream: everything is synced, and the link appears or is replaced.
register_stream(id, object) ==
  stream' = [i \in DOMAIN stream \cup {id} |-> IF i = id THEN object ELSE stream[i]]

\* zip: the layers of the manifest and the diff_ids of the config side by side, as
\* far as there are both.
Pairs(p) ==
  LET layers == Len(image[p].sizes) ids == Len(image[p].diff_ids)
  IN  1 .. IF layers <= ids THEN layers ELSE ids

(***************************************************************************)
(* The layers in the order in which the tasks are started: large ones      *)
(* first, and otherwise as in the manifest.                                *)
(***************************************************************************)
Layers(p) ==
  LET ids == image[p].diff_ids sizes == image[p].sizes
      Ahead(i, j) == sizes[i] > sizes[j] \/ (sizes[i] = sizes[j] /\ i < j)
      rank(i) == 1 + Cardinality({j \in Pairs(p) : Ahead(j, i)})
  IN  [r \in Pairs(p) |-> ids[CHOOSE i \in Pairs(p) : rank(i) = r]]

NoTasks(p) == [i \in Pairs(p) |-> "none"]

Ended(p) == pull[p] \in {"done", "error", "sealed"}

Init ==
  /\ image \in [Process -> Images]
  /\ stream = <<>>
  /\ name = <<>>
  /\ pull = [p \in Process |-> "manifest"]
  /\ task = [p \in Process |-> NoTasks(p)]
  /\ faults = 0

Fault == faults < MaxFaults /\ faults' = faults + 1

(***************************************************************************)
(* pull and ensure_config: nothing is fetched if the config is there.      *)
(***************************************************************************)
EnsureConfig(p) ==
  /\ pull[p] = "manifest"
  /\ pull' = [pull EXCEPT ![p] = IF has_stream(config_identifier(image[p].config)) THEN "name" ELSE "spawn"]
  /\ UNCHANGED <<stream, name, task, faults>>

\* The proxy cannot be started, or does not deliver manifest or config.
ProxyFails(p) ==
  /\ pull[p] \in {"manifest", "spawn"}
  /\ \A i \in DOMAIN task[p] : task[p][i] = "none"
  /\ Fault
  /\ pull' = [pull EXCEPT ![p] = "error"]
  /\ UNCHANGED <<stream, name, task>>

Running(p) == {i \in DOMAIN task[p] : task[p][i] \in {"ensure", "split", "driver", "bad", "register"}}

\* A permit is taken before the task starts, and held until it has ended.
AcquireSpawn(p, i) ==
  /\ pull[p] = "spawn"
  /\ task[p][i] = "none"
  /\ \A j \in 1 .. i - 1 : task[p][j] # "none"
  /\ Cardinality(Running(p)) < Threads
  /\ task' = [task EXCEPT ![p][i] = "ensure"]
  /\ UNCHANGED <<stream, name, pull, faults>>

(***************************************************************************)
(* ensure_layer.                                                           *)
(***************************************************************************)
Goto(p, i, pc) == task' = [task EXCEPT ![p][i] = pc]

EnsureLayer(p, i) ==
  /\ task[p][i] = "ensure"
  /\ Goto(p, i, IF has_stream(layer_identifier(Layers(p)[i])) THEN "done" ELSE "split")
  /\ UNCHANGED <<stream, name, pull, faults>>

\* get_blob and split_async (TarSplit): the objects and the stream are
\* stored, but nothing refers to them.
SplitAsync(p, i) ==
  /\ task[p][i] = "split"
  /\ Goto(p, i, "driver")
  /\ UNCHANGED <<stream, name, pull, faults>>

\* The data that came was not that of the layer; split_async does not notice.
SplitWrongData(p, i) ==
  /\ task[p][i] = "split"
  /\ Fault
  /\ Goto(p, i, "bad")
  /\ UNCHANGED <<stream, name, pull>>

\* Deliberate error: the result of the driver is not looked at.
AwaitNoDriver(p, i) ==
  /\ task[p][i] \in {"driver", "bad"}
  /\ register_stream(layer_identifier(Layers(p)[i]), LayerObject(Layers(p)[i], task[p][i] = "driver"))
  /\ Goto(p, i, "done")
  /\ UNCHANGED <<name, pull, faults>>

\* Only the driver knows what skopeo says of the data.
AwaitDriver(p, i) ==
  /\ task[p][i] \in {"driver", "bad"}
  /\ Goto(p, i, IF task[p][i] = "driver" THEN "register" ELSE "failed")
  /\ UNCHANGED <<stream, name, pull, faults>>

RegisterLayer(p, i) ==
  /\ task[p][i] = "register"
  /\ register_stream(layer_identifier(Layers(p)[i]), LayerObject(Layers(p)[i], TRUE))
  /\ Goto(p, i, "done")
  /\ UNCHANGED <<name, pull, faults>>

LayerFails(p, i) ==
  /\ task[p][i] \in {"split", "driver", "register"}
  /\ Fault
  /\ Goto(p, i, "failed")
  /\ UNCHANGED <<stream, name, pull>>

\* Deliberate error: a failed task is not counted among the ended ones.
AllDone(p) == \A i \in DOMAIN task[p] : task[p][i] = "done"

(***************************************************************************)
(* join_all: all tasks are awaited, also if one has failed.  The streams   *)
(* of the layers are added in the order of the tasks' indexes, each stream *)
(* once, whatever the order in which the tasks have ended.                 *)
(***************************************************************************)
AllEnded(p) == \A i \in DOMAIN task[p] : task[p][i] \in {"done", "failed"}

Refs(order) ==
  LET added[i \in 0 .. Len(order)] ==
        IF i = 0 THEN <<>>
        ELSE IF order[i] \in {added[i - 1][j] : j \in DOMAIN added[i - 1]} THEN added[i - 1]
        ELSE Append(added[i - 1], order[i])
  IN  added[Len(order)]

WriteConfig(p, refs) ==
  /\ register_stream(config_identifier(image[p].config), ConfigObject(image[p].config, refs))
  /\ pull' = [pull EXCEPT ![p] = "name"]

\* Deliberate error: the results are taken in the order in which they came.
JoinUnsorted(p) ==
  /\ pull[p] = "spawn"
  /\ AllEnded(p)
  /\ \A i \in DOMAIN task[p] : task[p][i] = "done"
  /\ \E order \in {Layers(p), Reverse(Layers(p))} : WriteConfig(p, Refs(order))
  /\ task' = [task EXCEPT ![p] = NoTasks(p)]
  /\ UNCHANGED <<name, faults>>

JoinAll(p) ==
  /\ pull[p] = "spawn"
  /\ AllEnded(p)
  /\ \A i \in DOMAIN task[p] : task[p][i] = "done"
  /\ WriteConfig(p, Refs(Layers(p)))
  /\ task' = [task EXCEPT ![p] = NoTasks(p)]
  /\ UNCHANGED <<name, faults>>

\* Deliberate error: the first task that has failed ends the pull, and what
\* is there by then is written.
JoinFailedAnyway(p) ==
  /\ pull[p] = "spawn"
  /\ AllEnded(p)
  /\ \E i \in DOMAIN task[p] : task[p][i] = "failed"
  /\ WriteConfig(p, Refs(SelectSeq(Layers(p), LAMBDA d : has_stream(layer_identifier(d)))))
  /\ task' = [task EXCEPT ![p] = NoTasks(p)]
  /\ UNCHANGED <<name, faults>>

JoinFailed(p) ==
  /\ pull[p] = "spawn"
  /\ AllEnded(p)
  /\ \E i \in DOMAIN task[p] : task[p][i] = "failed"
  /\ pull' = [pull EXCEPT ![p] = "error"]
  /\ task' = [task EXCEPT ![p] = NoTasks(p)]
  /\ UNCHANGED <<stream, name, faults>>

(***************************************************************************)
(* The name is made a link to the config's digest as it is, without the    *)
(* prefix that its content identifier has.                                 *)
(***************************************************************************)
NameStream(p) ==
  /\ pull[p] = "name"
  /\ name' = [r \in DOMAIN name \cup {image[p].reference} |->
                IF r = image[p].reference THEN <<image[p].config>> ELSE name[r]]
  /\ pull' = [pull EXCEPT ![p] = "done"]
  /\ UNCHANGED <<stream, task, faults>>

(***************************************************************************)
(* seal: a config with one more label, and so with another digest.  Its    *)
(* references come out of a HashMap, in any order.                         *)
(***************************************************************************)
Seal(p) ==
  /\ pull[p] = "done"
  /\ LET config == image[p].config
         refs == stream[config_identifier(config)].refs
     IN  \E order \in {refs, Reverse(refs)} :
           register_stream(config_identifier(Sealed(config)), ConfigObject(Sealed(config), order))
  /\ pull' = [pull EXCEPT ![p] = "sealed"]
  /\ UNCHANGED <<name, task, faults>>

(***************************************************************************)
(* A process may be killed at any time; what it has registered stays.      *)
(* Who has not got an image tries again.                                   *)
(***************************************************************************)
Kill(p) ==
  /\ ~Ended(p)
  /\ Fault
  /\ pull' = [pull EXCEPT ![p] = "error"]
  /\ task' = [task EXCEPT ![p] = NoTasks(p)]
  /\ UNCHANGED <<stream, name>>

Retry(p) ==
  /\ pull[p] = "error"
  /\ pull' = [pull EXCEPT ![p] = "manifest"]
  /\ UNCHANGED <<stream, name, task, faults>>

TaskStep(p, i) ==
  EnsureLayer(p, i) \/ SplitAsync(p, i) \/ AwaitDriver(p, i) \/ RegisterLayer(p, i)

PullStep(p) ==
  \/ EnsureConfig(p)
  \/ \E i \in DOMAIN task[p] : AcquireSpawn(p, i)
  \/ JoinAll(p) \/ JoinFailed(p)
  \/ NameStream(p) \/ Retry(p)

Next ==
  /\ \E p \in Process :
       \/ PullStep(p)
       \/ \E i \in DOMAIN task[p] : TaskStep(p, i) \/ SplitWrongData(p, i) \/ LayerFails(p, i)
       \/ ProxyFails(p) \/ Seal(p) \/ Kill(p)
  /\ UNCHANGED image

Spec == Init /\ [][Next]_vars

(***************************************************************************)
(* Tasks are run by the runtime; whoever pulls goes on until it has worked. *)
(***************************************************************************)
Fairness ==
  \A p \in Process :
    /\ WF_vars(PullStep(p) /\ UNCHANGED image)
    /\ WF_vars((\E i \in DOMAIN task[p] : TaskStep(p, i)) /\ UNCHANGED image)

FairSpec == Spec /\ Fairness
===============================================================================
