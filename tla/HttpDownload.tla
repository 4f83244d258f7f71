------------------------------ MODULE HttpDownload ------------------------------
(***************************************************************************)
(* Downloading a stream and all that it needs from an HTTP server          *)
(* (crates/composefs-http/src/lib.rs).                                     *)
(*                                                                         *)
(* The downloader asks for a name, follows the references to other streams *)
(* in the headers of those it has, then gets all other objects with a      *)
(* bounded number of tasks, and at last reads every stream through and     *)
(* compares what it has with the checksum its referents gave for it.       *)
(*                                                                         *)
(* Data is identified by its fs-verity digest.  What the data with a       *)
(* digest is does not change; it is a constant, as is what the server has. *)
(* A server may lack an object or have other data in its place, may be     *)
(* unreachable for a while, and may publish streams that were put together *)
(* wrongly, with checksums for the streams they refer to that are not      *)
(* those of their content.                                                 *)
(***************************************************************************)
EXTENDS Naturals, Sequences, FiniteSets

CONSTANTS
  Checksums,  \* SHA-256 of the bodies of streams
  Data,       \* digest -> [stream, named, objects, body]: named is a sequence of [id, body]
  Names,      \* name on the server -> [symlink, id]
  Present,    \* what the repository may have to begin with
  Objects,    \* digest -> digest of what the server has there; not all need be there
  MaxTasks,   \* 100 in the code
  MaxFaults   \* bound: failed requests in one behaviour

None == "none"

\* A checksum is not None, and a digest that is named anywhere is one of some data.
ASSUME HttpConstants ==
  /\ MaxTasks \in Nat \ {0}
  /\ MaxFaults \in Nat
  /\ IsFiniteSet(DOMAIN Data)
  /\ Present \subseteq SUBSET DOMAIN Data
  /\ \A id \in DOMAIN Data :
       /\ Data[id].named \in Seq([id : DOMAIN Data, body : Checksums])
       /\ Data[id].objects \subseteq DOMAIN Data
  /\ None \notin Checksums
  /\ \A n \in DOMAIN Names : Names[n].id \in DOMAIN Data
  /\ \A id \in DOMAIN Objects : Objects[id] \in DOMAIN Data

VARIABLES
  objects,            \* the repository's objects
  phase,
  name,               \* what is asked for
  my_id,              \* digest of the stream that has the name
  splitstreams,       \* digest -> checksum that its referents give, or None
  splitstreams_todo,
  objects_todo,
  tasks,              \* digest -> state of the task that ensures it
  verified,
  faults

vars == <<objects, phase, name, my_id, splitstreams, splitstreams_todo,
          objects_todo, tasks, verified, faults>>

Init ==
  /\ objects \in Present
  /\ phase = "name"
  /\ name \in DOMAIN Names
  /\ my_id = None
  /\ splitstreams = <<>> /\ splitstreams_todo = <<>>
  /\ objects_todo = {} /\ tasks = <<>> /\ verified = {}
  /\ faults = 0

Fault == faults < MaxFaults /\ faults' = faults + 1

Fail == phase' = "error"

(***************************************************************************)
(* ensure_object fetches what is not there.  What came is stored before    *)
(* its digest is compared with the one that was asked for.                 *)
(***************************************************************************)
Fetched(id) == IF id \in DOMAIN Objects THEN {Objects[id]} ELSE {}
StoredFor(id) == IF id \in objects THEN objects ELSE objects \cup Fetched(id)
EnsuredBy(id) == id \in objects \/ Fetched(id) = {id}

(***************************************************************************)
(* The name is a symbolic link to an object, or is the data itself.        *)
(***************************************************************************)
FetchName ==
  /\ phase = "name"
  /\ LET id == Names[name].id
     IN  /\ objects' = IF Names[name].symlink THEN objects ELSE objects \cup {id}
         /\ my_id' = id
         /\ splitstreams' = [s \in {id} |-> None]
         /\ splitstreams_todo' = <<id>>
  /\ phase' = "streams"
  /\ UNCHANGED <<name, objects_todo, tasks, verified, faults>>

(***************************************************************************)
(* The named references of a stream, in their order: each is new, or has   *)
(* the checksum that is already known for its stream, or is an error, and  *)
(* so is a reference to the stream the download began with.                *)
(***************************************************************************)
AddReference(a, ref) ==
  IF ~a.ok \/ (ref.id \in DOMAIN a.known /\ a.known[ref.id] # ref.body)
  THEN [known |-> a.known, todo |-> a.todo, ok |-> FALSE]
  ELSE [known |-> [s \in DOMAIN a.known \cup {ref.id} |-> IF s = ref.id THEN ref.body ELSE a.known[s]],
        todo |-> IF ref.id \in DOMAIN a.known THEN a.todo ELSE Append(a.todo, ref.id),
        ok |-> TRUE]

SplitstreamsWith(named) ==
  LET after[i \in 0 .. Len(named)] ==
        IF i = 0 THEN [known |-> splitstreams, todo |-> <<>>, ok |-> TRUE]
        ELSE AddReference(after[i - 1], named[i])
  IN  after[Len(named)]

\* Deliberate error: two streams are taken off the list, and one of them is looked at.
TodoWithout(todo) == IF Len(todo) > 1 THEN SubSeq(todo, 1, Len(todo) - 2) ELSE <<>>

TodoRest(todo) == SubSeq(todo, 1, Len(todo) - 1)

FetchStream ==
  /\ phase = "streams"
  /\ splitstreams_todo # <<>>
  /\ LET id == splitstreams_todo[Len(splitstreams_todo)]
         next == SplitstreamsWith(Data[id].named)
     IN  /\ objects' = StoredFor(id)
         /\ IF EnsuredBy(id) /\ Data[id].stream /\ next.ok
            THEN /\ splitstreams' = next.known
                 /\ splitstreams_todo' = TodoRest(splitstreams_todo) \o next.todo
                 /\ objects_todo' = objects_todo \cup (Data[id].objects \ DOMAIN next.known)
                 /\ UNCHANGED phase
            ELSE Fail /\ UNCHANGED <<splitstreams, splitstreams_todo, objects_todo>>
  /\ UNCHANGED <<name, my_id, tasks, verified, faults>>

(***************************************************************************)
(* Tasks for the objects, in no particular order: MaxTasks to begin with,  *)
(* and one more for each that has been joined.                             *)
(***************************************************************************)
QueueInitial ==
  /\ phase = "streams"
  /\ splitstreams_todo = <<>>
  /\ phase' = "objects"
  /\ \E first \in SUBSET objects_todo :
       /\ Cardinality(first) = IF Cardinality(objects_todo) < MaxTasks THEN Cardinality(objects_todo) ELSE MaxTasks
       /\ tasks' = [id \in first |-> "running"]
       /\ objects_todo' = objects_todo \ first
  /\ UNCHANGED <<objects, name, my_id, splitstreams, splitstreams_todo, verified, faults>>

EnsureObject(id) ==
  /\ phase = "objects"
  /\ id \in DOMAIN tasks /\ tasks[id] = "running"
  /\ objects' = StoredFor(id)
  /\ tasks' = [tasks EXCEPT ![id] = IF EnsuredBy(id) THEN "ensured" ELSE "failed"]
  /\ UNCHANGED <<phase, name, my_id, splitstreams, splitstreams_todo, objects_todo, verified, faults>>

\* Deliberate error: a task is only added after every other one that has ended.
NextWhenIdle(ids) == IF ids = {} \/ Cardinality(DOMAIN tasks) > 1 THEN {{}} ELSE {{id} : id \in ids}

\* iter.next(): nothing, or any one of the objects that are left.
NextOf(ids) == IF ids = {} THEN {{}} ELSE {{id} : id \in ids}

JoinNext(id) ==
  /\ phase = "objects"
  /\ id \in DOMAIN tasks /\ tasks[id] = "ensured"
  /\ \E added \in NextOf(objects_todo) :
         /\ tasks' = [t \in (DOMAIN tasks \ {id}) \cup added |-> IF t \in added THEN "running" ELSE tasks[t]]
         /\ objects_todo' = objects_todo \ added
  /\ UNCHANGED <<objects, phase, name, my_id, splitstreams, splitstreams_todo, verified, faults>>

\* The tasks that are left are aborted when the set of tasks is dropped.
JoinFailed(id) ==
  /\ phase = "objects"
  /\ id \in DOMAIN tasks /\ tasks[id] = "failed"
  /\ Fail
  /\ UNCHANGED <<objects, name, my_id, splitstreams, splitstreams_todo, objects_todo, tasks, verified, faults>>

JoinedAll ==
  /\ phase = "objects"
  /\ tasks = <<>>
  /\ phase' = "verify"
  /\ UNCHANGED <<objects, name, my_id, splitstreams, splitstreams_todo, objects_todo, tasks, verified, faults>>

(***************************************************************************)
(* cat reads the objects of a stream one after the other; what comes out   *)
(* is the body only if all are there.                                      *)
(***************************************************************************)
Readable(id) == {id} \cup Data[id].objects \subseteq objects

\* Deliberate error: the checksums are not compared.
ChecksumGiven(id) == TRUE

ChecksumHolds(id) == splitstreams[id] \in {None, Data[id].body}

VerifyStream(id) ==
  /\ phase = "verify"
  /\ id \in DOMAIN splitstreams \ verified
  /\ IF Readable(id) /\ ChecksumHolds(id)
     THEN verified' = verified \cup {id} /\ UNCHANGED phase
     ELSE Fail /\ UNCHANGED verified
  /\ UNCHANGED <<objects, name, my_id, splitstreams, splitstreams_todo, objects_todo, tasks, faults>>

Finish ==
  /\ phase = "verify"
  /\ verified = DOMAIN splitstreams
  /\ phase' = "done"
  /\ UNCHANGED <<objects, name, my_id, splitstreams, splitstreams_todo, objects_todo, tasks, verified, faults>>

(***************************************************************************)
(* A request fails, in the loop or in a task.                              *)
(***************************************************************************)
RequestFails ==
  /\ \/ phase = "name"
     \/ phase = "streams" /\ splitstreams_todo # <<>>
          /\ splitstreams_todo[Len(splitstreams_todo)] \notin objects
  /\ Fault
  /\ Fail
  /\ UNCHANGED <<objects, name, my_id, splitstreams, splitstreams_todo, objects_todo, tasks, verified>>

TaskFails(id) ==
  /\ phase = "objects"
  /\ id \in DOMAIN tasks /\ tasks[id] = "running" /\ id \notin objects
  /\ Fault
  /\ tasks' = [tasks EXCEPT ![id] = "failed"]
  /\ UNCHANGED <<objects, phase, name, my_id, splitstreams, splitstreams_todo, objects_todo, verified>>

(***************************************************************************)
(* Another call of download, in which nothing but the objects is left.     *)
(***************************************************************************)
Retry ==
  /\ phase = "error"
  /\ phase' = "name"
  /\ my_id' = None
  /\ splitstreams' = <<>> /\ splitstreams_todo' = <<>>
  /\ objects_todo' = {} /\ tasks' = <<>> /\ verified' = {}
  /\ UNCHANGED <<objects, name, faults>>

Step ==
  \/ FetchName \/ FetchStream \/ QueueInitial \/ JoinedAll \/ Finish \/ Retry
  \/ \E id \in DOMAIN Data : EnsureObject(id) \/ JoinNext(id) \/ JoinFailed(id) \/ VerifyStream(id)

Next == Step \/ RequestFails \/ \E id \in DOMAIN Data : TaskFails(id)

Spec == Init /\ [][Next]_vars

\* The downloader does not stop of itself, and who downloads tries again.
FairSpec == Spec /\ WF_vars(Step)
===============================================================================
