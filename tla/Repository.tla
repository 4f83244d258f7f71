------------------------------ MODULE Repository ------------------------------
(***************************************************************************)
(* The composefs repository (crates/composefs/src/repository.rs): a        *)
(* directory of content addressed objects, the streams/ and images/ links  *)
(* that give some of them a meaning, the named refs that root them, and a  *)
(* mark and sweep collector.  Several processes use it at once, each       *)
(* through its own open Repository, and are kept apart only by a flock:    *)
(* shared while the repository is open, exclusive during gc.               *)
(*                                                                         *)
(* A process performs one operation at a time; pc[p] names the file system *)
(* call it is about to make.  It can die at any step, which drops its lock *)
(* and leaves the files as they are.  The content of an object is given by *)
(* the constants DataRefs, NamedRefs and ImageObjects: an object's name is *)
(* the hash of its content, so what it refers to never changes.            *)
(***************************************************************************)
CONSTANTS
  Proc,         \* processes, each with at most one open Repository
  Object,       \* fs-verity object identifiers
  Stream,       \* content identifiers, the names in streams/
  StreamRef,    \* the names in streams/refs/
  Image,        \* objects that are erofs images, the names in images/
  ImageRef,     \* the names in images/refs/
  None,         \* "there is no such entry"
  ObjectOf,     \* the splitstream object written for a content identifier
  DataRefs,     \* plain object references of a splitstream object
  NamedRefs,    \* streams a splitstream object names, as object identifiers
  ImageObjects, \* objects an image's files are backed by
  RootSets,     \* the additional_roots a caller of gc may pass
  Faults        \* what may go wrong besides a process dying outside a sweep

ASSUME RepositoryConstants ==
  /\ Image \subseteq Object
  /\ ObjectOf \in [Stream -> Object]
  /\ DataRefs \in [Object -> SUBSET Object]
  /\ NamedRefs \in [Object -> SUBSET Object]
  /\ ImageObjects \in [Image -> SUBSET Object]
  /\ RootSets \subseteq SUBSET (Stream \cup Image)
  /\ None \notin Stream \cup Image \cup StreamRef \cup ImageRef
  /\ Faults \subseteq {"kill_gc", "gc_io", "unchecked_name"}

VARIABLES
  \* the repository on disk
  objects,      \* entries of objects/
  unsynced,     \* objects whose data no syncfs has flushed yet
  streams,      \* entries of streams/; streams/s links to ObjectOf[s]
  streamRefs,   \* streams/refs/n links to ../s
  images,       \* entries of images/; images/i links to object i
  imageRefs,    \* images/refs/n links to ../i
  \* the processes
  lock,         \* the flock mode of the process's Repository
  pc,
  item,         \* the stream or image being written
  ref,          \* the reference name the write was asked for
  ensuring,     \* the write was started by ensure_stream
  todo,         \* objects the write has yet to store
  known,        \* content identifiers this session has been given an id for
  extra,        \* additional_roots of a running gc
  live,         \* its live_objects
  walk, walked  \* streams it has yet to walk, and its walked_streams

disk     == <<objects, unsynced, streams, streamRefs, images, imageRefs>>
writeJob == <<item, ref, ensuring, todo>>
gcJob    == <<extra, live, walk, walked>>
vars     == <<disk, lock, pc, known, writeJob, gcJob>>

StreamWrite == {"store", "sync", "link", "ref", "reref"}
ImageWrite  == {"img_store", "img_link", "img_ref"}
Marking     == {"gc_images", "gc_streams", "gc_walk"}
Sweeping    == {"gc_sweep", "gc_prune_images", "gc_prune_streams"}
Collecting  == Marking \cup Sweeping \cup {"gc_unlock"}
Waiting     == {"gc_lock", "gc_relock"}
PC == {"closed", "idle"} \cup StreamWrite \cup ImageWrite \cup Collecting \cup Waiting

TypeOK ==
  /\ objects \subseteq Object
  /\ unsynced \subseteq objects
  /\ streams \subseteq Stream
  /\ streamRefs \in [StreamRef -> Stream \cup {None}]
  /\ images \subseteq Image
  /\ imageRefs \in [ImageRef -> Image \cup {None}]
  /\ lock \in [Proc -> {"none", "shared", "exclusive"}]
  /\ pc \in [Proc -> PC]
  /\ item \in [Proc -> Stream \cup Image \cup {None}]
  /\ ref \in [Proc -> StreamRef \cup ImageRef \cup {None}]
  /\ ensuring \in [Proc -> BOOLEAN]
  /\ todo \in [Proc -> SUBSET Object]
  /\ known \in [Proc -> SUBSET Stream]
  /\ extra \in [Proc -> SUBSET (Stream \cup Image)]
  /\ live \in [Proc -> SUBSET Object]
  /\ walk \in [Proc -> SUBSET Stream]
  /\ walked \in [Proc -> SUBSET Stream]

Init ==
  /\ objects = {} /\ unsynced = {}
  /\ streams = {} /\ streamRefs = [n \in StreamRef |-> None]
  /\ images = {}  /\ imageRefs = [n \in ImageRef |-> None]
  /\ lock = [p \in Proc |-> "none"]
  /\ pc = [p \in Proc |-> "closed"]
  /\ item = [p \in Proc |-> None]
  /\ ref = [p \in Proc |-> None]
  /\ ensuring = [p \in Proc |-> FALSE]
  /\ todo = [p \in Proc |-> {}]
  /\ known = [p \in Proc |-> {}]
  /\ extra = [p \in Proc |-> {}]
  /\ live = [p \in Proc |-> {}]
  /\ walk = [p \in Proc |-> {}]
  /\ walked = [p \in Proc |-> {}]

-------------------------------------------------------------------------------
Goto(p, l) == pc' = [pc EXCEPT ![p] = l]

\* What a splitstream object needs to be read in full, one level deep.
Needs(o) == DataRefs[o] \cup NamedRefs[o]

\* stream_name_map.get(o): the map keeps one of the entries that link to o.
Mapped(o) == \E s \in streams : ObjectOf[s] = o
NameOf(o) == CHOOSE s \in streams : ObjectOf[s] = o

\* Forget the job of the operation that ends here.
ClearWrite(p) ==
  /\ item' = [item EXCEPT ![p] = None]
  /\ ref' = [ref EXCEPT ![p] = None]
  /\ ensuring' = [ensuring EXCEPT ![p] = FALSE]
  /\ todo' = [todo EXCEPT ![p] = {}]

ClearGc(p) ==
  /\ extra' = [extra EXCEPT ![p] = {}]
  /\ live' = [live EXCEPT ![p] = {}]
  /\ walk' = [walk EXCEPT ![p] = {}]
  /\ walked' = [walked EXCEPT ![p] = {}]

\* flock(LOCK_SH) and flock(LOCK_EX) block while another description conflicts.
NoneExclusive(p) == \A q \in Proc \ {p} : lock[q] # "exclusive"
NoneLocked(p)    == \A q \in Proc \ {p} : lock[q] = "none"

\* store_object_with_id, once it has found out whether there is such an entry.
AddObject(o) ==
  /\ objects' = objects \cup {o}
  /\ unsynced' = IF o \in objects THEN unsynced ELSE unsynced \cup {o}
  /\ UNCHANGED <<streams, streamRefs, images, imageRefs>>

\* What the links in refs/ and the additional roots of a gc lead to.
RootImages(p)  == ({imageRefs[n] : n \in ImageRef} \ {None}) \cup (extra[p] \cap images)
RootStreams(p) == ({streamRefs[n] : n \in StreamRef} \ {None}) \cup (extra[p] \cap streams)

-------------------------------------------------------------------------------
(* Deliberate errors: what a slip in the code would make of the action named,   *)
(* for the properties to find.                                                  *)

\* open_path without the flock call.
OpenUnlocked(p) ==
  /\ pc[p] = "closed"
  /\ Goto(p, "idle")
  /\ UNCHANGED <<disk, lock, known, writeJob, gcJob>>

\* WriterDone and straight on to the link, with nothing flushed.
DoneUnsynced(p) ==
  /\ pc[p] = "store" /\ todo[p] = {}
  /\ AddObject(ObjectOf[item[p]])
  /\ Goto(p, "link")
  /\ UNCHANGED <<lock, known, writeJob, gcJob>>

\* sync and then the reference, before the stream that it refers to.
SyncThenName(p) ==
  /\ pc[p] = "sync"
  /\ unsynced' = {}
  /\ Goto(p, IF ref[p] = None THEN "link" ELSE "ref")
  /\ UNCHANGED <<objects, streams, streamRefs, images, imageRefs, lock, known, writeJob, gcJob>>

\* GcLocked with the shared lock that the process had before.
CollectShared(p) ==
  /\ pc[p] = "gc_lock"
  /\ lock' = [lock EXCEPT ![p] = "exclusive"]
  /\ Goto(p, "gc_images")
  /\ UNCHANGED <<disk, known, writeJob, gcJob>>

\* GcStreams with the streams of streams/ for roots, not those of streams/refs/.
MarkAllStreams(p) ==
  /\ pc[p] = "gc_streams"
  /\ RootStreams(p) \subseteq streams
  /\ live' = [live EXCEPT ![p] = @ \cup {ObjectOf[s] : s \in streams}]
  /\ walk' = [walk EXCEPT ![p] = streams]
  /\ Goto(p, "gc_walk")
  /\ UNCHANGED <<disk, lock, known, writeJob, extra, walked>>

\* GcStreams that passes over the refs that it cannot follow.
MarkFollowable(p) ==
  /\ pc[p] = "gc_streams"
  /\ live' = [live EXCEPT ![p] = @ \cup {ObjectOf[s] : s \in RootStreams(p) \cap streams}]
  /\ walk' = [walk EXCEPT ![p] = RootStreams(p) \cap streams]
  /\ Goto(p, "gc_walk")
  /\ UNCHANGED <<disk, lock, known, writeJob, extra, walked>>

\* walk_streams that looks at the roots only.
WalkOneLevel(p, s) ==
  /\ pc[p] = "gc_walk"
  /\ s \in walk[p]
  /\ ObjectOf[s] \in objects
  /\ live' = [live EXCEPT ![p] = @ \cup Needs(ObjectOf[s])]
  /\ walked' = [walked EXCEPT ![p] = @ \cup {s}]
  /\ walk' = [walk EXCEPT ![p] = @ \ {s}]
  /\ UNCHANGED <<disk, lock, pc, known, writeJob, extra>>

\* walk_streams that passes over a stream that it cannot open.
WalkPastMissing(p, s) ==
  LET o    == ObjectOf[s]
      next == {NameOf(r) : r \in {x \in NamedRefs[o] : Mapped(x)}}
  IN /\ pc[p] = "gc_walk"
     /\ s \in walk[p]
     /\ live' = [live EXCEPT ![p] = IF o \in objects THEN @ \cup Needs(o) ELSE @]
     /\ walked' = [walked EXCEPT ![p] = @ \cup {s}]
     /\ walk' = [walk EXCEPT ![p] =
          (IF o \in objects THEN @ \cup next ELSE @) \ (walked[p] \cup {s})]
     /\ UNCHANGED <<disk, lock, pc, known, writeJob, extra>>

\* walk_streams that forgets to take what it has walked off the list.
WalkAgain(p, s) ==
  /\ pc[p] = "gc_walk"
  /\ s \in walk[p]
  /\ ObjectOf[s] \in objects
  /\ live' = [live EXCEPT ![p] = @ \cup Needs(ObjectOf[s])]
  /\ walked' = [walked EXCEPT ![p] = @ \cup {s}]
  /\ UNCHANGED <<disk, lock, pc, known, writeJob, extra, walk>>

\* GcPruneStreams without the walk over streams/ itself.
PruneRefsAlone(p) ==
  /\ pc[p] = "gc_prune_streams"
  /\ streamRefs' = [n \in StreamRef |->
       IF streamRefs[n] \in streams THEN streamRefs[n] ELSE None]
  /\ Goto(p, "gc_unlock")
  /\ UNCHANGED <<objects, unsynced, streams, images, imageRefs, lock, known, writeJob, gcJob>>

-------------------------------------------------------------------------------
(* Opening and closing *)

open_path(p) ==
  /\ pc[p] = "closed"
  /\ NoneExclusive(p)
  /\ lock' = [lock EXCEPT ![p] = "shared"]
  /\ Goto(p, "idle")
  /\ UNCHANGED <<disk, known, writeJob, gcJob>>

\* Drop for Repository: the lock goes, and so does what the session knew.
drop(p) ==
  /\ pc[p] = "idle"
  /\ lock' = [lock EXCEPT ![p] = "none"]
  /\ known' = [known EXCEPT ![p] = {}]
  /\ Goto(p, "closed")
  /\ UNCHANGED <<disk, writeJob, gcJob>>

\* The process dies in the middle of an operation; the kernel closes its files.
Kill(p) ==
  /\ pc[p] \notin {"closed", "idle"}
  /\ pc[p] \in Sweeping => "kill_gc" \in Faults
  /\ lock' = [lock EXCEPT ![p] = "none"]
  /\ known' = [known EXCEPT ![p] = {}]
  /\ Goto(p, "closed")
  /\ ClearWrite(p) /\ ClearGc(p)
  /\ UNCHANGED disk

\* An I/O error is returned to the caller by `?`.  The session survives.
WriteError(p) ==
  /\ pc[p] \in StreamWrite \cup ImageWrite
  /\ Goto(p, "idle")
  /\ ClearWrite(p)
  /\ UNCHANGED <<disk, lock, known, gcJob>>

-------------------------------------------------------------------------------
(* Streams *)

has_stream(p, s) ==
  /\ pc[p] = "idle"
  /\ s \in streams
  /\ known' = [known EXCEPT ![p] = @ \cup {s}]
  /\ UNCHANGED <<disk, lock, pc, writeJob, gcJob>>

\* The writer's callback stores the external objects and names other streams by
\* the object identifiers that earlier calls of this session returned.
BeginStream(p, s, n, ensure) ==
  /\ NamedRefs[ObjectOf[s]] \subseteq {ObjectOf[t] : t \in known[p]}
  /\ item' = [item EXCEPT ![p] = s]
  /\ ref' = [ref EXCEPT ![p] = n]
  /\ ensuring' = [ensuring EXCEPT ![p] = ensure]
  /\ todo' = [todo EXCEPT ![p] = DataRefs[ObjectOf[s]]]
  /\ Goto(p, "store")
  /\ UNCHANGED <<disk, lock, known, gcJob>>

\* The stream exists: its identifier is taken from the link, without a look at
\* the object, and only the reference is written.
EnsureFound(p, s, n) ==
  /\ s \in streams
  /\ known' = [known EXCEPT ![p] = @ \cup {s}]
  /\ item' = [item EXCEPT ![p] = IF n = None THEN None ELSE s]
  /\ ref' = [ref EXCEPT ![p] = n]
  /\ Goto(p, IF n = None THEN "idle" ELSE "reref")
  /\ UNCHANGED <<disk, lock, ensuring, todo, gcJob>>

ensure_stream(p, s, n) ==
  /\ pc[p] = "idle"
  /\ \/ EnsureFound(p, s, n)
     \/ s \notin streams /\ BeginStream(p, s, n, TRUE)

write_stream(p, s, n) ==
  /\ pc[p] = "idle"
  /\ BeginStream(p, s, n, FALSE)

\* ensure_object: a no-op when an entry of that name is there already.
ensure_object(p, o) ==
  /\ pc[p] \in {"store", "img_store"}
  /\ o \in todo[p]
  /\ AddObject(o)
  /\ todo' = [todo EXCEPT ![p] = @ \ {o}]
  /\ UNCHANGED <<lock, pc, known, item, ref, ensuring, gcJob>>

\* writer.done(): store the splitstream itself.
WriterDone(p) ==
  /\ pc[p] = "store" /\ todo[p] = {}
  /\ AddObject(ObjectOf[item[p]])
  /\ Goto(p, "sync")
  /\ UNCHANGED <<lock, known, writeJob, gcJob>>

sync(p) ==
  /\ pc[p] = "sync"
  /\ unsynced' = {}
  /\ Goto(p, "link")
  /\ UNCHANGED <<objects, streams, streamRefs, images, imageRefs, lock, known, writeJob, gcJob>>

\* The end of a stream write: the caller gets the identifier.
Return(p) ==
  /\ known' = [known EXCEPT ![p] = @ \cup {item[p]}]
  /\ Goto(p, "idle")
  /\ ClearWrite(p)

LinkStream(p) ==
  /\ pc[p] = "link"
  /\ streams' = streams \cup {item[p]}
  /\ IF ref[p] = None
     THEN Return(p)
     ELSE Goto(p, "ref") /\ UNCHANGED <<known, writeJob>>
  /\ UNCHANGED <<objects, unsynced, streamRefs, images, imageRefs, lock, gcJob>>

\* write_stream's own symlink; ensure_stream makes the same one again after it.
LinkRef(p) ==
  /\ pc[p] = "ref"
  /\ streamRefs' = [streamRefs EXCEPT ![ref[p]] = item[p]]
  /\ IF ensuring[p]
     THEN Goto(p, "reref") /\ UNCHANGED <<known, writeJob>>
     ELSE Return(p)
  /\ UNCHANGED <<objects, unsynced, streams, images, imageRefs, lock, gcJob>>

EnsureRef(p) ==
  /\ pc[p] = "reref"
  /\ streamRefs' = [streamRefs EXCEPT ![ref[p]] = item[p]]
  /\ Return(p)
  /\ UNCHANGED <<objects, unsynced, streams, images, imageRefs, lock, gcJob>>

\* Nothing checks that streams/s exists.  Careful callers name what they know.
name_stream(p, s, n) ==
  /\ pc[p] = "idle"
  /\ s \in known[p] \/ "unchecked_name" \in Faults
  /\ streamRefs' = [streamRefs EXCEPT ![n] = s]
  /\ UNCHANGED <<objects, unsynced, streams, images, imageRefs, lock, pc, known, writeJob, gcJob>>

-------------------------------------------------------------------------------
(* Images *)

\* The files' objects are stored while the tree is built, then the image.
write_image(p, i, n) ==
  /\ pc[p] = "idle"
  /\ item' = [item EXCEPT ![p] = i]
  /\ ref' = [ref EXCEPT ![p] = n]
  /\ todo' = [todo EXCEPT ![p] = ImageObjects[i]]
  /\ Goto(p, "img_store")
  /\ UNCHANGED <<disk, lock, known, ensuring, gcJob>>

StoreImage(p) ==
  /\ pc[p] = "img_store" /\ todo[p] = {}
  /\ AddObject(item[p])
  /\ Goto(p, "img_link")
  /\ UNCHANGED <<lock, known, writeJob, gcJob>>

LinkImage(p) ==
  /\ pc[p] = "img_link"
  /\ images' = images \cup {item[p]}
  /\ IF ref[p] = None
     THEN Goto(p, "idle") /\ ClearWrite(p)
     ELSE Goto(p, "img_ref") /\ UNCHANGED writeJob
  /\ UNCHANGED <<objects, unsynced, streams, streamRefs, imageRefs, lock, known, gcJob>>

LinkImageRef(p) ==
  /\ pc[p] = "img_ref"
  /\ imageRefs' = [imageRefs EXCEPT ![ref[p]] = item[p]]
  /\ Goto(p, "idle")
  /\ ClearWrite(p)
  /\ UNCHANGED <<objects, unsynced, streams, streamRefs, images, lock, known, gcJob>>

-------------------------------------------------------------------------------
(* Garbage collection *)

\* flock(LOCK_EX).  Converting a lock is not atomic: the shared lock is given up
\* before the exclusive one is granted, so a caller may rely on nothing it knew.
gc(p, roots) ==
  /\ pc[p] = "idle"
  /\ lock' = [lock EXCEPT ![p] = IF @ = "exclusive" THEN @ ELSE "none"]
  /\ known' = [known EXCEPT ![p] = {}]
  /\ extra' = [extra EXCEPT ![p] = roots]
  /\ Goto(p, "gc_lock")
  /\ UNCHANGED <<disk, writeJob, live, walk, walked>>

GcLocked(p) ==
  /\ pc[p] = "gc_lock"
  /\ NoneLocked(p)
  /\ lock' = [lock EXCEPT ![p] = "exclusive"]
  /\ Goto(p, "gc_images")
  /\ UNCHANGED <<disk, known, writeJob, gcJob>>

GcImages(p) ==
  /\ pc[p] = "gc_images"
  /\ RootImages(p) \subseteq images \cap objects
  /\ live' = [live EXCEPT ![p] = RootImages(p) \cup UNION {ImageObjects[i] : i \in RootImages(p)}]
  /\ Goto(p, "gc_streams")
  /\ UNCHANGED <<disk, lock, known, writeJob, extra, walk, walked>>

GcStreams(p) ==
  /\ pc[p] = "gc_streams"
  /\ RootStreams(p) \subseteq streams
  /\ live' = [live EXCEPT ![p] = @ \cup {ObjectOf[s] : s \in RootStreams(p)}]
  /\ walk' = [walk EXCEPT ![p] = RootStreams(p)]
  /\ Goto(p, "gc_walk")
  /\ UNCHANGED <<disk, lock, known, writeJob, extra, walked>>

walk_streams(p, s) ==
  LET o    == ObjectOf[s]
      next == {NameOf(r) : r \in {x \in NamedRefs[o] : Mapped(x)}}
  IN /\ pc[p] = "gc_walk"
     /\ s \in walk[p]
     /\ o \in objects
     /\ live' = [live EXCEPT ![p] = @ \cup Needs(o)]
     /\ walked' = [walked EXCEPT ![p] = @ \cup {s}]
     /\ walk' = [walk EXCEPT ![p] = (@ \cup next) \ (walked[p] \cup {s})]
     /\ UNCHANGED <<disk, lock, pc, known, writeJob, extra>>

\* A root link that cannot be followed ends gc with an error, before anything is
\* deleted.  The `?` returns past the flock call at the end of gc_impl.
GcMarkError(p) ==
  /\ \/ pc[p] = "gc_images"  /\ ~(RootImages(p) \subseteq images \cap objects)
     \/ pc[p] = "gc_streams" /\ ~(RootStreams(p) \subseteq streams)
     \/ pc[p] = "gc_walk"    /\ \E s \in walk[p] : ObjectOf[s] \notin objects
  /\ Goto(p, "idle")
  /\ ClearGc(p)
  /\ UNCHANGED <<disk, lock, known, writeJob>>

GcMarked(p) ==
  /\ pc[p] = "gc_walk" /\ walk[p] = {}
  /\ Goto(p, "gc_sweep")
  /\ UNCHANGED <<disk, lock, known, writeJob, gcJob>>

GcRemove(p, o) ==
  /\ pc[p] = "gc_sweep"
  /\ o \in objects \ live[p]
  /\ objects' = objects \ {o}
  /\ unsynced' = unsynced \ {o}
  /\ UNCHANGED <<streams, streamRefs, images, imageRefs, lock, pc, known, writeJob, gcJob>>

GcSwept(p) ==
  /\ pc[p] = "gc_sweep" /\ objects \subseteq live[p]
  /\ Goto(p, "gc_prune_images")
  /\ UNCHANGED <<disk, lock, known, writeJob, gcJob>>

\* cleanup_gc_category: first the links to objects, then the refs to those.
GcPruneImages(p) ==
  /\ pc[p] = "gc_prune_images"
  /\ images' = images \cap objects
  /\ imageRefs' = [n \in ImageRef |->
       IF imageRefs[n] \in images \cap objects THEN imageRefs[n] ELSE None]
  /\ Goto(p, "gc_prune_streams")
  /\ UNCHANGED <<objects, unsynced, streams, streamRefs, lock, known, writeJob, gcJob>>

Unbroken == {s \in streams : ObjectOf[s] \in objects}

GcPruneStreams(p) ==
  /\ pc[p] = "gc_prune_streams"
  /\ streams' = Unbroken
  /\ streamRefs' = [n \in StreamRef |->
       IF streamRefs[n] \in Unbroken THEN streamRefs[n] ELSE None]
  /\ Goto(p, "gc_unlock")
  /\ UNCHANGED <<objects, unsynced, images, imageRefs, lock, known, writeJob, gcJob>>

\* A readdir, an unlink or a flock fails: gc returns, the lock stays.
GcIoError(p) ==
  /\ "gc_io" \in Faults
  /\ pc[p] \in Collecting
  /\ Goto(p, "idle")
  /\ ClearGc(p)
  /\ UNCHANGED <<disk, lock, known, writeJob>>

\* flock(LOCK_SH): the exclusive lock goes first, here too.
GcUnlock(p) ==
  /\ pc[p] = "gc_unlock"
  /\ lock' = [lock EXCEPT ![p] = "none"]
  /\ Goto(p, "gc_relock")
  /\ ClearGc(p)
  /\ UNCHANGED <<disk, known, writeJob>>

GcRelock(p) ==
  /\ pc[p] = "gc_relock"
  /\ NoneExclusive(p)
  /\ lock' = [lock EXCEPT ![p] = "shared"]
  /\ Goto(p, "idle")
  /\ UNCHANGED <<disk, known, writeJob, gcJob>>

\* A dry run only reads, but it asks for the shared lock: a session that has kept
\* the exclusive one from a gc that failed gives it up here.
gc_dry_run(p) ==
  /\ pc[p] = "idle"
  /\ lock[p] = "exclusive"
  /\ lock' = [lock EXCEPT ![p] = "none"]
  /\ known' = [known EXCEPT ![p] = {}]
  /\ Goto(p, "gc_relock")
  /\ UNCHANGED <<disk, writeJob, gcJob>>

-------------------------------------------------------------------------------
(* The next-state relation *)

Call(p) ==
  \/ open_path(p)
  \/ drop(p)
  \/ \E s \in Stream : has_stream(p, s)
  \/ \E s \in Stream, n \in StreamRef \cup {None} : ensure_stream(p, s, n)
  \/ \E s \in Stream, n \in StreamRef \cup {None} : write_stream(p, s, n)
  \/ \E s \in Stream, n \in StreamRef : name_stream(p, s, n)
  \/ \E i \in Image, n \in ImageRef \cup {None} : write_image(p, i, n)
  \/ \E roots \in RootSets : gc(p, roots)
  \/ gc_dry_run(p)

Write(p) ==
  \/ \E o \in todo[p] : ensure_object(p, o)
  \/ WriterDone(p) \/ sync(p) \/ LinkStream(p) \/ LinkRef(p) \/ EnsureRef(p)
  \/ StoreImage(p) \/ LinkImage(p) \/ LinkImageRef(p)

Collect(p) ==
  \/ GcImages(p) \/ GcStreams(p) \/ GcMarkError(p) \/ GcMarked(p)
  \/ \E s \in walk[p] : walk_streams(p, s)
  \/ \E o \in objects : GcRemove(p, o)
  \/ GcSwept(p) \/ GcPruneImages(p) \/ GcPruneStreams(p) \/ GcUnlock(p)

Fail(p) == Kill(p) \/ WriteError(p) \/ GcIoError(p)

Next ==
  \E p \in Proc : Call(p) \/ Write(p) \/ Collect(p) \/ GcLocked(p) \/ GcRelock(p) \/ Fail(p)

Spec == Init /\ [][Next]_vars

\* An operation that has begun goes on: nothing in it waits, except for a lock.
FairSpec == Spec /\ \A p \in Proc : WF_vars(Write(p)) /\ WF_vars(Collect(p))

-------------------------------------------------------------------------------
(* What the links give access to *)

StreamObjects == {ObjectOf[s] : s \in Stream}

\* Everything a reader of splitstream object o comes to: the splitstreams named,
\* directly or not, starting at o, and the data of each.
Follows(o) ==
  {x \in Object : \A T \in SUBSET Object :
     (o \in T /\ \A y \in T : NamedRefs[y] \subseteq T) => x \in T}
Content == [o \in Object |-> Follows(o) \cup UNION {DataRefs[x] : x \in Follows(o)}]

\* An image and the objects behind its files.
ImageContent(i) == {i} \cup ImageObjects[i]

StreamReadable(s) == s \in streams /\ Content[ObjectOf[s]] \subseteq objects
ImageReadable(i)  == i \in images /\ ImageContent(i) \subseteq objects
===============================================================================
