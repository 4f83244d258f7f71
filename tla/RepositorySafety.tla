--------------------------- MODULE RepositorySafety ---------------------------
(***************************************************************************)
(* What the repository guarantees to its callers.  The guarantees rest on  *)
(* NoAliasing, which nothing in the code enforces: the collector tells     *)
(* apart streams, images and plain data only by how it came to them.       *)
(***************************************************************************)
EXTENDS Repository

ASSUME NoAliasing ==
  /\ Image \cap StreamObjects = {}
  /\ \A i \in Image : ImageObjects[i] \cap (StreamObjects \cup Image) = {}
  /\ \A o \in StreamObjects : DataRefs[o] \cap (StreamObjects \cup Image) = {}
  /\ \A o \in StreamObjects : NamedRefs[o] \subseteq StreamObjects

-------------------------------------------------------------------------------
\* While gc marks or deletes, no other process has the repository open: nobody
\* stores an object that the sweep has not heard of (flock in open_path, gc).
GcRunsAlone ==
  \A p, q \in Proc :
    pc[p] \in Collecting /\ p # q =>
      lock[p] = "exclusive" /\ lock[q] = "none" /\ pc[q] \in {"closed"} \cup Waiting

\* "Any object reachable from a ref is protected from GC": in every state, in the
\* middle of a sweep and after any process died, a named stream or image can be
\* read in full (gc_impl against write_stream, name_stream and write_image).
RootsIntact ==
  /\ \A n \in StreamRef : streamRefs[n] # None => StreamReadable(streamRefs[n])
  /\ \A n \in ImageRef : imageRefs[n] # None => ImageReadable(imageRefs[n])

\* Unless a sweep is going on, a stream or image that is there is there with all
\* it needs: has_stream may trust a link without looking behind it, although gc
\* deletes objects one by one and links last.
EntriesComplete ==
  (\A p \in Proc : pc[p] \notin Sweeping) =>
    /\ \A s \in streams : StreamReadable(s)
    /\ \A i \in images : ImageReadable(i)

\* The barrier of write_stream: whoever stored them, and in whatever order, all
\* the objects behind a visible stream have been flushed to the disk.
PublishedSynced ==
  \A s \in streams : Content[ObjectOf[s]] \cap unsynced = {}

\* An identifier a session was given stays good for the whole session, so that
\* it can be used to name the stream or to refer to it from another one.
SessionStable ==
  \A p \in Proc : \A s \in known[p] : StreamReadable(s)

\* What gc is to keep: all that the refs and the additional roots lead to.
Reached(p) ==
  (UNION {Content[ObjectOf[s]] : s \in RootStreams(p)})
  \cup (UNION {ImageContent(i) : i \in RootImages(p)})

\* A gc that ran to its end has left what the refs and the additional roots
\* reach and nothing else, and no dangling link.
GcExact ==
  \A p \in Proc : pc[p] = "gc_unlock" =>
    /\ objects = Reached(p)
    /\ \A s \in streams : StreamReadable(s)
    /\ \A i \in images : ImageReadable(i)

\* No step takes a name away, not even the step of gc that removes broken refs:
\* a broken ref makes gc fail before it gets there (gc_category).
NamesNeverLost ==
  [][/\ \A n \in StreamRef : streamRefs[n] # None => streamRefs'[n] # None
     /\ \A n \in ImageRef : imageRefs[n] # None => imageRefs'[n] # None]_vars

\* Whatever else went wrong before, a gc killed in its sweep, an unlink that
\* failed, a ref to a stream that was never there: a gc deletes nothing that a
\* named stream or image refers to, directly or not.
SweepSparesRoots ==
  [][\A o \in objects \ objects' :
       /\ \A n \in StreamRef : streamRefs[n] # None => o \notin Content[ObjectOf[streamRefs[n]]]
       /\ \A n \in ImageRef : imageRefs[n] # None => o \notin ImageContent(imageRefs[n])]_vars

\* A gc that has the lock ends, whatever the streams refer to, and lets the
\* others in (walk_streams' walked set, the sweep, the clean up).
GcEnds == \A p \in Proc : pc[p] \in Collecting ~> pc[p] \notin Collecting

-------------------------------------------------------------------------------
\* During a sweep the streams that are about to lose objects are still linked:
\* they count as gone from the moment the marking is done.
Available ==
  {s \in streams : \A p \in Proc : pc[p] \in Sweeping => ObjectOf[s] \in live[p]}

Catalog == INSTANCE StreamCatalog
  WITH available <- Available, names <- streamRefs, IdOf <- ObjectOf, Links <- NamedRefs

\* The repository implements the catalog: with all its steps, a write or a gc
\* looks like one step to whoever follows the links.
ImplementsCatalog == Catalog!Spec

-------------------------------------------------------------------------------
(* The inductive invariant behind the guarantees, for a repository in which no *)
(* fault occurs.  It speaks of one link at a time where the guarantees speak   *)
(* of everything a reader comes to.                                            *)

\* The operation at hand is about an entry of the right kind.
JobsTyped ==
  \A p \in Proc :
    /\ pc[p] \in StreamWrite => item[p] \in Stream /\ ref[p] \in StreamRef \cup {None}
    /\ pc[p] \in ImageWrite => item[p] \in Image /\ ref[p] \in ImageRef \cup {None}
    /\ pc[p] \in {"ref", "reref", "img_ref"} => ref[p] # None

\* Who holds which lock when, and that flock keeps an exclusive one exclusive.
LocksHeld ==
  \A p \in Proc :
    /\ pc[p] \in {"closed", "gc_relock"} => lock[p] = "none"
    /\ pc[p] = "gc_lock" => lock[p] # "shared"
    /\ pc[p] \in Collecting => lock[p] = "exclusive"
    /\ pc[p] \in {"idle"} \cup StreamWrite \cup ImageWrite => lock[p] # "none"
    /\ lock[p] = "exclusive" => \A q \in Proc \ {p} : lock[q] = "none"

\* Only the holder of the shared lock knows anything, and it is still true.
KnownLinked ==
  \A p \in Proc :
    /\ known[p] \subseteq streams
    /\ known[p] # {} => pc[p] \in {"idle"} \cup StreamWrite \cup ImageWrite

RefsLinked ==
  /\ \A n \in StreamRef : streamRefs[n] # None => streamRefs[n] \in streams
  /\ \A n \in ImageRef : imageRefs[n] # None => imageRefs[n] \in images

NamedLinked == \A s \in streams : \A o \in NamedRefs[ObjectOf[s]] : Mapped(o)

StreamPresent(s) == {ObjectOf[s]} \cup DataRefs[ObjectOf[s]] \subseteq objects
ImagePresent(i)  == {i} \cup ImageObjects[i] \subseteq objects

\* What a link stands for is there, but for what a sweep is taking away.
EntriesPresent ==
  /\ \A s \in streams :
       (\A p \in Proc : pc[p] \in Sweeping => ObjectOf[s] \in live[p]) => StreamPresent(s)
  /\ \A i \in images :
       (\A p \in Proc : pc[p] \in Sweeping => i \in live[p]) => ImagePresent(i)

EntriesSynced ==
  \A s \in streams : ({ObjectOf[s]} \cup DataRefs[ObjectOf[s]]) \cap unsynced = {}

\* What a write has stored so far is there when its turn comes to be linked.
WritesPrepared ==
  \A p \in Proc :
    /\ pc[p] \in {"store", "sync", "link"} =>
         NamedRefs[ObjectOf[item[p]]] \subseteq {ObjectOf[t] : t \in known[p]}
    /\ pc[p] = "store" => DataRefs[ObjectOf[item[p]]] \ todo[p] \subseteq objects
    /\ pc[p] \in {"sync", "link"} => StreamPresent(item[p])
    /\ pc[p] = "link" => ({ObjectOf[item[p]]} \cup DataRefs[ObjectOf[item[p]]]) \cap unsynced = {}
    /\ pc[p] \in {"ref", "reref"} => item[p] \in streams
    /\ pc[p] = "img_store" => ImageObjects[item[p]] \ todo[p] \subseteq objects
    /\ pc[p] = "img_link" => ImagePresent(item[p])
    /\ pc[p] = "img_ref" => item[p] \in images

\* The roots are marked, each as soon as its kind has been looked at.
RootsMarked ==
  \A p \in Proc :
    /\ pc[p] \in Collecting \ {"gc_images"} =>
         /\ RootImages(p) \subseteq live[p]
         /\ \A i \in Image \cap live[p] : ImageObjects[i] \subseteq live[p]
    /\ pc[p] \in Collecting \ {"gc_images", "gc_streams"} =>
         \A s \in RootStreams(p) : ObjectOf[s] \in live[p]

\* Marking: each marked splitstream has been walked or is about to be.
MarkingSound ==
  \A p \in Proc :
    /\ pc[p] = "gc_streams" => live[p] \cap StreamObjects = {}
    /\ pc[p] \notin {"gc_walk", "gc_unlock"} \cup Sweeping => walked[p] = {}
    /\ pc[p] = "gc_walk" =>
         /\ walk[p] \cup walked[p] \subseteq streams
         /\ \A o \in live[p] \cap StreamObjects : \E t \in walk[p] \cup walked[p] : ObjectOf[t] = o
         /\ \A s \in walked[p] : Needs(ObjectOf[s]) \subseteq live[p]

\* Sweeping: what is marked has what it needs marked, and is all that is left
\* once the sweep is done.
SweepSound ==
  \A p \in Proc :
    /\ pc[p] \in Sweeping \cup {"gc_unlock"} =>
         \A s \in streams : ObjectOf[s] \in live[p] => Needs(ObjectOf[s]) \subseteq live[p]
    /\ pc[p] \in {"gc_prune_images", "gc_prune_streams", "gc_unlock"} => objects \subseteq live[p]
    /\ pc[p] \in {"gc_prune_streams", "gc_unlock"} => images \subseteq objects
    /\ pc[p] = "gc_unlock" => \A s \in streams : ObjectOf[s] \in objects

IInv ==
  /\ TypeOK /\ JobsTyped /\ LocksHeld
  /\ KnownLinked /\ RefsLinked /\ NamedLinked /\ EntriesPresent /\ EntriesSynced
  /\ WritesPrepared /\ RootsMarked /\ MarkingSound /\ SweepSound

\* For the exactness of gc, on top of IInv: what is marked is reached from a root.
LiveReached ==
  \A p \in Proc :
    /\ pc[p] \in Collecting \ {"gc_images"} => live[p] \subseteq Reached(p)
    /\ pc[p] = "gc_walk" =>
         \A s \in walk[p] : \E r \in RootStreams(p) : ObjectOf[s] \in Follows(ObjectOf[r])
===============================================================================
