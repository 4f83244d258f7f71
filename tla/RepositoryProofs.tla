--------------------------- MODULE RepositoryProofs ---------------------------
(***************************************************************************)
(* Proofs about Repository, for any number of processes, objects, streams  *)
(* and images, and any contents that do not alias: its types and locks     *)
(* whatever fails; for a repository in which none of the Faults occurs,    *)
(* the guarantees of RepositorySafety; what gc never takes away, whatever  *)
(* fails; and, without the Faults again, that it keeps nothing else and    *)
(* that the repository implements StreamCatalog.                           *)
(***************************************************************************)
EXTENDS RepositorySafety, TLAPS

TypeInv == TypeOK /\ JobsTyped

LEMMA TypeInit == Init => TypeInv
BY DEF Init, TypeInv, TypeOK, JobsTyped, PC, StreamWrite, ImageWrite

\* The operations that only a call starts.
LEMMA TypeCall ==
  ASSUME TypeInv, NEW p \in Proc, Call(p)
  PROVE  TypeInv'
<1> USE RepositoryConstants DEF TypeInv, TypeOK, JobsTyped, PC, StreamWrite, ImageWrite,
        Collecting, Marking, Sweeping, Waiting, Goto, disk, writeJob, gcJob, ClearWrite, ClearGc
<1>1. CASE open_path(p)
  BY <1>1 DEF open_path
<1>2. CASE drop(p)
  BY <1>2 DEF drop
<1>3. ASSUME NEW s \in Stream, has_stream(p, s) PROVE TypeInv'
  BY <1>3 DEF has_stream
<1>4. ASSUME NEW s \in Stream, NEW n \in StreamRef \cup {None}, ensure_stream(p, s, n) PROVE TypeInv'
  <2>1. CASE EnsureFound(p, s, n)
    BY <1>4, <2>1 DEF ensure_stream, EnsureFound
  <2>2. CASE BeginStream(p, s, n, TRUE)
    BY <1>4, <2>2 DEF ensure_stream, BeginStream
  <2>3. QED BY <1>4, <2>1, <2>2 DEF ensure_stream
<1>5. ASSUME NEW s \in Stream, NEW n \in StreamRef \cup {None}, write_stream(p, s, n) PROVE TypeInv'
  BY <1>5 DEF write_stream, BeginStream
<1>6. ASSUME NEW s \in Stream, NEW n \in StreamRef, name_stream(p, s, n) PROVE TypeInv'
  BY <1>6 DEF name_stream
<1>7. ASSUME NEW i \in Image, NEW n \in ImageRef \cup {None}, write_image(p, i, n) PROVE TypeInv'
  BY <1>7 DEF write_image
<1>8. ASSUME NEW roots \in RootSets, gc(p, roots) PROVE TypeInv'
  BY <1>8 DEF gc
<1>9. CASE gc_dry_run(p)
  BY <1>9 DEF gc_dry_run
<1>10. QED
  BY <1>1, <1>2, <1>3, <1>4, <1>5, <1>6, <1>7, <1>8, <1>9 DEF Call

\* The steps of a write that has begun.
LEMMA TypeWrite ==
  ASSUME TypeInv, NEW p \in Proc, Write(p)
  PROVE  TypeInv'
<1> USE RepositoryConstants DEF TypeInv, TypeOK, JobsTyped, PC, StreamWrite, ImageWrite,
        Collecting, Marking, Sweeping, Waiting, Goto, disk, writeJob, gcJob, ClearWrite, AddObject,
        Return
<1>1. ASSUME NEW o \in todo[p], ensure_object(p, o) PROVE TypeInv'
  BY <1>1 DEF ensure_object
<1>2. CASE WriterDone(p)
  BY <1>2 DEF WriterDone
<1>3. CASE sync(p)
  BY <1>3 DEF sync
<1>4. CASE LinkStream(p)
  <2>1. CASE ref[p] = None
    <3>1. Return(p) /\ streams' = streams \cup {item[p]} /\ pc[p] = "link"
      BY <1>4, <2>1 DEF LinkStream
    <3>2. QED BY <1>4, <3>1 DEF LinkStream
  <2>2. CASE ref[p] # None
    BY <1>4, <2>2 DEF LinkStream
  <2>3. QED BY <2>1, <2>2
<1>5. CASE LinkRef(p)
  <2>1. streamRefs' \in [StreamRef -> Stream \cup {None}]
    BY <1>5 DEF LinkRef
  <2>2. CASE ensuring[p]
    BY <1>5, <2>1, <2>2 DEF LinkRef
  <2>3. CASE ~ensuring[p]
    <3>1. Return(p) /\ pc[p] = "ref"
      BY <1>5, <2>3 DEF LinkRef
    <3>2. QED BY <1>5, <2>1, <3>1 DEF LinkRef
  <2>4. QED BY <2>2, <2>3
<1>6. CASE EnsureRef(p)
  BY <1>6 DEF EnsureRef
<1>7. CASE StoreImage(p)
  BY <1>7 DEF StoreImage
<1>8. CASE LinkImage(p)
  <2>1. CASE ref[p] = None
    <3>1. Goto(p, "idle") /\ ClearWrite(p)
      BY <1>8, <2>1 DEF LinkImage
    <3>2. QED BY <1>8, <3>1 DEF LinkImage
  <2>2. CASE ref[p] # None
    BY <1>8, <2>2 DEF LinkImage
  <2>3. QED BY <2>1, <2>2
<1>9. CASE LinkImageRef(p)
  BY <1>9 DEF LinkImageRef
<1>10. QED
  BY <1>1, <1>2, <1>3, <1>4, <1>5, <1>6, <1>7, <1>8, <1>9 DEF Write

\* The streams a walk goes on to are streams of the repository.
LEMMA NameOfMapped ==
  ASSUME NEW o, Mapped(o)
  PROVE  NameOf(o) \in streams /\ ObjectOf[NameOf(o)] = o
BY DEF Mapped, NameOf

LEMMA TypeCollect ==
  ASSUME TypeInv, NEW p \in Proc, Collect(p) \/ GcLocked(p) \/ GcRelock(p)
  PROVE  TypeInv'
<1> USE RepositoryConstants DEF TypeInv, TypeOK, JobsTyped, PC, StreamWrite, ImageWrite,
        Collecting, Marking, Sweeping, Waiting, Goto, disk, writeJob, gcJob, ClearGc
<1>1. CASE GcImages(p)
  <2>1. RootImages(p) \subseteq Image
    BY <1>1 DEF GcImages
  <2>2. UNION {ImageObjects[i] : i \in RootImages(p)} \subseteq Object
    BY <2>1
  <2>3. QED BY <1>1, <2>1, <2>2 DEF GcImages
<1>2. CASE GcStreams(p)
  <2>1. RootStreams(p) \subseteq Stream
    BY <1>2 DEF GcStreams
  <2>2. QED BY <1>2, <2>1 DEF GcStreams
<1>3. CASE GcMarkError(p)
  BY <1>3 DEF GcMarkError
<1>4. CASE GcMarked(p)
  BY <1>4 DEF GcMarked
<1>5. ASSUME NEW s \in walk[p], walk_streams(p, s) PROVE TypeInv'
  <2> DEFINE next == {NameOf(r) : r \in {x \in NamedRefs[ObjectOf[s]] : Mapped(x)}}
  <2>1. s \in Stream
    OBVIOUS
  <2>2. next \subseteq Stream
    BY NameOfMapped
  <2>3. Needs(ObjectOf[s]) \subseteq Object
    BY <2>1 DEF Needs
  <2> HIDE DEF next
  <2>4. walk' = [walk EXCEPT ![p] = (@ \cup next) \ (walked[p] \cup {s})]
    BY <1>5 DEF walk_streams, next
  <2>5. walk' \in [Proc -> SUBSET Stream]
    BY <2>2, <2>4
  <2>6. QED BY <1>5, <2>1, <2>3, <2>5 DEF walk_streams
<1>6. ASSUME NEW o \in objects, GcRemove(p, o) PROVE TypeInv'
  BY <1>6 DEF GcRemove
<1>7. CASE GcSwept(p)
  BY <1>7 DEF GcSwept
<1>8. CASE GcPruneImages(p)
  BY <1>8 DEF GcPruneImages
<1>9. CASE GcPruneStreams(p)
  BY <1>9 DEF GcPruneStreams, Unbroken
<1>10. CASE GcUnlock(p)
  BY <1>10 DEF GcUnlock
<1>11. CASE GcLocked(p)
  BY <1>11 DEF GcLocked
<1>12. CASE GcRelock(p)
  BY <1>12 DEF GcRelock
<1>13. QED
  BY <1>1, <1>2, <1>3, <1>4, <1>5, <1>6, <1>7, <1>8, <1>9, <1>10, <1>11, <1>12 DEF Collect

LEMMA TypeFail ==
  ASSUME TypeInv, NEW p \in Proc, Fail(p)
  PROVE  TypeInv'
<1> USE RepositoryConstants DEF TypeInv, TypeOK, JobsTyped, PC, StreamWrite, ImageWrite,
        Collecting, Marking, Sweeping, Waiting, Goto, disk, writeJob, gcJob, ClearWrite, ClearGc
<1>1. CASE Kill(p)
  BY <1>1 DEF Kill
<1>2. CASE WriteError(p)
  BY <1>2 DEF WriteError
<1>3. CASE GcIoError(p)
  BY <1>3 DEF GcIoError
<1>4. QED
  BY <1>1, <1>2, <1>3 DEF Fail

LEMMA TypeStutter ==
  ASSUME TypeInv, UNCHANGED vars
  PROVE  TypeInv'
BY DEF TypeInv, TypeOK, JobsTyped, vars, disk, writeJob, gcJob

LEMMA Typing == Spec => []TypeInv
<1>1. TypeInv /\ [Next]_vars => TypeInv'
  BY TypeCall, TypeWrite, TypeCollect, TypeFail, TypeStutter DEF Next
<1>2. QED
  BY TypeInit, <1>1, PTL DEF Spec

\* Every variable keeps its type, whatever faults occur.
THEOREM TypeCorrect == Spec => []TypeOK
<1>1. TypeInv => TypeOK
  BY DEF TypeInv
<1>2. QED
  BY Typing, <1>1, PTL

-------------------------------------------------------------------------------
(* The lock *)

\* An operation that keeps its lock and stays among the steps that need it.
LEMMA LockKept ==
  ASSUME TypeInv, LocksHeld, NEW p \in Proc, NEW l \in PC,
         Goto(p, l) \/ UNCHANGED pc, UNCHANGED lock,
         pc[p] \in {"idle"} \cup StreamWrite \cup ImageWrite,
         l \in {"idle"} \cup StreamWrite \cup ImageWrite
  PROVE  LocksHeld'
BY DEF TypeInv, TypeOK, LocksHeld, Goto, PC, StreamWrite, ImageWrite, Collecting, Marking,
       Sweeping, Waiting

LEMMA LockKeptByGc ==
  ASSUME TypeInv, LocksHeld, NEW p \in Proc, NEW l \in PC,
         Goto(p, l) \/ UNCHANGED pc, UNCHANGED lock,
         pc[p] \in Collecting, l \in Collecting \cup {"idle"}
  PROVE  LocksHeld'
BY DEF TypeInv, TypeOK, LocksHeld, Goto, PC, StreamWrite, ImageWrite, Collecting, Marking,
       Sweeping, Waiting

LEMMA LockTaken ==
  ASSUME TypeInv, LocksHeld, NEW p \in Proc,
         \/ /\ lock' = [lock EXCEPT ![p] = "shared"]
            /\ NoneExclusive(p)
            /\ Goto(p, "idle")
         \/ /\ lock' = [lock EXCEPT ![p] = "exclusive"]
            /\ NoneLocked(p)
            /\ Goto(p, "gc_images")
         \/ /\ lock' = [lock EXCEPT ![p] = "none"]
            /\ Goto(p, "closed") \/ Goto(p, "gc_relock") \/ Goto(p, "gc_lock")
         \/ /\ UNCHANGED lock
            /\ lock[p] = "exclusive"
            /\ Goto(p, "gc_lock")
  PROVE  LocksHeld'
BY DEF TypeInv, TypeOK, LocksHeld, Goto, PC, StreamWrite, ImageWrite, Collecting, Marking,
       Sweeping, Waiting, NoneExclusive, NoneLocked

LEMMA LockStep ==
  ASSUME TypeInv, LocksHeld, [Next]_vars
  PROVE  LocksHeld'
<1> USE DEF PC, StreamWrite, ImageWrite, Collecting, Marking, Sweeping, Waiting
<1>1. ASSUME NEW p \in Proc, Call(p) PROVE LocksHeld'
  <2>1. CASE open_path(p)
    BY <2>1, LockTaken DEF open_path
  <2>2. CASE drop(p)
    BY <2>2, LockTaken DEF drop
  <2>3. ASSUME NEW s \in Stream, has_stream(p, s) PROVE LocksHeld'
    BY <2>3, LockKept DEF has_stream
  <2>4. ASSUME NEW s \in Stream, NEW n \in StreamRef \cup {None}, ensure_stream(p, s, n)
        PROVE LocksHeld'
    <3>1. PICK l \in {"idle", "reref", "store"} : Goto(p, l) /\ UNCHANGED lock
      BY <2>4 DEF ensure_stream, EnsureFound, BeginStream
    <3>2. QED BY <2>4, <3>1, LockKept DEF ensure_stream
  <2>5. ASSUME NEW s \in Stream, NEW n \in StreamRef \cup {None}, write_stream(p, s, n)
        PROVE LocksHeld'
    BY <2>5, LockKept DEF write_stream, BeginStream
  <2>6. ASSUME NEW s \in Stream, NEW n \in StreamRef, name_stream(p, s, n) PROVE LocksHeld'
    BY <2>6, LockKept DEF name_stream
  <2>7. ASSUME NEW i \in Image, NEW n \in ImageRef \cup {None}, write_image(p, i, n)
        PROVE LocksHeld'
    BY <2>7, LockKept DEF write_image
  <2>8. ASSUME NEW roots \in RootSets, gc(p, roots) PROVE LocksHeld'
    <3>1. CASE lock[p] = "exclusive"
      <4>1. UNCHANGED lock
        BY <2>8, <3>1 DEF gc, TypeInv, TypeOK
      <4>2. QED BY <2>8, <3>1, <4>1, LockTaken DEF gc
    <3>2. CASE lock[p] # "exclusive"
      BY <2>8, <3>2, LockTaken DEF gc
    <3>3. QED BY <3>1, <3>2
  <2>9. CASE gc_dry_run(p)
    BY <2>9, LockTaken DEF gc_dry_run
  <2>10. QED
    BY <1>1, <2>1, <2>2, <2>3, <2>4, <2>5, <2>6, <2>7, <2>8, <2>9 DEF Call
<1>2. ASSUME NEW p \in Proc, Write(p) PROVE LocksHeld'
  <2>1. /\ UNCHANGED lock
        /\ pc[p] \in StreamWrite \cup ImageWrite
        /\ \E l \in {"idle"} \cup StreamWrite \cup ImageWrite : Goto(p, l) \/ UNCHANGED pc
    BY <1>2 DEF Write, ensure_object, WriterDone, sync, LinkStream, LinkRef, EnsureRef, Return,
                StoreImage, LinkImage, LinkImageRef
  <2>2. QED BY <2>1, LockKept
<1>3. ASSUME NEW p \in Proc, Collect(p) PROVE LocksHeld'
  <2>1. CASE GcUnlock(p)
    BY <2>1, LockTaken DEF GcUnlock
  <2>2. CASE ~GcUnlock(p)
    <3>1. /\ UNCHANGED lock
          /\ pc[p] \in Collecting
          /\ \E l \in Collecting \cup {"idle"} : Goto(p, l) \/ UNCHANGED pc
      BY <1>3, <2>2 DEF Collect, GcImages, GcStreams, GcMarkError, GcMarked, walk_streams,
                        GcRemove, GcSwept, GcPruneImages, GcPruneStreams
    <3>2. QED BY <3>1, LockKeptByGc
  <2>3. QED BY <2>1, <2>2
<1>4. ASSUME NEW p \in Proc, GcLocked(p) \/ GcRelock(p) PROVE LocksHeld'
  BY <1>4, LockTaken DEF GcLocked, GcRelock
<1>5. ASSUME NEW p \in Proc, Fail(p) PROVE LocksHeld'
  <2>1. CASE Kill(p)
    BY <2>1, LockTaken DEF Kill
  <2>2. CASE WriteError(p)
    BY <2>2, LockKept DEF WriteError
  <2>3. CASE GcIoError(p)
    BY <2>3, LockKeptByGc DEF GcIoError
  <2>4. QED BY <1>5, <2>1, <2>2, <2>3 DEF Fail
<1>6. CASE UNCHANGED vars
  BY <1>6 DEF vars, LocksHeld
<1>7. QED
  BY <1>1, <1>2, <1>3, <1>4, <1>5, <1>6 DEF Next

LEMMA Locking == Spec => []LocksHeld
<1>1. Init => LocksHeld
  BY DEF Init, LocksHeld, Collecting, Marking, Sweeping, StreamWrite, ImageWrite
<1>2. QED
  BY <1>1, LockStep, Typing, PTL DEF Spec

\* A gc never has company, however many processes fight for the lock, die with
\* it or keep it after an error.
THEOREM GcIsAlone == Spec => []GcRunsAlone
<1>1. TypeInv /\ LocksHeld => GcRunsAlone
  BY DEF TypeInv, TypeOK, LocksHeld, GcRunsAlone, PC, StreamWrite, ImageWrite, Collecting, Marking,
         Sweeping, Waiting
<1>2. QED
  BY <1>1, Typing, Locking, PTL

-------------------------------------------------------------------------------
(***************************************************************************)
(* The guarantees of RepositorySafety, for a repository in which none of   *)
(* the Faults occurs: processes may still die at any step but in the       *)
(* middle of a sweep.  The inductive invariant is IInv of that module.     *)
(***************************************************************************)

\* The steps in which a process uses the repository under its lock, but for gc.
Using == {"idle"} \cup StreamWrite \cup ImageWrite

\* The part of IInv that the proofs of types and locks leave: what concerns the
\* writers of the repository and what concerns its collectors.
Written ==
  /\ KnownLinked /\ RefsLinked /\ NamedLinked /\ EntriesPresent /\ EntriesSynced /\ WritesPrepared
Collected == RootsMarked /\ MarkingSound /\ SweepSound
Contents  == Written /\ Collected

-------------------------------------------------------------------------------
(* Who is there *)

\* Nobody collects while somebody uses the repository.
LEMMA NobodyCollects ==
  ASSUME TypeInv, LocksHeld, NEW p \in Proc, pc[p] \in Using
  PROVE  \A q \in Proc : pc[q] \notin Collecting
BY DEF TypeInv, TypeOK, LocksHeld, Using, PC, StreamWrite, ImageWrite, Collecting, Marking,
       Sweeping, Waiting

\* Nobody else uses or collects while somebody collects.
LEMMA CollectorAlone ==
  ASSUME TypeInv, LocksHeld, NEW p \in Proc, pc[p] \in Collecting
  PROVE  \A q \in Proc \ {p} : pc[q] \in {"closed"} \cup Waiting
BY DEF TypeInv, TypeOK, LocksHeld, PC, StreamWrite, ImageWrite, Collecting, Marking, Sweeping, Waiting

-------------------------------------------------------------------------------
(* What a step cannot disturb *)

\* A step that leaves the disk and every gc alone disturbs neither.
LEMMA DiskAndGcKept ==
  ASSUME TypeInv, Contents, NEW p \in Proc, NEW l \in PC \ Collecting,
         UNCHANGED <<disk, live, walk, walked>>,
         \A q \in Proc : pc[q] \in Collecting => extra'[q] = extra[q],
         Goto(p, l) \/ UNCHANGED pc, pc[p] \notin Collecting
  PROVE  /\ RefsLinked' /\ NamedLinked' /\ EntriesPresent' /\ EntriesSynced'
         /\ RootsMarked' /\ MarkingSound' /\ SweepSound'
<1> USE DEF TypeInv, TypeOK, Contents, Written, Collected, Goto, disk, Collecting, Marking, Sweeping
<1>1. \A q \in Proc : pc'[q] \in Collecting => pc'[q] = pc[q] /\ extra'[q] = extra[q]
  OBVIOUS
<1>2. \A q \in Proc : pc'[q] \in Sweeping <=> pc[q] \in Sweeping
  OBVIOUS
<1>3. RefsLinked' /\ NamedLinked' /\ EntriesSynced'
  BY DEF RefsLinked, NamedLinked, Mapped, EntriesSynced
<1>4. EntriesPresent'
  BY <1>2 DEF EntriesPresent, StreamPresent, ImagePresent
<1>5. RootsMarked'
  BY <1>1 DEF RootsMarked, RootImages, RootStreams
<1>6. MarkingSound'
  BY <1>1 DEF MarkingSound
<1>7. SweepSound'
  BY <1>1 DEF SweepSound
<1>8. QED
  BY <1>3, <1>4, <1>5, <1>6, <1>7

\* No gc, nothing to say about one.
LEMMA NoGc ==
  ASSUME TypeInv, Contents, UNCHANGED gcJob,
         \A q \in Proc : pc[q] \notin Collecting /\ pc'[q] \notin Collecting
  PROVE  RootsMarked' /\ MarkingSound' /\ SweepSound'
BY DEF Contents, Collected, RootsMarked, MarkingSound, SweepSound, gcJob, Collecting, Marking, Sweeping

\* A step of gc disturbs no session and no write: there is none.
LEMMA NoSession ==
  ASSUME TypeInv, LocksHeld, Contents, NEW p \in Proc, pc[p] \in Collecting,
         NEW l \in Collecting \cup {"idle", "gc_relock"},
         Goto(p, l) \/ UNCHANGED pc, UNCHANGED <<known, writeJob>>
  PROVE  KnownLinked' /\ WritesPrepared'
<1>1. \A q \in Proc : pc'[q] \notin StreamWrite \cup ImageWrite
  BY CollectorAlone DEF TypeInv, TypeOK, Goto, PC, StreamWrite, ImageWrite, Collecting, Marking,
     Sweeping, Waiting
<1>2. \A q \in Proc : known[q] = {}
  BY CollectorAlone DEF Contents, Written, Collected, KnownLinked, TypeInv, TypeOK, PC, StreamWrite, ImageWrite,
     Collecting, Marking, Sweeping, Waiting
<1>3. QED
  BY <1>1, <1>2 DEF KnownLinked, WritesPrepared, StreamWrite, ImageWrite, writeJob

\* Without a sweep, every entry is present.
LEMMA AllPresent ==
  ASSUME Contents, \A q \in Proc : pc[q] \notin Collecting
  PROVE  (\A s \in streams : StreamPresent(s)) /\ (\A i \in images : ImagePresent(i))
BY DEF Contents, Written, Collected, EntriesPresent, Collecting

LEMMA StillPresent ==
  ASSUME TypeInv, Contents, \A q \in Proc : pc[q] \notin Collecting,
         objects \subseteq objects',
         \A s \in streams' : s \in streams \/ StreamPresent(s)',
         \A i \in images' : i \in images \/ ImagePresent(i)'
  PROVE  EntriesPresent'
BY AllPresent DEF EntriesPresent, StreamPresent, ImagePresent

-------------------------------------------------------------------------------
(* The steps of a session *)

LEMMA ContentsCall ==
  ASSUME TypeInv, LocksHeld, Contents, Faults = {}, NEW p \in Proc, Call(p)
  PROVE  Contents'
<1> USE RepositoryConstants DEF TypeInv, TypeOK, JobsTyped, PC, StreamWrite, ImageWrite, Collecting,
        Marking, Sweeping, Waiting, Goto, disk, writeJob, gcJob
<1> SUFFICES ASSUME NEW l \in PC \ Collecting, Goto(p, l) \/ UNCHANGED pc, pc[p] \notin Collecting,
                    UNCHANGED <<objects, unsynced, streams, images, imageRefs, live, walk, walked>>,
                    \A q \in Proc : pc[q] \in Collecting => extra'[q] = extra[q]
             PROVE  Contents'
  <2>1. /\ UNCHANGED <<objects, unsynced, streams, images, imageRefs, live, walk, walked>>
        /\ pc[p] \notin Collecting
        /\ \E l \in PC \ Collecting : Goto(p, l) \/ UNCHANGED pc
    BY DEF Call, open_path, drop, has_stream, ensure_stream, EnsureFound, BeginStream, write_stream,
           name_stream, write_image, gc, gc_dry_run
  <2>2. \A q \in Proc : pc[q] \in Collecting => extra'[q] = extra[q]
    BY DEF Call, open_path, drop, has_stream, ensure_stream, EnsureFound, BeginStream, write_stream,
           name_stream, write_image, gc, gc_dry_run
  <2>3. QED BY <2>1, <2>2
<1>1. ASSUME NEW s \in Stream, NEW n \in StreamRef, name_stream(p, s, n) PROVE Contents'
  <2>1. \A q \in Proc : pc[q] \notin Collecting
    BY <1>1, NobodyCollects DEF name_stream, Using
  <2>2. UNCHANGED <<objects, unsynced, streams, images, imageRefs, pc, known, writeJob, gcJob>>
    BY <1>1 DEF name_stream
  <2>3. RefsLinked'
    BY <1>1, <2>2 DEF name_stream, Contents, Written, Collected, RefsLinked, KnownLinked
  <2>4. NamedLinked' /\ EntriesSynced' /\ KnownLinked' /\ WritesPrepared'
    BY <2>2 DEF Contents, Written, Collected, NamedLinked, Mapped, EntriesSynced, KnownLinked, WritesPrepared,
                StreamPresent, ImagePresent
  <2>5. EntriesPresent'
    BY <2>1, <2>2, StillPresent
  <2>6. RootsMarked' /\ MarkingSound' /\ SweepSound'
    BY <2>1, <2>2, NoGc
  <2>7. QED BY <2>3, <2>4, <2>5, <2>6 DEF Contents, Written, Collected
<1>2. ASSUME UNCHANGED streamRefs, KnownLinked' /\ WritesPrepared' PROVE Contents'
  BY <1>2, DiskAndGcKept DEF Contents, Written, Collected
<1> USE DEF Contents, Written, Collected, KnownLinked, WritesPrepared, StreamPresent, ImagePresent
<1>3. CASE open_path(p)
  BY <1>2, <1>3 DEF open_path
<1>4. CASE drop(p)
  BY <1>2, <1>4 DEF drop
<1>5. ASSUME NEW s \in Stream, has_stream(p, s) PROVE Contents'
  BY <1>2, <1>5 DEF has_stream
<1>6. ASSUME NEW s \in Stream, NEW n \in StreamRef \cup {None}, ensure_stream(p, s, n) PROVE Contents'
  <2>1. CASE EnsureFound(p, s, n)
    BY <1>2, <1>6, <2>1 DEF ensure_stream, EnsureFound
  <2>2. CASE BeginStream(p, s, n, TRUE)
    BY <1>2, <1>6, <2>2 DEF ensure_stream, BeginStream
  <2>3. QED BY <1>6, <2>1, <2>2 DEF ensure_stream
<1>7. ASSUME NEW s \in Stream, NEW n \in StreamRef \cup {None}, write_stream(p, s, n) PROVE Contents'
  BY <1>2, <1>7 DEF write_stream, BeginStream
<1>8. ASSUME NEW i \in Image, NEW n \in ImageRef \cup {None}, write_image(p, i, n) PROVE Contents'
  BY <1>2, <1>8 DEF write_image
<1>9. ASSUME NEW roots \in RootSets, gc(p, roots) PROVE Contents'
  BY <1>2, <1>9 DEF gc
<1>10. CASE gc_dry_run(p)
  BY <1>2, <1>10 DEF gc_dry_run
<1>11. QED
  BY <1>1, <1>3, <1>4, <1>5, <1>6, <1>7, <1>8, <1>9, <1>10 DEF Call

LEMMA ContentsWrite ==
  ASSUME TypeInv, LocksHeld, Contents, NEW p \in Proc, Write(p)
  PROVE  Contents'
<1> USE RepositoryConstants, NoAliasing DEF TypeInv, TypeOK, JobsTyped, PC, StreamWrite, ImageWrite,
        Collecting, Marking, Sweeping, Waiting, Goto, disk, writeJob, gcJob
<1>1. pc[p] \in Using /\ UNCHANGED gcJob
  BY DEF Using, Write, ensure_object, WriterDone, sync, LinkStream, LinkRef, EnsureRef, Return,
         StoreImage, LinkImage, LinkImageRef
<1>2. \A q \in Proc : pc[q] \notin Collecting
  BY <1>1, NobodyCollects
<1>3. \E l \in Using : Goto(p, l) \/ UNCHANGED pc
  BY DEF Using, Write, ensure_object, WriterDone, sync, LinkStream, LinkRef, EnsureRef, Return,
         StoreImage, LinkImage, LinkImageRef
<1>4. \A q \in Proc : pc'[q] \notin Collecting
  BY <1>2, <1>3 DEF Using
<1>5. RootsMarked' /\ MarkingSound' /\ SweepSound'
  BY <1>1, <1>2, <1>4, NoGc
<1>6. /\ \A s \in streams : StreamPresent(s)
      /\ \A i \in images : ImagePresent(i)
  BY <1>2, AllPresent
<1> SUFFICES Written'
  BY <1>5 DEF Contents, Collected
<1> USE DEF Contents, Written, StreamPresent, ImagePresent
\* A new object disturbs no link.
<1>7. ASSUME NEW o \in Object, AddObject(o), KnownLinked', WritesPrepared'
      PROVE  Written'
  <2>1. RefsLinked' /\ NamedLinked'
    BY <1>7 DEF AddObject, RefsLinked, NamedLinked, Mapped
  <2>2. EntriesPresent'
    BY <1>2, <1>7, StillPresent DEF AddObject
  <2>3. EntriesSynced'
    BY <1>6, <1>7 DEF AddObject, EntriesSynced
  <2>4. QED BY <1>7, <2>1, <2>2, <2>3
<1>8. ASSUME NEW o \in todo[p], ensure_object(p, o) PROVE Written'
  <2>1. KnownLinked' /\ WritesPrepared'
    BY <1>8 DEF ensure_object, AddObject, KnownLinked, WritesPrepared
  <2>2. QED BY <1>7, <1>8, <2>1 DEF ensure_object
<1>9. CASE WriterDone(p)
  <2>1. KnownLinked' /\ WritesPrepared'
    BY <1>9 DEF WriterDone, AddObject, KnownLinked, WritesPrepared
  <2>2. QED BY <1>7, <1>9, <2>1 DEF WriterDone
<1>10. CASE StoreImage(p)
  <2>1. KnownLinked' /\ WritesPrepared'
    BY <1>10 DEF StoreImage, AddObject, KnownLinked, WritesPrepared
  <2>2. QED BY <1>7, <1>10, <2>1 DEF StoreImage
<1>11. CASE sync(p)
  <2>1. KnownLinked' /\ RefsLinked' /\ NamedLinked' /\ EntriesSynced'
    BY <1>11 DEF sync, KnownLinked, RefsLinked, NamedLinked, Mapped, EntriesSynced
  <2>2. WritesPrepared'
    BY <1>11 DEF sync, WritesPrepared
  <2>3. EntriesPresent'
    BY <1>2, <1>11, StillPresent DEF sync
  <2>4. QED BY <2>1, <2>2, <2>3
<1>12. CASE LinkStream(p)
  <2>1. /\ item[p] \in Stream /\ StreamPresent(item[p])
        /\ ({ObjectOf[item[p]]} \cup DataRefs[ObjectOf[item[p]]]) \cap unsynced = {}
        /\ NamedRefs[ObjectOf[item[p]]] \subseteq {ObjectOf[t] : t \in known[p]}
    BY <1>12 DEF LinkStream, WritesPrepared
  <2>2. /\ streams' = streams \cup {item[p]}
        /\ UNCHANGED <<objects, unsynced, streamRefs, images, imageRefs>>
        /\ known' \in {known, [known EXCEPT ![p] = @ \cup {item[p]}]}
    BY <1>12 DEF LinkStream, Return
  <2>3. KnownLinked'
    BY <1>12, <2>2 DEF LinkStream, Return, KnownLinked
  <2>4. NamedLinked'
    BY <2>1, <2>2 DEF NamedLinked, Mapped, KnownLinked
  <2>5. RefsLinked' /\ EntriesSynced'
    BY <2>1, <2>2 DEF RefsLinked, EntriesSynced
  <2>6. EntriesPresent'
    BY <1>2, <2>1, <2>2, StillPresent
  <2>7. WritesPrepared'
    BY <1>12 DEF LinkStream, Return, ClearWrite, WritesPrepared
  <2>8. QED BY <2>3, <2>4, <2>5, <2>6, <2>7
<1>13. CASE LinkRef(p) \/ EnsureRef(p)
  <2>1. /\ streamRefs' = [streamRefs EXCEPT ![ref[p]] = item[p]]
        /\ item[p] \in streams
        /\ UNCHANGED <<objects, unsynced, streams, images, imageRefs>>
    BY <1>13 DEF LinkRef, EnsureRef, WritesPrepared
  <2>2. KnownLinked'
    <3>1. \/ Goto(p, "reref") /\ UNCHANGED known
          \/ Goto(p, "idle") /\ known' = [known EXCEPT ![p] = known[p] \cup {item[p]}]
      BY <1>13 DEF LinkRef, EnsureRef, Return
    <3>2. pc[p] \in {"ref", "reref"}
      BY <1>13 DEF LinkRef, EnsureRef
    <3>3. \A q \in Proc : known'[q] \subseteq streams
      BY <2>1, <3>1 DEF KnownLinked
    <3>4. \A q \in Proc : known'[q] # {} => pc'[q] \in {"idle"} \cup StreamWrite \cup ImageWrite
      BY <3>1, <3>2 DEF KnownLinked
    <3>5. QED BY <2>1, <3>3, <3>4 DEF KnownLinked
  <2>3. RefsLinked'
    BY <2>1 DEF RefsLinked
  <2>4. NamedLinked' /\ EntriesSynced'
    BY <2>1 DEF NamedLinked, Mapped, EntriesSynced
  <2>5. EntriesPresent'
    BY <1>2, <2>1, StillPresent
  <2>6. WritesPrepared'
    BY <1>13 DEF LinkRef, EnsureRef, Return, ClearWrite, WritesPrepared
  <2>7. QED BY <2>2, <2>3, <2>4, <2>5, <2>6
<1>14. CASE LinkImage(p)
  <2>1. /\ images' = images \cup {item[p]}
        /\ ImagePresent(item[p])
        /\ UNCHANGED <<objects, unsynced, streams, streamRefs, imageRefs, known>>
    BY <1>14 DEF LinkImage, WritesPrepared
  <2>2. KnownLinked' /\ WritesPrepared'
    <3>1. KnownLinked'
      BY <1>14 DEF LinkImage, KnownLinked
    <3>2. /\ \A q \in Proc \ {p} : pc'[q] = pc[q] /\ item'[q] = item[q] /\ todo'[q] = todo[q]
          /\ \/ pc'[p] = "idle"
             \/ pc'[p] = "img_ref" /\ item'[p] = item[p]
      BY <1>14 DEF LinkImage, ClearWrite
    <3>3. QED BY <2>1, <3>1, <3>2 DEF WritesPrepared
  <2>3. RefsLinked' /\ NamedLinked' /\ EntriesSynced'
    BY <2>1 DEF RefsLinked, NamedLinked, Mapped, EntriesSynced
  <2>4. EntriesPresent'
    BY <1>2, <2>1, StillPresent
  <2>5. QED BY <2>2, <2>3, <2>4
<1>15. CASE LinkImageRef(p)
  <2>1. /\ imageRefs' = [imageRefs EXCEPT ![ref[p]] = item[p]]
        /\ item[p] \in images
        /\ UNCHANGED <<objects, unsynced, streams, streamRefs, images, known>>
    BY <1>15 DEF LinkImageRef, WritesPrepared
  <2>2. KnownLinked' /\ WritesPrepared'
    BY <1>15 DEF LinkImageRef, ClearWrite, KnownLinked, WritesPrepared
  <2>3. RefsLinked' /\ NamedLinked' /\ EntriesSynced'
    BY <2>1 DEF RefsLinked, NamedLinked, Mapped, EntriesSynced
  <2>4. EntriesPresent'
    BY <1>2, <2>1, StillPresent
  <2>5. QED BY <2>2, <2>3, <2>4
<1>16. QED
  BY <1>8, <1>9, <1>10, <1>11, <1>12, <1>13, <1>14, <1>15 DEF Write

-------------------------------------------------------------------------------
(* The steps of gc *)

\* While p collects, an entry counts as long as p has it marked.
LEMMA PresentIfLive ==
  ASSUME TypeInv, LocksHeld, NEW p \in Proc, pc[p] \in Collecting, Contents
  PROVE  /\ \A s \in streams : (pc[p] \in Sweeping => ObjectOf[s] \in live[p]) => StreamPresent(s)
         /\ \A i \in images : (pc[p] \in Sweeping => i \in live[p]) => ImagePresent(i)
<1>1. \A q \in Proc \ {p} : pc[q] \notin Sweeping
  BY CollectorAlone DEF Sweeping, Waiting
<1>2. QED
  BY <1>1 DEF Contents, Written, EntriesPresent

LEMMA PresentAgain ==
  ASSUME TypeInv', LocksHeld', NEW p \in Proc,
         \A s \in streams' : (pc'[p] \in Sweeping => ObjectOf[s] \in live'[p]) => StreamPresent(s)',
         \A i \in images' : (pc'[p] \in Sweeping => i \in live'[p]) => ImagePresent(i)'
  PROVE  EntriesPresent'
BY DEF EntriesPresent

\* What gc does not know to be alone in, it does not change: its own job and pc.
LEMMA GcFrame ==
  ASSUME TypeInv, LocksHeld, NEW p \in Proc, pc[p] \in Collecting,
         NEW l \in Collecting \cup {"idle", "gc_relock"},
         Goto(p, l) \/ UNCHANGED pc
  PROVE  \A q \in Proc \ {p} : pc'[q] = pc[q] /\ pc'[q] \notin Collecting
BY CollectorAlone DEF TypeInv, TypeOK, Goto, PC, Collecting, Marking, Sweeping, Waiting

LEMMA ContentsCollect ==
  ASSUME TypeInv, LocksHeld, Contents, NEW p \in Proc, Collect(p)
  PROVE  Contents'
<1> USE RepositoryConstants, NoAliasing DEF TypeInv, TypeOK, PC, Collecting, Marking, Sweeping,
        Goto, disk, writeJob, gcJob
<1>1. /\ pc[p] \in Collecting
      /\ UNCHANGED <<known, writeJob>>
      /\ \E l \in Collecting \cup {"idle", "gc_relock"} : Goto(p, l) \/ UNCHANGED pc
      /\ \A q \in Proc \ {p} : walked'[q] = walked[q]
  BY DEF Collect, GcImages, GcStreams, GcMarkError, GcMarked, walk_streams, GcRemove, GcSwept,
         GcPruneImages, GcPruneStreams, GcUnlock, ClearGc
<1>2. KnownLinked' /\ WritesPrepared'
  BY <1>1, NoSession
<1>3. \A q \in Proc \ {p} : pc'[q] = pc[q] /\ pc'[q] \notin Collecting
  BY <1>1, GcFrame
<1>4. /\ \A s \in streams : (pc[p] \in Sweeping => ObjectOf[s] \in live[p]) => StreamPresent(s)
      /\ \A i \in images : (pc[p] \in Sweeping => i \in live[p]) => ImagePresent(i)
  BY <1>1, PresentIfLive
<1> USE DEF Contents, Written, Collected
\* The steps that read.
<1>5. ASSUME UNCHANGED disk, pc[p] \in Sweeping => pc'[p] \in Sweeping /\ UNCHANGED live,
             Collected'
      PROVE  Contents'
  <2>1. RefsLinked' /\ NamedLinked' /\ EntriesSynced'
    BY <1>5 DEF RefsLinked, NamedLinked, Mapped, EntriesSynced
  <2>2. EntriesPresent'
    BY <1>3, <1>4, <1>5 DEF EntriesPresent, StreamPresent, ImagePresent
  <2>3. QED BY <1>2, <1>5, <2>1, <2>2
<1>6. CASE GcImages(p)
  <2>1. RootsMarked' /\ MarkingSound' /\ SweepSound'
    BY <1>3, <1>6 DEF GcImages, RootsMarked, MarkingSound, SweepSound, RootImages, StreamObjects
  <2>2. QED BY <1>5, <1>6, <2>1 DEF GcImages
<1>7. CASE GcStreams(p)
  <2>1. RootStreams(p) \subseteq streams
    BY <1>7 DEF GcStreams
  <2>2. RootStreams(p)' = RootStreams(p) /\ RootImages(p)' = RootImages(p)
    BY <1>7 DEF GcStreams, RootStreams, RootImages
  <2>3. live' = [live EXCEPT ![p] = live[p] \cup {ObjectOf[s] : s \in RootStreams(p)}]
    BY <1>7 DEF GcStreams
  <2>4. RootsMarked'
    BY <1>3, <1>7, <2>1, <2>2, <2>3 DEF GcStreams, RootsMarked, StreamObjects
  <2>5. MarkingSound'
    BY <1>3, <1>7, <2>1, <2>3 DEF GcStreams, MarkingSound, StreamObjects
  <2>6. SweepSound'
    BY <1>3, <1>7 DEF GcStreams, SweepSound
  <2>7. QED BY <1>5, <1>7, <2>4, <2>5, <2>6 DEF GcStreams
<1>8. CASE GcMarkError(p)
  <2>1. RootsMarked' /\ MarkingSound' /\ SweepSound'
    BY <1>3, <1>8 DEF GcMarkError, ClearGc, RootsMarked, MarkingSound, SweepSound
  <2>2. QED BY <1>5, <1>8, <2>1 DEF GcMarkError
<1>9. CASE GcMarked(p)
  <2>1. RootsMarked' /\ MarkingSound'
    BY <1>3, <1>9 DEF GcMarked, RootsMarked, RootImages, RootStreams, MarkingSound
  <2>2. \A s \in streams : ObjectOf[s] \in live[p] => Needs(ObjectOf[s]) \subseteq live[p]
    BY <1>9 DEF GcMarked, MarkingSound, StreamObjects
  <2>3. SweepSound'
    BY <1>3, <1>9, <2>2 DEF GcMarked, SweepSound, Needs
  <2>4. QED BY <1>5, <1>9, <2>1, <2>3 DEF GcMarked
<1>10. ASSUME NEW s \in walk[p], walk_streams(p, s) PROVE Contents'
  <2> DEFINE o == ObjectOf[s]
             next == {NameOf(r) : r \in {x \in NamedRefs[o] : Mapped(x)}}
  <2>1. s \in Stream /\ s \in streams /\ o \in StreamObjects /\ o \in Object
    BY <1>10 DEF walk_streams, MarkingSound, StreamObjects
  <2>2. /\ live' = [live EXCEPT ![p] = live[p] \cup Needs(o)]
        /\ walked' = [walked EXCEPT ![p] = walked[p] \cup {s}]
        /\ walk' = [walk EXCEPT ![p] = (walk[p] \cup next) \ (walked[p] \cup {s})]
        /\ pc[p] = "gc_walk" /\ UNCHANGED <<disk, pc, extra>>
    BY <1>10 DEF walk_streams
  <2>3. next \subseteq streams /\ \A r \in NamedRefs[o] : \E t \in next : ObjectOf[t] = r
    BY <2>1, NameOfMapped DEF NamedLinked
  <2>4. Needs(o) \cap Image = {} /\ Needs(o) \cap StreamObjects = NamedRefs[o]
    BY <2>1 DEF Needs
  <2> HIDE DEF next, o
  <2>5. RootsMarked'
    BY <1>3, <2>2, <2>4 DEF RootsMarked, RootImages, RootStreams
  <2>6. /\ walk'[p] \cup walked'[p] = walk[p] \cup walked[p] \cup next
        /\ live'[p] = live[p] \cup Needs(o)
    BY <2>2
  <2>7. \A r \in live'[p] \cap StreamObjects : \E t \in walk'[p] \cup walked'[p] : ObjectOf[t] = r
    BY <2>2, <2>3, <2>4, <2>6 DEF MarkingSound
  <2>8. \A t \in walked'[p] : Needs(ObjectOf[t]) \subseteq live'[p]
    BY <2>2, <2>6 DEF MarkingSound, o
  <2>9. MarkingSound'
    <3>1. walk'[p] \cup walked'[p] \subseteq streams
      BY <2>2, <2>3, <2>6 DEF MarkingSound
    <3>2. QED BY <1>3, <1>1, <2>2, <2>7, <2>8, <3>1 DEF MarkingSound, Needs
  <2>10. SweepSound'
    BY <1>3, <2>2 DEF SweepSound
  <2>11. QED BY <1>5, <2>2, <2>5, <2>9, <2>10
<1>11. CASE GcSwept(p)
  <2>1. RootsMarked' /\ MarkingSound' /\ SweepSound'
    BY <1>3, <1>11 DEF GcSwept, RootsMarked, RootImages, RootStreams, MarkingSound, SweepSound, Needs
  <2>2. QED BY <1>5, <1>11, <2>1 DEF GcSwept
<1>12. CASE GcUnlock(p)
  <2>1. RootsMarked' /\ MarkingSound' /\ SweepSound'
    BY <1>3, <1>12 DEF GcUnlock, ClearGc, RootsMarked, MarkingSound, SweepSound
  <2>2. QED BY <1>5, <1>12, <2>1 DEF GcUnlock
\* The steps that delete.
<1>13. ASSUME NEW o \in objects, GcRemove(p, o) PROVE Contents'
  <2>1. RefsLinked' /\ NamedLinked' /\ EntriesSynced'
    BY <1>13 DEF GcRemove, RefsLinked, NamedLinked, Mapped, EntriesSynced
  <2>2. RootsMarked' /\ MarkingSound' /\ SweepSound'
    BY <1>3, <1>13 DEF GcRemove, RootsMarked, RootImages, RootStreams, MarkingSound, SweepSound, Needs
  <2>3. \A s \in streams : ObjectOf[s] \in live[p] => DataRefs[ObjectOf[s]] \subseteq live[p]
    BY <1>13 DEF GcRemove, SweepSound, Needs
  <2>4. \A i \in images : i \in live[p] => ImageObjects[i] \subseteq live[p]
    BY <1>13 DEF GcRemove, RootsMarked
  <2>5. EntriesPresent'
    BY <1>4, <1>13, <2>3, <2>4 DEF GcRemove, EntriesPresent, StreamPresent, ImagePresent
  <2>6. QED BY <1>2, <2>1, <2>2, <2>5
<1>14. CASE GcPruneImages(p)
  <2>1. RootImages(p) \subseteq images \cap objects
    <3>1. RootImages(p) \subseteq images \cap live[p]
      BY <1>14 DEF GcPruneImages, RootsMarked, RefsLinked, RootImages
    <3>2. QED BY <1>4, <1>14, <3>1 DEF ImagePresent
  <2>2. imageRefs' = imageRefs
    BY <1>14, <2>1 DEF GcPruneImages, RootImages
  <2>3. RootImages(p)' \subseteq RootImages(p) /\ RootStreams(p)' = RootStreams(p)
    BY <1>14, <2>2 DEF GcPruneImages, RootImages, RootStreams
  <2>4. RefsLinked' /\ NamedLinked' /\ EntriesSynced'
    BY <1>14, <2>1, <2>2 DEF GcPruneImages, RefsLinked, NamedLinked, Mapped, EntriesSynced, RootImages
  <2>5. RootsMarked' /\ MarkingSound' /\ SweepSound'
    BY <1>3, <1>14, <2>3 DEF GcPruneImages, RootsMarked, MarkingSound, SweepSound, Needs
  <2>6. EntriesPresent'
    BY <1>4, <1>14 DEF GcPruneImages, EntriesPresent, StreamPresent, ImagePresent
  <2>7. QED BY <1>2, <2>4, <2>5, <2>6
<1>15. CASE GcPruneStreams(p)
  <2>1. /\ objects \subseteq live[p] /\ images \subseteq objects
        /\ \A s \in streams : ObjectOf[s] \in live[p] => Needs(ObjectOf[s]) \subseteq live[p]
    BY <1>15 DEF GcPruneStreams, SweepSound
  <2>2. RootStreams(p) \subseteq Unbroken
    <3>1. \A s \in RootStreams(p) : s \in streams /\ ObjectOf[s] \in live[p]
      BY <1>15 DEF GcPruneStreams, RootsMarked, RefsLinked, RootStreams
    <3>2. QED BY <1>4, <1>15, <3>1 DEF StreamPresent, Unbroken
  <2>3. streamRefs' = streamRefs
    BY <1>15, <2>2 DEF GcPruneStreams, RootStreams
  <2>4. RootStreams(p)' \subseteq RootStreams(p) /\ RootImages(p)' = RootImages(p)
    BY <1>15, <2>3 DEF GcPruneStreams, RootImages, RootStreams, Unbroken
  <2>5. RefsLinked'
    BY <1>15, <2>2, <2>3 DEF GcPruneStreams, RefsLinked, RootStreams
  <2>6. \A s \in Unbroken : s \in streams /\ ObjectOf[s] \in live[p] /\ StreamPresent(s)
    BY <1>4, <2>1 DEF Unbroken
  <2>7. NamedLinked'
    <3>1. SUFFICES ASSUME NEW s \in Unbroken, NEW o \in NamedRefs[ObjectOf[s]]
                   PROVE  \E t \in Unbroken : ObjectOf[t] = o
      BY <1>15 DEF GcPruneStreams, NamedLinked, Mapped
    <3>2. PICK t \in streams : ObjectOf[t] = o
      BY <2>6 DEF NamedLinked, Mapped
    <3>3. ObjectOf[t] \in live[p]
      BY <2>1, <2>6, <3>2 DEF Needs
    <3>4. t \in Unbroken
      BY <1>4, <3>2, <3>3 DEF StreamPresent, Unbroken
    <3>5. QED BY <3>2, <3>4
  <2>8. EntriesSynced'
    BY <1>15 DEF GcPruneStreams, EntriesSynced, Unbroken
  <2>9. RootsMarked' /\ MarkingSound'
    BY <1>3, <1>15, <2>4 DEF GcPruneStreams, RootsMarked, MarkingSound
  <2>10. SweepSound'
    BY <1>3, <1>15, <2>1, <2>6 DEF GcPruneStreams, SweepSound, StreamPresent, Needs
  <2>11. EntriesPresent'
    <3>1. \A i \in images : ImagePresent(i)
      BY <1>4, <2>1
    <3>2. QED BY <1>15, <2>6, <3>1 DEF GcPruneStreams, EntriesPresent, StreamPresent, ImagePresent
  <2>12. QED BY <1>2, <2>5, <2>7, <2>8, <2>9, <2>10, <2>11
<1>16. QED
  BY <1>6, <1>7, <1>8, <1>9, <1>10, <1>11, <1>12, <1>13, <1>14, <1>15 DEF Collect

-------------------------------------------------------------------------------
(* The other steps, and the invariant *)

LEMMA ContentsLock ==
  ASSUME TypeInv, LocksHeld, Contents, NEW p \in Proc, GcLocked(p) \/ GcRelock(p)
  PROVE  Contents'
<1> USE DEF TypeInv, TypeOK, PC, StreamWrite, ImageWrite, Collecting, Marking, Sweeping, Waiting,
        Goto, disk, writeJob, gcJob
<1>1. CASE GcRelock(p)
  <2>1. KnownLinked' /\ WritesPrepared'
    BY <1>1 DEF GcRelock, Contents, Written, KnownLinked, WritesPrepared, StreamPresent, ImagePresent
  <2>2. QED BY <1>1, <2>1, DiskAndGcKept DEF GcRelock, Contents, Written, Collected
<1>2. CASE GcLocked(p)
  <2>1. \A q \in Proc \ {p} : pc[q] \in {"closed"} \cup Waiting
    BY <1>2 DEF GcLocked, NoneLocked, LocksHeld
  <2>2. KnownLinked' /\ WritesPrepared'
    BY <1>2 DEF GcLocked, Contents, Written, KnownLinked, WritesPrepared, StreamPresent, ImagePresent
  <2>3. RefsLinked' /\ NamedLinked' /\ EntriesSynced'
    BY <1>2 DEF GcLocked, Contents, Written, RefsLinked, NamedLinked, Mapped, EntriesSynced
  <2>4. EntriesPresent'
    BY <1>2, <2>1 DEF GcLocked, Contents, Written, EntriesPresent, StreamPresent, ImagePresent
  <2>5. RootsMarked' /\ MarkingSound' /\ SweepSound'
    BY <1>2, <2>1 DEF GcLocked, Contents, Collected, RootsMarked, MarkingSound, SweepSound
  <2>6. QED BY <2>2, <2>3, <2>4, <2>5 DEF Contents, Written, Collected
<1>3. QED BY <1>1, <1>2

LEMMA ContentsFail ==
  ASSUME TypeInv, LocksHeld, Contents, Faults = {}, NEW p \in Proc, Fail(p)
  PROVE  Contents'
<1> USE DEF TypeInv, TypeOK, PC, StreamWrite, ImageWrite, Collecting, Marking, Sweeping, Waiting,
        Goto, disk, writeJob, gcJob
<1>1. CASE WriteError(p)
  <2>1. KnownLinked' /\ WritesPrepared'
    BY <1>1 DEF WriteError, ClearWrite, Contents, Written, KnownLinked, WritesPrepared, StreamPresent,
                ImagePresent
  <2>2. QED BY <1>1, <2>1, DiskAndGcKept DEF WriteError, Contents, Written, Collected
<1>2. CASE Kill(p)
  <2>1. pc[p] \notin Sweeping /\ \A q \in Proc : pc'[q] \in Sweeping <=> pc[q] \in Sweeping
    BY <1>2 DEF Kill
  <2>2. KnownLinked' /\ WritesPrepared'
    BY <1>2 DEF Kill, ClearWrite, Contents, Written, KnownLinked, WritesPrepared, StreamPresent,
                ImagePresent
  <2>3. RefsLinked' /\ NamedLinked' /\ EntriesSynced'
    BY <1>2 DEF Kill, Contents, Written, RefsLinked, NamedLinked, Mapped, EntriesSynced
  <2>4. EntriesPresent'
    BY <1>2, <2>1 DEF Kill, ClearGc, Contents, Written, EntriesPresent, StreamPresent, ImagePresent
  <2>5. RootsMarked'
    BY <1>2 DEF Kill, ClearGc, Contents, Collected, RootsMarked, RootImages, RootStreams
  <2>6. MarkingSound' /\ SweepSound'
    BY <1>2 DEF Kill, ClearGc, Contents, Collected, MarkingSound, SweepSound, Needs
  <2>7. QED BY <2>2, <2>3, <2>4, <2>5, <2>6 DEF Contents, Written, Collected
<1>3. CASE GcIoError(p)
  BY <1>3 DEF GcIoError
<1>4. QED BY <1>1, <1>2, <1>3 DEF Fail

LEMMA ContentsStutter ==
  ASSUME Contents, UNCHANGED vars
  PROVE  Contents'
BY DEF Contents, Written, Collected, KnownLinked, RefsLinked, NamedLinked, Mapped, EntriesPresent,
       EntriesSynced, WritesPrepared, StreamPresent, ImagePresent, RootsMarked, RootImages,
       RootStreams, MarkingSound, SweepSound, vars, disk, writeJob, gcJob

LEMMA ContentsInit == Init => Contents
BY DEF Init, Contents, Written, Collected, KnownLinked, RefsLinked, NamedLinked, EntriesPresent,
       EntriesSynced, WritesPrepared, RootsMarked, MarkingSound, SweepSound, StreamWrite,
       ImageWrite, Collecting, Marking, Sweeping

LEMMA ContentsStep ==
  ASSUME TypeInv, LocksHeld, Contents, Faults = {}, [Next]_vars
  PROVE  Contents'
BY ContentsCall, ContentsWrite, ContentsCollect, ContentsLock, ContentsFail, ContentsStutter DEF Next

\* The invariant from which all the guarantees follow.
THEOREM Invariance ==
  ASSUME Faults = {}
  PROVE  Spec => []IInv
<1>1. Init => Contents
  BY ContentsInit
<1>2. TypeInv /\ LocksHeld /\ Contents /\ [Next]_vars => Contents'
  BY ContentsStep
<1>3. TypeInv /\ LocksHeld /\ Contents => IInv
  BY DEF TypeInv, Contents, Written, Collected, IInv
<1>4. QED
  BY <1>1, <1>2, <1>3, Typing, Locking, PTL DEF Spec

-------------------------------------------------------------------------------
(* From one link to everything behind it *)

\* A set of splitstreams that name each other only holds all a reader comes to.
LEMMA FollowsWithin ==
  ASSUME NEW T \in SUBSET Object, \A y \in T : NamedRefs[y] \subseteq T, NEW o \in T
  PROVE  Follows(o) \subseteq T
BY DEF Follows

\* So a set S of links, closed under naming, with the objects of each at hand in
\* D, has everything behind it in D.
LEMMA ContentWithin ==
  ASSUME NEW S \in SUBSET Stream, NEW D,
         \A s \in S : ObjectOf[s] \in D /\ DataRefs[ObjectOf[s]] \subseteq D,
         \A s \in S : \A o \in NamedRefs[ObjectOf[s]] : \E t \in S : ObjectOf[t] = o,
         NEW s \in S
  PROVE  Content[ObjectOf[s]] \subseteq D
<1> DEFINE T == {ObjectOf[t] : t \in S}
<1>1. T \subseteq Object /\ ObjectOf[s] \in T
  BY RepositoryConstants
<1>2. \A y \in T : NamedRefs[y] \subseteq T
  OBVIOUS
<1>3. Follows(ObjectOf[s]) \subseteq T
  BY <1>1, <1>2, FollowsWithin
<1>4. T \subseteq D /\ \A x \in T : DataRefs[x] \subseteq D
  OBVIOUS
<1>5. Content[ObjectOf[s]] = Follows(ObjectOf[s]) \cup UNION {DataRefs[x] : x \in Follows(ObjectOf[s])}
  BY <1>1 DEF Content
<1>6. QED
  BY <1>3, <1>4, <1>5

\* Whatever is available can be read in full, also in the middle of a sweep.
LEMMA AvailableReadable ==
  ASSUME IInv, NEW s \in Available
  PROVE  StreamReadable(s)
<1>1. Available \subseteq streams /\ Available \subseteq Stream
  BY DEF IInv, TypeOK, Available
<1>2. \A t \in Available : ObjectOf[t] \in objects /\ DataRefs[ObjectOf[t]] \subseteq objects
  BY DEF IInv, EntriesPresent, StreamPresent, Available
<1>3. \A t \in Available : \A o \in NamedRefs[ObjectOf[t]] : \E u \in Available : ObjectOf[u] = o
  <2>1. TAKE t \in Available
  <2>2. TAKE o \in NamedRefs[ObjectOf[t]]
  <2>3. PICK u \in streams : ObjectOf[u] = o
    BY <1>1 DEF IInv, NamedLinked, Mapped
  <2>4. \A p \in Proc : pc[p] \in Sweeping => o \in live[p]
    BY <1>1 DEF IInv, SweepSound, Needs, Available
  <2>5. QED BY <2>3, <2>4 DEF Available
<1>4. Content[ObjectOf[s]] \subseteq objects
  BY <1>1, <1>2, <1>3, ContentWithin
<1>5. QED BY <1>1, <1>4 DEF StreamReadable

LEMMA NoSweepAvailable ==
  ASSUME \A p \in Proc : pc[p] \notin Sweeping
  PROVE  Available = streams
BY DEF Available

LEMMA MarkedImageReadable ==
  ASSUME IInv, NEW i \in images, \A p \in Proc : pc[p] \in Sweeping => i \in live[p]
  PROVE  ImageReadable(i)
BY DEF IInv, EntriesPresent, ImagePresent, ImageReadable, ImageContent

\* A named stream or image can be read in full in every state, also in the
\* middle of a sweep: "any object reachable from a ref is protected from GC".
THEOREM RefsProtected ==
  ASSUME Faults = {}
  PROVE  Spec => []RootsIntact
<1>1. ASSUME IInv PROVE RootsIntact
  <2> USE <1>1 DEF IInv
  <2>1. ASSUME NEW n \in StreamRef, streamRefs[n] # None PROVE StreamReadable(streamRefs[n])
    <3>1. \A p \in Proc : pc[p] \in Sweeping => ObjectOf[streamRefs[n]] \in live[p]
      BY <2>1 DEF RootsMarked, RootStreams, Collecting, Sweeping
    <3>2. streamRefs[n] \in Available
      BY <2>1, <3>1 DEF Available, RefsLinked
    <3>3. QED BY <3>2, AvailableReadable
  <2>2. ASSUME NEW n \in ImageRef, imageRefs[n] # None PROVE ImageReadable(imageRefs[n])
    <3>1. \A p \in Proc : pc[p] \in Sweeping => imageRefs[n] \in live[p]
      BY <2>2 DEF RootsMarked, RootImages, Collecting, Sweeping
    <3>2. imageRefs[n] \in images
      BY <2>2 DEF RefsLinked
    <3>3. QED BY <3>1, <3>2, MarkedImageReadable
  <2>3. QED BY <2>1, <2>2 DEF RootsIntact
<1>2. QED BY <1>1, Invariance, PTL

\* Unless a sweep is going on, every entry of streams/ and images/ has all that it
\* needs, which is what has_stream and ensure_stream rely on.
THEOREM LinksTrusted ==
  ASSUME Faults = {}
  PROVE  Spec => []EntriesComplete
<1>1. ASSUME IInv PROVE EntriesComplete
  <2>1. SUFFICES ASSUME \A p \in Proc : pc[p] \notin Sweeping
                 PROVE  (\A s \in streams : StreamReadable(s)) /\ (\A i \in images : ImageReadable(i))
    BY DEF EntriesComplete
  <2>2. QED BY <1>1, <2>1, NoSweepAvailable, AvailableReadable, MarkedImageReadable
<1>2. QED BY <1>1, Invariance, PTL

\* Everything behind a visible stream has been flushed: the barrier that
\* write_stream puts between storing the objects and linking the stream.
THEOREM Barrier ==
  ASSUME Faults = {}
  PROVE  Spec => []PublishedSynced
<1>1. ASSUME IInv PROVE PublishedSynced
  <2> USE <1>1 DEF IInv
  <2> DEFINE D == Object \ unsynced
  <2>1. streams \subseteq Stream
    BY DEF TypeOK
  <2>2. \A t \in streams : ObjectOf[t] \in D /\ DataRefs[ObjectOf[t]] \subseteq D
    BY <2>1, RepositoryConstants DEF EntriesSynced
  <2>3. \A t \in streams : \A o \in NamedRefs[ObjectOf[t]] : \E u \in streams : ObjectOf[u] = o
    BY DEF NamedLinked, Mapped
  <2>4. \A s \in streams : Content[ObjectOf[s]] \subseteq D
    BY <2>1, <2>2, <2>3, ContentWithin
  <2>5. QED BY <2>4 DEF PublishedSynced
<1>2. QED BY <1>1, Invariance, PTL

\* A content identifier that a session was given an object for stays readable as
\* long as the session lasts: its shared lock keeps every sweep away.
THEOREM SessionsStable ==
  ASSUME Faults = {}
  PROVE  Spec => []SessionStable
<1>1. ASSUME IInv PROVE SessionStable
  <2>1. SUFFICES ASSUME NEW p \in Proc, NEW s \in known[p] PROVE StreamReadable(s)
    BY DEF SessionStable
  <2>2. pc[p] \in Using /\ s \in streams
    BY <1>1 DEF IInv, KnownLinked, Using
  <2>3. \A q \in Proc : pc[q] \notin Collecting
    BY <1>1, <2>2, NobodyCollects DEF IInv, TypeInv
  <2>4. QED BY <1>1, <2>2, <2>3, NoSweepAvailable, AvailableReadable DEF Collecting
<1>2. QED BY <1>1, Invariance, PTL

-------------------------------------------------------------------------------
(***************************************************************************)
(* What a collection takes away, whatever fails: a sweep that was killed   *)
(* or gave up has left streams without their objects, and anything may be  *)
(* named.  What is left of IInv is what SpareInv says.                     *)
(***************************************************************************)

\* A stream is only written that names streams which the session knows, and named
\* once it is there.
WritesKnown ==
  \A p \in Proc :
    /\ pc[p] \in {"store", "sync", "link"} =>
         NamedRefs[ObjectOf[item[p]]] \subseteq {ObjectOf[t] : t \in known[p]}
    /\ pc[p] \in {"ref", "reref"} => item[p] \in streams

\* The roots of a gc that has looked at them are there and marked, with all of an image.
RootsFound ==
  \A p \in Proc :
    /\ pc[p] \in {"gc_streams", "gc_walk"} \cup Sweeping => \A i \in RootImages(p) :
         i \in images /\ i \in objects /\ i \in live[p] /\ ImageObjects[i] \subseteq live[p]
    /\ pc[p] \in {"gc_walk"} \cup Sweeping =>
         \A s \in RootStreams(p) : s \in streams /\ ObjectOf[s] \in live[p]

\* A stream that is walked is there, and so is, once the marking is done, each that is marked.
WalkedFound ==
  \A p \in Proc :
    /\ pc[p] = "gc_walk" => \A s \in walked[p] : ObjectOf[s] \in objects
    /\ pc[p] \in Sweeping => \A s \in streams : ObjectOf[s] \in live[p] =>
         ObjectOf[s] \in objects /\ Needs(ObjectOf[s]) \subseteq live[p]
    /\ pc[p] \in {"gc_prune_images", "gc_prune_streams"} => objects \subseteq live[p]

LinksSound == KnownLinked /\ NamedLinked /\ WritesKnown
Marks == RootsFound /\ MarkingSound /\ WalkedFound

SpareInv == TypeInv /\ LocksHeld /\ LinksSound /\ Marks

\* A step that leaves each gc that goes on alone, and what the gc looks at.
LEMMA MarksKept ==
  ASSUME Marks, UNCHANGED disk,
         \A q \in Proc : pc'[q] \in Collecting \ {"gc_images"} =>
           /\ pc'[q] = pc[q] /\ extra'[q] = extra[q]
           /\ live'[q] = live[q] /\ walk'[q] = walk[q] /\ walked'[q] = walked[q],
         \A q \in Proc : pc'[q] \notin Collecting \ {"gc_images"} => walked'[q] = {}
  PROVE  Marks'
<1> USE DEF Marks, Collecting, Marking, Sweeping, disk
<1>1. \A q \in Proc : pc'[q] \in Collecting \ {"gc_images"} =>
         RootImages(q)' = RootImages(q) /\ RootStreams(q)' = RootStreams(q)
  BY DEF RootImages, RootStreams
<1>2. RootsFound'
  BY <1>1 DEF RootsFound
<1>3. MarkingSound'
  BY DEF MarkingSound, Needs
<1>4. WalkedFound'
  BY DEF WalkedFound, Needs
<1>5. QED BY <1>2, <1>3, <1>4

\* Without a gc there is nothing to mark.
LEMMA MarksAbsent ==
  ASSUME \A q \in Proc : pc'[q] \notin Collecting /\ walked'[q] = {}
  PROVE  Marks'
BY DEF Marks, RootsFound, MarkingSound, WalkedFound, Collecting, Marking, Sweeping

LEMMA NothingWalked ==
  ASSUME Marks, NEW q \in Proc, pc[q] \notin Collecting \ {"gc_images"}
  PROVE  walked[q] = {}
BY DEF Marks, MarkingSound, Collecting, Marking, Sweeping

LEMMA SpareCall ==
  ASSUME TypeInv, LocksHeld, LinksSound, Marks, NEW p \in Proc, Call(p)
  PROVE  LinksSound' /\ Marks'
<1> USE DEF TypeInv, TypeOK, JobsTyped, PC, StreamWrite, ImageWrite, Collecting, Marking, Sweeping,
        Waiting, Goto, disk, writeJob, gcJob
<1>1. /\ UNCHANGED <<objects, unsynced, streams, images, imageRefs, live, walk, walked>>
      /\ pc[p] \notin Collecting
      /\ \E l \in PC \ Collecting : Goto(p, l) \/ UNCHANGED pc
  BY DEF Call, open_path, drop, has_stream, ensure_stream, EnsureFound, BeginStream, write_stream,
         name_stream, write_image, gc, gc_dry_run
<1>2. \A q \in Proc : pc[q] \in Collecting => extra'[q] = extra[q]
  BY DEF Call, open_path, drop, has_stream, ensure_stream, EnsureFound, BeginStream, write_stream,
         name_stream, write_image, gc, gc_dry_run
<1>3. \A q \in Proc : pc[q] \notin Collecting \ {"gc_images"} => walked'[q] = {}
  BY <1>1, NothingWalked
<1>4. Marks'
  <2>1. CASE UNCHANGED streamRefs
    <3>1. \A q \in Proc : pc'[q] \in Collecting => pc'[q] = pc[q]
      BY <1>1
    <3>2. \A q \in Proc : pc[q] \in Collecting => pc'[q] = pc[q]
      BY <1>1
    <3>3. QED BY <1>1, <1>2, <1>3, <2>1, <3>1, <3>2, MarksKept
  <2>2. CASE \E s \in Stream, n \in StreamRef : name_stream(p, s, n)
    <3>1. \A q \in Proc : pc[q] \notin Collecting
      BY <2>2, NobodyCollects DEF name_stream, Using
    <3>2. UNCHANGED pc
      BY <2>2 DEF name_stream
    <3>3. QED BY <1>3, <3>1, <3>2, MarksAbsent
  <2>3. UNCHANGED streamRefs \/ \E s \in Stream, n \in StreamRef : name_stream(p, s, n)
    BY DEF Call, open_path, drop, has_stream, ensure_stream, EnsureFound, BeginStream, write_stream,
           write_image, gc, gc_dry_run
  <2>4. QED BY <2>1, <2>2, <2>3
<1>5. NamedLinked'
  BY <1>1 DEF LinksSound, NamedLinked, Mapped
<1> USE DEF LinksSound, KnownLinked, WritesKnown
<1>6. KnownLinked' /\ WritesKnown'
  <2>1. CASE open_path(p)
    BY <2>1 DEF open_path
  <2>2. CASE drop(p)
    BY <2>2 DEF drop
  <2>3. ASSUME NEW s \in Stream, has_stream(p, s) PROVE KnownLinked' /\ WritesKnown'
    BY <2>3 DEF has_stream
  <2>4. ASSUME NEW s \in Stream, NEW n \in StreamRef \cup {None}, ensure_stream(p, s, n)
        PROVE KnownLinked' /\ WritesKnown'
    <3>1. CASE EnsureFound(p, s, n)
      BY <2>4, <3>1 DEF ensure_stream, EnsureFound
    <3>2. CASE BeginStream(p, s, n, TRUE)
      BY <2>4, <3>2 DEF ensure_stream, BeginStream
    <3>3. QED BY <2>4, <3>1, <3>2 DEF ensure_stream
  <2>5. ASSUME NEW s \in Stream, NEW n \in StreamRef \cup {None}, write_stream(p, s, n)
        PROVE KnownLinked' /\ WritesKnown'
    BY <2>5 DEF write_stream, BeginStream
  <2>6. ASSUME NEW s \in Stream, NEW n \in StreamRef, name_stream(p, s, n)
        PROVE KnownLinked' /\ WritesKnown'
    BY <2>6 DEF name_stream
  <2>7. ASSUME NEW i \in Image, NEW n \in ImageRef \cup {None}, write_image(p, i, n)
        PROVE KnownLinked' /\ WritesKnown'
    BY <2>7 DEF write_image
  <2>8. ASSUME NEW roots \in RootSets, gc(p, roots) PROVE KnownLinked' /\ WritesKnown'
    BY <2>8 DEF gc
  <2>9. CASE gc_dry_run(p)
    BY <2>9 DEF gc_dry_run
  <2>10. QED BY <2>1, <2>2, <2>3, <2>4, <2>5, <2>6, <2>7, <2>8, <2>9 DEF Call
<1>7. QED BY <1>4, <1>5, <1>6

LEMMA SpareWrite ==
  ASSUME TypeInv, LocksHeld, LinksSound, Marks, NEW p \in Proc, Write(p)
  PROVE  LinksSound' /\ Marks'
<1> USE DEF TypeInv, TypeOK, JobsTyped, PC, StreamWrite, ImageWrite, Collecting, Marking, Sweeping,
        Waiting, Goto, disk, writeJob, gcJob
<1>1. pc[p] \in Using /\ UNCHANGED gcJob
  BY DEF Using, Write, ensure_object, WriterDone, sync, LinkStream, LinkRef, EnsureRef, Return,
         StoreImage, LinkImage, LinkImageRef
<1>2. \A q \in Proc : pc[q] \notin Collecting
  BY <1>1, NobodyCollects
<1>3. \E l \in Using : Goto(p, l) \/ UNCHANGED pc
  BY DEF Using, Write, ensure_object, WriterDone, sync, LinkStream, LinkRef, EnsureRef, Return,
         StoreImage, LinkImage, LinkImageRef
<1>4. \A q \in Proc : pc'[q] \notin Collecting
  BY <1>2, <1>3 DEF Using
<1>5. Marks'
  BY <1>1, <1>2, <1>4, NothingWalked, MarksAbsent
<1> USE DEF LinksSound, KnownLinked, WritesKnown
<1>6. CASE (\E o \in todo[p] : ensure_object(p, o)) \/ WriterDone(p) \/ sync(p)
  <2>1. UNCHANGED <<streams, known, item>> /\ \A q \in Proc \ {p} : pc'[q] = pc[q]
    BY <1>6 DEF ensure_object, WriterDone, sync, AddObject
  <2>2. (pc[p] \in {"store", "sync"} /\ pc'[p] \in {"store", "sync", "link"})
        \/ (pc[p] \in ImageWrite /\ pc'[p] = pc[p])
    BY <1>6 DEF ensure_object, WriterDone, sync
  <2>3. NamedLinked'
    BY <2>1 DEF NamedLinked, Mapped
  <2>4. QED BY <1>5, <2>1, <2>2, <2>3
<1>7. CASE LinkStream(p)
  <2>1. /\ item[p] \in Stream
        /\ NamedRefs[ObjectOf[item[p]]] \subseteq {ObjectOf[t] : t \in known[p]}
    BY <1>7 DEF LinkStream
  <2>2. streams' = streams \cup {item[p]}
    BY <1>7 DEF LinkStream
  <2>3. known[p] \subseteq streams /\ \A q \in Proc \ {p} : pc'[q] = pc[q]
    BY <1>7 DEF LinkStream, Return
  <2>4. NamedLinked'
    <3>1. \A o \in NamedRefs[ObjectOf[item[p]]] : \E t \in streams : ObjectOf[t] = o
      BY <2>1, <2>3
    <3>2. QED BY <2>2, <3>1 DEF NamedLinked, Mapped
  <2>5. \A q \in Proc \ {p} : item'[q] = item[q] /\ known'[q] = known[q]
    BY <1>7 DEF LinkStream, Return, ClearWrite
  <2>6. \/ pc'[p] = "idle" /\ known'[p] = known[p] \cup {item[p]}
        \/ pc'[p] = "ref" /\ UNCHANGED <<item, known>>
    BY <1>7 DEF LinkStream, Return
  <2>7. KnownLinked'
    BY <1>7, <2>2, <2>3, <2>5, <2>6 DEF LinkStream
  <2>8. WritesKnown'
    BY <2>2, <2>3, <2>5, <2>6
  <2>9. QED BY <1>5, <2>4, <2>7, <2>8
<1>8. CASE LinkRef(p) \/ EnsureRef(p)
  <2>1. item[p] \in streams /\ UNCHANGED streams
    BY <1>8 DEF LinkRef, EnsureRef
  <2>2. NamedLinked'
    BY <2>1 DEF NamedLinked, Mapped
  <2>3. \A q \in Proc \ {p} : pc'[q] = pc[q] /\ item'[q] = item[q] /\ known'[q] = known[q]
    BY <1>8 DEF LinkRef, EnsureRef, Return, ClearWrite
  <2>4. \/ pc'[p] = "idle" /\ known'[p] = known[p] \cup {item[p]}
        \/ pc'[p] = "reref" /\ UNCHANGED <<item, known>>
    BY <1>8 DEF LinkRef, EnsureRef, Return
  <2>5. KnownLinked'
    BY <1>8, <2>1, <2>3, <2>4 DEF LinkRef, EnsureRef
  <2>6. WritesKnown'
    BY <2>1, <2>3, <2>4
  <2>7. QED BY <1>5, <2>2, <2>5, <2>6
<1>9. CASE StoreImage(p) \/ LinkImage(p) \/ LinkImageRef(p)
  <2>1. UNCHANGED <<streams, known>> /\ pc[p] \in ImageWrite
        /\ pc'[p] \in {"idle", "img_link", "img_ref"}
        /\ \A q \in Proc \ {p} : pc'[q] = pc[q] /\ item'[q] = item[q]
    BY <1>9 DEF StoreImage, LinkImage, LinkImageRef, AddObject, ClearWrite
  <2>2. NamedLinked'
    BY <2>1 DEF NamedLinked, Mapped
  <2>3. QED BY <1>5, <2>1, <2>2
<1>10. QED BY <1>6, <1>7, <1>8, <1>9 DEF Write

\* A step of gc disturbs no session and no write: there is none.
LEMMA NobodyKnows ==
  ASSUME TypeInv, LocksHeld, KnownLinked, NEW p \in Proc, pc[p] \in Collecting,
         NEW l \in Collecting \cup {"idle", "gc_relock"},
         Goto(p, l) \/ UNCHANGED pc, UNCHANGED <<known, writeJob>>
  PROVE  KnownLinked' /\ WritesKnown'
<1>1. \A q \in Proc : pc'[q] \notin StreamWrite \cup ImageWrite
  BY CollectorAlone DEF TypeInv, TypeOK, Goto, PC, StreamWrite, ImageWrite, Collecting, Marking,
     Sweeping, Waiting
<1>2. \A q \in Proc : known[q] = {}
  BY CollectorAlone DEF KnownLinked, TypeInv, TypeOK, PC, StreamWrite, ImageWrite,
     Collecting, Marking, Sweeping, Waiting
<1>3. QED BY <1>1, <1>2 DEF KnownLinked, WritesKnown, StreamWrite, writeJob

LEMMA SpareCollect ==
  ASSUME TypeInv, LocksHeld, LinksSound, Marks, NEW p \in Proc, Collect(p)
  PROVE  LinksSound' /\ Marks'
<1> USE RepositoryConstants, NoAliasing DEF TypeInv, TypeOK, PC, Collecting, Marking, Sweeping,
        Goto, disk, writeJob, gcJob
<1>1. /\ pc[p] \in Collecting
      /\ UNCHANGED <<known, writeJob>>
      /\ \E l \in Collecting \cup {"idle", "gc_relock"} : Goto(p, l) \/ UNCHANGED pc
      /\ \A q \in Proc \ {p} : walked'[q] = walked[q]
  BY DEF Collect, GcImages, GcStreams, GcMarkError, GcMarked, walk_streams, GcRemove, GcSwept,
         GcPruneImages, GcPruneStreams, GcUnlock, ClearGc
<1>2. KnownLinked' /\ WritesKnown'
  BY <1>1, NobodyKnows DEF LinksSound
<1>3. \A q \in Proc \ {p} : pc'[q] = pc[q] /\ pc'[q] \notin Collecting
  BY <1>1, GcFrame
<1>4. \A q \in Proc \ {p} : walked'[q] = {}
  BY <1>1, <1>3, NothingWalked
<1> USE DEF LinksSound, Marks
<1>5. ASSUME UNCHANGED streams, RootsFound', MarkingSound', WalkedFound'
      PROVE  LinksSound' /\ Marks'
  <2>1. NamedLinked'
    BY <1>5 DEF NamedLinked, Mapped
  <2>2. QED BY <1>2, <1>5, <2>1
<1>6. CASE GcImages(p)
  <2>1. RootImages(p)' = RootImages(p)
    BY <1>6 DEF GcImages, RootImages
  <2>2. RootsFound'
    BY <1>3, <1>6, <2>1 DEF GcImages, RootsFound
  <2>3. MarkingSound'
    BY <1>3, <1>4, <1>6 DEF GcImages, MarkingSound, RootImages, StreamObjects
  <2>4. WalkedFound'
    BY <1>3, <1>6 DEF GcImages, WalkedFound
  <2>5. QED BY <1>5, <1>6, <2>2, <2>3, <2>4 DEF GcImages
<1>7. CASE GcStreams(p)
  <2>1. RootStreams(p) \subseteq streams
    BY <1>7 DEF GcStreams
  <2>2. RootStreams(p)' = RootStreams(p) /\ RootImages(p)' = RootImages(p)
    BY <1>7 DEF GcStreams, RootStreams, RootImages
  <2>3. live' = [live EXCEPT ![p] = live[p] \cup {ObjectOf[s] : s \in RootStreams(p)}]
    BY <1>7 DEF GcStreams
  <2>4. RootsFound'
    BY <1>3, <1>7, <2>1, <2>2, <2>3 DEF GcStreams, RootsFound
  <2>5. MarkingSound'
    BY <1>3, <1>4, <1>7, <2>1, <2>3 DEF GcStreams, MarkingSound, StreamObjects
  <2>6. WalkedFound'
    BY <1>3, <1>7 DEF GcStreams, WalkedFound, MarkingSound
  <2>7. QED BY <1>5, <1>7, <2>4, <2>5, <2>6 DEF GcStreams
<1>8. CASE GcMarkError(p) \/ GcUnlock(p)
  <2>1. walked'[p] = {} /\ pc'[p] \notin Collecting
    BY <1>8 DEF GcMarkError, GcUnlock, ClearGc
  <2>2. Marks'
    BY <1>3, <1>4, <2>1, MarksAbsent
  <2>3. QED BY <1>5, <1>8, <2>2 DEF GcMarkError, GcUnlock
<1>9. CASE GcMarked(p)
  <2>1. RootsFound'
    BY <1>3, <1>9 DEF GcMarked, RootsFound, RootImages, RootStreams
  <2>2. MarkingSound'
    BY <1>3, <1>4, <1>9 DEF GcMarked, MarkingSound
  <2>3. \A s \in streams : ObjectOf[s] \in live[p] =>
           ObjectOf[s] \in objects /\ Needs(ObjectOf[s]) \subseteq live[p]
    <3>1. SUFFICES ASSUME NEW s \in streams, ObjectOf[s] \in live[p]
                   PROVE  ObjectOf[s] \in objects /\ Needs(ObjectOf[s]) \subseteq live[p]
      OBVIOUS
    <3>2. PICK t \in walked[p] : ObjectOf[t] = ObjectOf[s]
      BY <1>9, <3>1 DEF GcMarked, MarkingSound, StreamObjects
    <3>3. QED BY <1>9, <3>2 DEF GcMarked, MarkingSound, WalkedFound
  <2>4. WalkedFound'
    BY <1>3, <1>9, <2>3 DEF GcMarked, WalkedFound, Needs
  <2>5. QED BY <1>5, <1>9, <2>1, <2>2, <2>4 DEF GcMarked
<1>10. ASSUME NEW s \in walk[p], walk_streams(p, s) PROVE LinksSound' /\ Marks'
  <2> DEFINE o == ObjectOf[s]
             next == {NameOf(r) : r \in {x \in NamedRefs[o] : Mapped(x)}}
  <2>1. s \in Stream /\ s \in streams /\ o \in StreamObjects /\ o \in Object
    BY <1>10 DEF walk_streams, MarkingSound, StreamObjects
  <2>2. /\ live' = [live EXCEPT ![p] = live[p] \cup Needs(o)]
        /\ walked' = [walked EXCEPT ![p] = walked[p] \cup {s}]
        /\ walk' = [walk EXCEPT ![p] = (walk[p] \cup next) \ (walked[p] \cup {s})]
        /\ pc[p] = "gc_walk" /\ UNCHANGED <<disk, pc, extra>> /\ o \in objects
    BY <1>10 DEF walk_streams
  <2>3. next \subseteq streams /\ \A r \in NamedRefs[o] : \E t \in next : ObjectOf[t] = r
    BY <2>1, NameOfMapped DEF NamedLinked
  <2>4. Needs(o) \cap StreamObjects = NamedRefs[o]
    BY <2>1 DEF Needs
  <2> HIDE DEF next, o
  <2>5. RootsFound'
    BY <1>3, <2>2 DEF RootsFound, RootImages, RootStreams
  <2>6. /\ walk'[p] \cup walked'[p] = walk[p] \cup walked[p] \cup next
        /\ live'[p] = live[p] \cup Needs(o)
    BY <2>2
  <2>7. \A r \in live'[p] \cap StreamObjects : \E t \in walk'[p] \cup walked'[p] : ObjectOf[t] = r
    BY <2>2, <2>3, <2>4, <2>6 DEF MarkingSound
  <2>8. \A t \in walked'[p] : Needs(ObjectOf[t]) \subseteq live'[p]
    BY <2>2, <2>6 DEF MarkingSound, o
  <2>9. walk'[p] \cup walked'[p] \subseteq streams
    BY <2>2, <2>3, <2>6 DEF MarkingSound
  <2>10. MarkingSound'
    BY <1>3, <1>4, <2>2, <2>7, <2>8, <2>9 DEF MarkingSound, Needs
  <2>11. WalkedFound'
    BY <1>3, <2>2 DEF WalkedFound, o
  <2>12. QED BY <1>5, <2>2, <2>5, <2>10, <2>11
<1>11. CASE GcSwept(p)
  <2>1. RootsFound' /\ MarkingSound' /\ WalkedFound'
    BY <1>3, <1>4, <1>11 DEF GcSwept, RootsFound, RootImages, RootStreams, MarkingSound, WalkedFound, Needs
  <2>2. QED BY <1>5, <1>11, <2>1 DEF GcSwept
<1>12. ASSUME NEW o \in objects, GcRemove(p, o) PROVE LinksSound' /\ Marks'
  <2>1. RootsFound' /\ MarkingSound' /\ WalkedFound'
    BY <1>3, <1>4, <1>12 DEF GcRemove, RootsFound, RootImages, RootStreams, MarkingSound, WalkedFound, Needs
  <2>2. QED BY <1>5, <1>12, <2>1 DEF GcRemove
<1>13. CASE GcPruneImages(p)
  <2>1. RootImages(p) \subseteq images \cap objects
    BY <1>13 DEF GcPruneImages, RootsFound
  <2>2. RootImages(p)' \subseteq RootImages(p) /\ RootStreams(p)' = RootStreams(p)
    BY <1>13 DEF GcPruneImages, RootImages, RootStreams
  <2>3. RootsFound'
    BY <1>3, <1>13, <2>1, <2>2 DEF GcPruneImages, RootsFound
  <2>4. MarkingSound' /\ WalkedFound'
    BY <1>3, <1>4, <1>13 DEF GcPruneImages, MarkingSound, WalkedFound, Needs
  <2>5. QED BY <1>5, <1>13, <2>3, <2>4 DEF GcPruneImages
<1>14. CASE GcPruneStreams(p)
  <2>1. /\ objects \subseteq live[p]
        /\ \A s \in streams : ObjectOf[s] \in live[p] =>
             ObjectOf[s] \in objects /\ Needs(ObjectOf[s]) \subseteq live[p]
    BY <1>14 DEF GcPruneStreams, WalkedFound
  <2>2. NamedLinked'
    <3>1. SUFFICES ASSUME NEW s \in Unbroken, NEW o \in NamedRefs[ObjectOf[s]]
                   PROVE  \E t \in Unbroken : ObjectOf[t] = o
      BY <1>14 DEF GcPruneStreams, NamedLinked, Mapped
    <3>2. PICK t \in streams : ObjectOf[t] = o
      BY DEF NamedLinked, Mapped, Unbroken
    <3>3. Needs(ObjectOf[s]) \subseteq live[p]
      BY <2>1 DEF Unbroken
    <3>4. t \in Unbroken
      BY <2>1, <3>2, <3>3 DEF Unbroken, Needs
    <3>5. QED BY <3>2, <3>4
  <2>3. Marks'
    BY <1>3, <1>4, <1>14 DEF GcPruneStreams, RootsFound, MarkingSound, WalkedFound
  <2>4. QED BY <1>2, <2>2, <2>3
<1>15. QED
  BY <1>6, <1>7, <1>8, <1>9, <1>10, <1>11, <1>12, <1>13, <1>14 DEF Collect

LEMMA SpareOther ==
  ASSUME TypeInv, LocksHeld, LinksSound, Marks, NEW p \in Proc,
         GcLocked(p) \/ GcRelock(p) \/ Fail(p)
  PROVE  LinksSound' /\ Marks'
<1> USE DEF TypeInv, TypeOK, PC, StreamWrite, ImageWrite, Collecting, Marking, Sweeping, Waiting,
        Goto, disk, writeJob, gcJob
<1>1. /\ UNCHANGED disk
      /\ pc'[p] \in {"gc_images", "idle", "closed"}
      /\ known'[p] \in {known[p], {}}
      /\ \A q \in Proc \ {p} : pc'[q] = pc[q] /\ known'[q] = known[q] /\ item'[q] = item[q]
      /\ \A q \in Proc \ {p} : extra'[q] = extra[q] /\ live'[q] = live[q] /\ walk'[q] = walk[q]
      /\ \A q \in Proc \ {p} : walked'[q] = walked[q]
  BY DEF GcLocked, GcRelock, Fail, Kill, WriteError, GcIoError, ClearWrite, ClearGc
<1>2. walked'[p] = {}
  BY NothingWalked DEF GcLocked, GcRelock, Fail, Kill, WriteError, GcIoError, ClearGc
<1>3. \A q \in Proc \ {p} : pc[q] \notin Collecting \ {"gc_images"} => walked'[q] = {}
  BY <1>1, NothingWalked
<1>4. Marks'
  BY <1>1, <1>2, <1>3, MarksKept
<1>5. known'[p] = {} \/ (pc'[p] = "idle" /\ known'[p] = known[p])
  BY DEF GcLocked, GcRelock, Fail, Kill, WriteError, GcIoError, LinksSound, KnownLinked
<1>6. KnownLinked' /\ WritesKnown'
  BY <1>1, <1>5 DEF LinksSound, KnownLinked, WritesKnown
<1>7. NamedLinked'
  BY <1>1 DEF LinksSound, NamedLinked, Mapped
<1>8. QED BY <1>4, <1>6, <1>7 DEF LinksSound

LEMMA SpareStep ==
  ASSUME TypeInv, LocksHeld, LinksSound, Marks, [Next]_vars
  PROVE  LinksSound' /\ Marks'
<1>1. CASE UNCHANGED vars
  BY <1>1 DEF vars, disk, writeJob, gcJob, LinksSound, KnownLinked, NamedLinked, Mapped, WritesKnown,
     Marks, RootsFound, RootImages, RootStreams, MarkingSound, WalkedFound, Needs
<1>2. CASE Next
  BY <1>2, SpareCall, SpareWrite, SpareCollect, SpareOther DEF Next
<1>3. QED BY <1>1, <1>2

\* The invariant of a repository in which anything of Faults may happen.
THEOREM InvarianceWithFaults == Spec => []SpareInv
<1>1. Init => LinksSound /\ Marks
  BY DEF Init, LinksSound, KnownLinked, NamedLinked, WritesKnown, Marks, RootsFound, MarkingSound,
     WalkedFound, Sweeping
<1>2. TypeInv /\ LocksHeld /\ LinksSound /\ Marks /\ [Next]_vars => LinksSound' /\ Marks'
  BY SpareStep
<1>3. TypeInv /\ LocksHeld /\ LinksSound /\ Marks => SpareInv
  BY DEF SpareInv
<1>4. QED BY <1>1, <1>2, <1>3, Typing, Locking, PTL DEF Spec

-------------------------------------------------------------------------------
(* Pruning takes no link that a root uses *)

LEMMA PrunedImages ==
  ASSUME SpareInv, NEW p \in Proc, GcPruneImages(p)
  PROVE  /\ \A n \in ImageRef : imageRefs[n] # None => imageRefs[n] \in images \cap objects
         /\ RootImages(p) \subseteq images \cap objects
<1>1. \A i \in RootImages(p) : i \in images /\ i \in objects
  BY DEF GcPruneImages, SpareInv, Marks, RootsFound, Sweeping
<1>2. QED BY <1>1 DEF RootImages

LEMMA PrunedStreams ==
  ASSUME SpareInv, NEW p \in Proc, GcPruneStreams(p)
  PROVE  /\ \A n \in StreamRef : streamRefs[n] # None => streamRefs[n] \in Unbroken
         /\ RootStreams(p) \subseteq Unbroken
<1>1. \A s \in RootStreams(p) : s \in streams /\ ObjectOf[s] \in live[p]
  BY DEF GcPruneStreams, SpareInv, Marks, RootsFound, Sweeping
<1>2. \A s \in RootStreams(p) : ObjectOf[s] \in objects
  BY <1>1 DEF GcPruneStreams, SpareInv, Marks, WalkedFound, Sweeping
<1>3. RootStreams(p) \subseteq Unbroken
  BY <1>1, <1>2 DEF Unbroken
<1>4. QED BY <1>3 DEF RootStreams

\* Whatever went wrong before, a sweep deletes nothing that a name leads to.
THEOREM RootsSpared == Spec => SweepSparesRoots
<1> DEFINE Spared(o) ==
       /\ \A n \in StreamRef : streamRefs[n] # None => o \notin Content[ObjectOf[streamRefs[n]]]
       /\ \A n \in ImageRef : imageRefs[n] # None => o \notin ImageContent(imageRefs[n])
<1>1. ASSUME SpareInv, [Next]_vars PROVE [\A o \in objects \ objects' : Spared(o)]_vars
  <2> USE <1>1
  <2>1. ASSUME NEW p \in Proc, NEW o \in objects, GcRemove(p, o) PROVE Spared(o)
    <3>1. pc[p] \in Sweeping /\ o \notin live[p]
      BY <2>1 DEF GcRemove, Sweeping
    <3>2. ASSUME NEW n \in StreamRef, streamRefs[n] # None PROVE o \notin Content[ObjectOf[streamRefs[n]]]
      <4> DEFINE S == {s \in streams : ObjectOf[s] \in live[p]}
      <4>1. streamRefs[n] \in S
        BY <3>1, <3>2 DEF SpareInv, Marks, RootsFound, RootStreams
      <4>2. \A s \in S : Needs(ObjectOf[s]) \subseteq live[p]
        BY <3>1 DEF SpareInv, Marks, WalkedFound
      <4>3. \A s \in S : \A x \in NamedRefs[ObjectOf[s]] : \E t \in S : ObjectOf[t] = x
        BY <4>2 DEF SpareInv, LinksSound, NamedLinked, Mapped, Needs
      <4>4. S \subseteq Stream /\ \A s \in S : ObjectOf[s] \in live[p]
        BY DEF SpareInv, TypeInv, TypeOK
      <4>5. \A s \in S : ObjectOf[s] \in live[p] /\ DataRefs[ObjectOf[s]] \subseteq live[p]
        BY <4>2, <4>4 DEF Needs
      <4> HIDE DEF S
      <4>6. Content[ObjectOf[streamRefs[n]]] \subseteq live[p]
        BY <4>1, <4>3, <4>4, <4>5, ContentWithin
      <4>7. QED BY <3>1, <4>6
    <3>3. ASSUME NEW n \in ImageRef, imageRefs[n] # None PROVE o \notin ImageContent(imageRefs[n])
      BY <3>1, <3>3 DEF SpareInv, Marks, RootsFound, RootImages, ImageContent
    <3>4. QED BY <3>2, <3>3
  <2>2. ASSUME NEW p \in Proc, Collect(p), ~\E o \in objects : GcRemove(p, o) PROVE objects' = objects
    BY <2>2 DEF Collect, GcImages, GcStreams, GcMarkError, GcMarked, walk_streams, GcSwept,
       GcPruneImages, GcPruneStreams, GcUnlock, disk
  <2>3. ASSUME NEW p \in Proc, Call(p) \/ Write(p) \/ GcLocked(p) \/ GcRelock(p) \/ Fail(p)
        PROVE  objects \subseteq objects'
    BY <2>3 DEF Call, open_path, drop, has_stream, ensure_stream, EnsureFound, BeginStream, write_stream,
       name_stream, write_image, gc, gc_dry_run, Write, ensure_object, AddObject, WriterDone, sync,
       LinkStream, LinkRef, EnsureRef, StoreImage, LinkImage, LinkImageRef, GcLocked, GcRelock, Fail,
       Kill, WriteError, GcIoError, disk
  <2>4. ASSUME NEW o \in objects, objects' = objects \ {o}, Spared(o)
        PROVE  \A x \in objects \ objects' : Spared(x)
    BY <2>4
  <2> HIDE DEF Spared
  <2>5. ASSUME NEW p \in Proc, Collect(p) PROVE \A o \in objects \ objects' : Spared(o)
    <3>1. CASE \E o \in objects : GcRemove(p, o)
      <4>1. PICK o \in objects : GcRemove(p, o)
        BY <3>1
      <4>2. objects' = objects \ {o}
        BY <4>1 DEF GcRemove
      <4>3. QED BY <2>1, <4>1, <4>2
    <3>2. CASE ~\E o \in objects : GcRemove(p, o)
      BY <2>2, <2>5, <3>2
    <3>3. QED BY <3>1, <3>2
  <2>6. QED BY <2>3, <2>5 DEF Next
<1>2. QED BY <1>1, InvarianceWithFaults, PTL DEF Spec, SweepSparesRoots

\* No step takes a name away: gc's removal of broken refs never finds one, whatever
\* went wrong before.
THEOREM NamesKept == Spec => NamesNeverLost
<1> DEFINE Kept == /\ \A n \in StreamRef : streamRefs[n] # None => streamRefs'[n] # None
                   /\ \A n \in ImageRef : imageRefs[n] # None => imageRefs'[n] # None
<1>1. ASSUME SpareInv, [Next]_vars PROVE [Kept]_vars
  <2> USE <1>1
  <2>1. CASE UNCHANGED vars
    BY <2>1
  <2>2. ASSUME NEW p \in Proc, Call(p) PROVE Kept
    <3>1. UNCHANGED disk \/ \E s \in Stream, n \in StreamRef : name_stream(p, s, n)
      BY <2>2 DEF Call, open_path, drop, has_stream, ensure_stream, EnsureFound, BeginStream,
         write_stream, write_image, gc, gc_dry_run
    <3>2. ASSUME NEW s \in Stream, NEW n \in StreamRef, name_stream(p, s, n) PROVE Kept
      BY <3>2, RepositoryConstants DEF name_stream, SpareInv, TypeInv, TypeOK
    <3>3. QED BY <3>1, <3>2 DEF disk
  <2>3. ASSUME NEW p \in Proc, Write(p) PROVE Kept
    <3>1. CASE LinkRef(p) \/ EnsureRef(p) \/ LinkImageRef(p)
      BY <3>1, RepositoryConstants DEF LinkRef, EnsureRef, LinkImageRef, SpareInv, TypeInv, TypeOK, JobsTyped,
         StreamWrite, ImageWrite
    <3>2. ASSUME ~(LinkRef(p) \/ EnsureRef(p) \/ LinkImageRef(p)) PROVE UNCHANGED <<streamRefs, imageRefs>>
      BY <2>3, <3>2 DEF Write, ensure_object, AddObject, WriterDone, sync, LinkStream, StoreImage,
         LinkImage
    <3>3. QED BY <3>1, <3>2
  <2>4. ASSUME NEW p \in Proc, Collect(p) PROVE Kept
    <3>1. CASE GcPruneImages(p)
      BY <3>1, PrunedImages DEF GcPruneImages
    <3>2. CASE GcPruneStreams(p)
      BY <3>2, PrunedStreams DEF GcPruneStreams
    <3>3. ASSUME ~(GcPruneImages(p) \/ GcPruneStreams(p)) PROVE UNCHANGED <<streamRefs, imageRefs>>
      BY <2>4, <3>3 DEF Collect, GcImages, GcStreams, GcMarkError, GcMarked, walk_streams, GcRemove,
         GcSwept, GcUnlock, disk
    <3>4. QED BY <3>1, <3>2, <3>3
  <2>5. ASSUME NEW p \in Proc, GcLocked(p) \/ GcRelock(p) \/ Fail(p) PROVE Kept
    BY <2>5 DEF GcLocked, GcRelock, Fail, Kill, WriteError, GcIoError, disk
  <2>6. QED BY <2>1, <2>2, <2>3, <2>4, <2>5 DEF Next
<1>2. QED BY <1>1, InvarianceWithFaults, PTL DEF Spec, NamesNeverLost

-------------------------------------------------------------------------------
(***************************************************************************)
(* What gc keeps, for a repository in which none of the Faults occurs: it  *)
(* is exactly what the roots reach.                                        *)
(***************************************************************************)

(* Following links *)

LEMMA FollowsStart ==
  ASSUME NEW o \in Object
  PROVE  o \in Follows(o)
BY DEF Follows

LEMMA FollowsNext ==
  ASSUME NEW o \in Object, NEW x \in Follows(o), NEW y \in NamedRefs[x]
  PROVE  y \in Follows(o)
<1>1. x \in Object /\ y \in Object
  BY RepositoryConstants DEF Follows
<1>2. ASSUME NEW T \in SUBSET Object, o \in T, \A z \in T : NamedRefs[z] \subseteq T
      PROVE  y \in T
  <2>1. x \in T
    BY <1>2 DEF Follows
  <2>2. QED BY <1>2, <2>1
<1>3. QED BY <1>1, <1>2 DEF Follows

\* What a splitstream behind o needs is behind o.
LEMMA NeedsWithin ==
  ASSUME NEW o \in Object, NEW x \in Follows(o)
  PROVE  {x} \cup Needs(x) \subseteq Content[o]
<1>1. NamedRefs[x] \subseteq Follows(o)
  BY FollowsNext
<1>2. Content[o] = Follows(o) \cup UNION {DataRefs[y] : y \in Follows(o)}
  BY DEF Content
<1>3. QED BY <1>1, <1>2 DEF Needs

-------------------------------------------------------------------------------
(* Marking reaches nothing that no root reaches *)

LEMMA RootsTyped ==
  ASSUME TypeInv, NEW p \in Proc
  PROVE  /\ RootStreams(p) \subseteq Stream
         /\ RootImages(p) \subseteq Image
         /\ \A s \in RootStreams(p) : ObjectOf[s] \in Object
BY RepositoryConstants DEF TypeInv, TypeOK, RootStreams, RootImages

\* A step that changes neither a gc nor what its roots are.
LEMMA ReachedKept ==
  ASSUME LiveReached,
         \A q \in Proc : pc'[q] \in Collecting =>
           /\ live'[q] \subseteq live[q] /\ walk'[q] \subseteq walk[q]
           /\ RootStreams(q)' = RootStreams(q) /\ RootImages(q)' = RootImages(q)
           /\ pc'[q] # "gc_images" => pc[q] \in Collecting \ {"gc_images"}
           /\ pc'[q] = "gc_walk" => pc[q] = "gc_walk"
  PROVE  LiveReached'
<1>1. \A q \in Proc : pc'[q] \in Collecting => Reached(q)' = Reached(q)
  BY DEF Reached
<1>2. QED BY <1>1 DEF LiveReached, Collecting, Marking

\* Only the collector's own marks need a look.
LEMMA ReachedByCollector ==
  ASSUME NEW p \in Proc, \A q \in Proc \ {p} : pc'[q] \notin Collecting,
         pc'[p] \in Collecting \ {"gc_images"} => live'[p] \subseteq Reached(p)',
         pc'[p] = "gc_walk" =>
           \A s \in walk'[p] : \E r \in RootStreams(p)' : ObjectOf[s] \in Follows(ObjectOf[r])
  PROVE  LiveReached'
<1>1. \A q \in Proc : pc'[q] \in Collecting => q = p
  OBVIOUS
<1>2. pc'[p] = "gc_walk" => pc'[p] \in Collecting
  BY DEF Collecting, Marking
<1>3. QED BY <1>1, <1>2 DEF LiveReached, Collecting, Marking

LEMMA ReachedHas ==
  ASSUME NEW p \in Proc
  PROVE  \A x : x \in Reached(p) <=>
           \/ \E s \in RootStreams(p) : x \in Content[ObjectOf[s]]
           \/ \E i \in RootImages(p) : x \in ImageContent(i)
<1> DEFINE FromStreams == UNION {Content[ObjectOf[s]] : s \in RootStreams(p)}
           FromImages  == UNION {ImageContent(i) : i \in RootImages(p)}
<1>1. \A x : x \in FromStreams <=> \E s \in RootStreams(p) : x \in Content[ObjectOf[s]]
  OBVIOUS
<1>2. \A x : x \in FromImages <=> \E i \in RootImages(p) : x \in ImageContent(i)
  OBVIOUS
<1>3. Reached(p) = FromStreams \cup FromImages
  BY DEF Reached
<1> HIDE DEF FromStreams, FromImages
<1>4. QED BY <1>1, <1>2, <1>3

LEMMA ReachedInit == Init => LiveReached
BY DEF Init, LiveReached, Collecting, Marking, Sweeping

LEMMA ReachedCollect ==
  ASSUME IInv, SpareInv, LiveReached, NEW p \in Proc, Collect(p), IInv'
  PROVE  LiveReached'
<1> USE DEF Goto, disk
<1>1. pc[p] \in Collecting /\ TypeInv /\ p \in DOMAIN pc
  BY DEF IInv, TypeInv, TypeOK, Collect, GcImages, GcStreams, GcMarkError, GcMarked, walk_streams,
         GcRemove, GcSwept, GcPruneImages, GcPruneStreams, GcUnlock, Collecting, Marking, Sweeping
<1>2. \A q \in Proc \ {p} : pc[q] \notin Collecting
  BY <1>1, CollectorAlone DEF IInv, Collecting, Marking, Sweeping, Waiting
<1>3. \A q \in Proc \ {p} : pc'[q] \notin Collecting
  BY <1>1, <1>2 DEF Collect, GcImages, GcStreams, GcMarkError, GcMarked, walk_streams,
         GcRemove, GcSwept, GcPruneImages, GcPruneStreams, GcUnlock, IInv, TypeOK
<1> USE DEF IInv, TypeOK
<1>4. CASE GcImages(p)
  <2>1. live'[p] \subseteq Reached(p)
    <3>1. live'[p] = RootImages(p) \cup UNION {ImageObjects[i] : i \in RootImages(p)}
      BY <1>4 DEF GcImages
    <3>2. QED BY <3>1, ReachedHas DEF ImageContent
  <2>2. Reached(p)' = Reached(p)
    BY <1>4 DEF GcImages, Reached, RootStreams, RootImages
  <2>3. QED BY <1>1, <1>3, <1>4, <2>1, <2>2, ReachedByCollector DEF GcImages
<1>5. CASE GcStreams(p)
  <2>1. live[p] \subseteq Reached(p)
    BY <1>5 DEF GcStreams, LiveReached, Collecting, Marking
  <2>2. \A s \in RootStreams(p) : ObjectOf[s] \in Follows(ObjectOf[s]) /\ ObjectOf[s] \in Content[ObjectOf[s]]
    BY <1>1, RootsTyped, FollowsStart, NeedsWithin
  <2>3. live'[p] = live[p] \cup {ObjectOf[s] : s \in RootStreams(p)} /\ walk'[p] = RootStreams(p)
    BY <1>5 DEF GcStreams
  <2>4. live'[p] \subseteq Reached(p)
    <3>1. \A s \in RootStreams(p) : ObjectOf[s] \in Reached(p)
      BY <2>2 DEF Reached
    <3>2. QED BY <2>1, <2>3, <3>1
  <2>5. Reached(p)' = Reached(p) /\ RootStreams(p)' = RootStreams(p)
    BY <1>5 DEF GcStreams, Reached, RootStreams, RootImages
  <2>6. QED BY <1>3, <2>2, <2>3, <2>4, <2>5, ReachedByCollector
<1>6. ASSUME NEW s \in walk[p], walk_streams(p, s) PROVE LiveReached'
  <2> DEFINE o == ObjectOf[s]
             next == {NameOf(r) : r \in {x \in NamedRefs[o] : Mapped(x)}}
  <2>1. PICK r \in RootStreams(p) : o \in Follows(ObjectOf[r])
    BY <1>6 DEF walk_streams, LiveReached
  <2>2. ObjectOf[r] \in Object
    BY <1>1, RootsTyped
  <2>3. Needs(o) \subseteq Content[ObjectOf[r]] /\ NamedRefs[o] \subseteq Follows(ObjectOf[r])
    BY <2>1, <2>2, NeedsWithin, FollowsNext
  <2>4. \A t \in next : ObjectOf[t] \in NamedRefs[o]
    BY NameOfMapped
  <2>5. /\ live'[p] = live[p] \cup Needs(o)
        /\ walk'[p] \subseteq walk[p] \cup next
        /\ pc[p] = "gc_walk" /\ pc' = pc
        /\ RootStreams(p)' = RootStreams(p) /\ Reached(p)' = Reached(p)
    BY <1>6 DEF walk_streams, Reached, RootStreams, RootImages
  <2>6. live'[p] \subseteq Reached(p)
    BY <2>3, <2>5 DEF Reached, LiveReached, Collecting, Marking
  <2>7. \A t \in walk'[p] : \E u \in RootStreams(p) : ObjectOf[t] \in Follows(ObjectOf[u])
    BY <2>3, <2>4, <2>5 DEF LiveReached
  <2>8. QED BY <1>3, <2>5, <2>6, <2>7, ReachedByCollector
<1>7. CASE GcMarkError(p) \/ GcUnlock(p)
  BY <1>1, <1>3, <1>7 DEF GcMarkError, GcUnlock, LiveReached, Collecting, Marking, Sweeping
<1>8. CASE GcMarked(p) \/ GcSwept(p)
  <2>1. RootStreams(p)' = RootStreams(p) /\ RootImages(p)' = RootImages(p)
    BY <1>8 DEF GcMarked, GcSwept, RootStreams, RootImages, gcJob
  <2>2. QED BY <1>1, <1>3, <1>8, <2>1, ReachedKept DEF GcMarked, GcSwept, gcJob
<1>9. ASSUME NEW o \in objects, GcRemove(p, o) PROVE LiveReached'
  <2>1. RootStreams(p)' = RootStreams(p) /\ RootImages(p)' = RootImages(p)
    BY <1>9 DEF GcRemove, RootStreams, RootImages, gcJob
  <2>2. QED BY <1>1, <1>3, <1>9, <2>1, ReachedKept DEF GcRemove, gcJob
<1>10. CASE GcPruneImages(p)
  <2>1. RootImages(p)' = RootImages(p)
    <3>1. \A n \in ImageRef : imageRefs[n] # None => imageRefs[n] \in images \cap objects
      BY <1>10, PrunedImages
    <3>2. RootImages(p) \subseteq images \cap objects
      BY <1>10, PrunedImages
    <3>3. imageRefs' = imageRefs
      BY <1>10, <3>1 DEF GcPruneImages
    <3>4. QED BY <1>10, <3>2, <3>3 DEF GcPruneImages, RootImages, gcJob
  <2>2. RootStreams(p)' = RootStreams(p)
    BY <1>10 DEF GcPruneImages, RootStreams, gcJob
  <2>3. QED BY <1>1, <1>3, <1>10, <2>1, <2>2, ReachedKept DEF GcPruneImages, gcJob
<1>11. CASE GcPruneStreams(p)
  <2>1. RootStreams(p)' = RootStreams(p)
    <3>1. \A n \in StreamRef : streamRefs[n] # None => streamRefs[n] \in Unbroken
      BY <1>11, PrunedStreams
    <3>2. RootStreams(p) \subseteq Unbroken
      BY <1>11, PrunedStreams
    <3>3. streamRefs' = streamRefs
      BY <1>11, <3>1 DEF GcPruneStreams
    <3>4. QED BY <1>11, <3>2, <3>3 DEF GcPruneStreams, RootStreams, Unbroken, gcJob
  <2>2. RootImages(p)' = RootImages(p)
    BY <1>11 DEF GcPruneStreams, RootImages, gcJob
  <2>3. QED BY <1>1, <1>3, <1>11, <2>1, <2>2, ReachedKept DEF GcPruneStreams, gcJob
<1>12. QED BY <1>4, <1>5, <1>6, <1>7, <1>8, <1>9, <1>10, <1>11 DEF Collect

\* The rest of the steps start no marking and change no root of a gc in progress.
LEMMA ReachedOther ==
  ASSUME IInv, LiveReached, NEW p \in Proc,
         Call(p) \/ Write(p) \/ GcLocked(p) \/ GcRelock(p) \/ Fail(p), Faults = {}
  PROVE  LiveReached'
<1> USE DEF Goto, disk, Collecting, Marking, Sweeping, Waiting, StreamWrite, ImageWrite
<1> USE DEF IInv, TypeOK, writeJob, gcJob
<1>1. CASE GcLocked(p)
  <2>1. pc'[p] = "gc_images" /\ \A q \in Proc \ {p} : pc'[q] \notin Collecting
    BY <1>1 DEF GcLocked, NoneLocked, LocksHeld
  <2>2. QED BY <2>1, ReachedByCollector
<1>2. CASE Call(p) \/ Write(p) \/ GcRelock(p) \/ Fail(p)
  <2>1. pc'[p] \notin Collecting /\ \A q \in Proc \ {p} : pc'[q] = pc[q]
    BY <1>2 DEF Call, open_path, drop, has_stream, ensure_stream, EnsureFound, BeginStream,
       write_stream, name_stream, write_image, gc, gc_dry_run, Write, ensure_object, WriterDone, sync, LinkStream,
       LinkRef, EnsureRef, Return, StoreImage, LinkImage, LinkImageRef, GcRelock, Fail, Kill,
       WriteError, GcIoError
  <2>2. (\E q \in Proc : pc[q] \in Collecting) => UNCHANGED disk
    <3>1. UNCHANGED disk \/ pc[p] \in Using
      BY <1>2 DEF Call, open_path, drop, has_stream, ensure_stream, EnsureFound, BeginStream,
         write_stream, name_stream, write_image, gc, gc_dry_run, Write, ensure_object, WriterDone, sync,
         LinkStream, LinkRef, EnsureRef, StoreImage, LinkImage, LinkImageRef, GcRelock, Fail, Kill,
         WriteError, GcIoError, Using
    <3>2. QED BY <3>1, NobodyCollects DEF TypeInv
  <2>3. \A q \in Proc \ {p} : extra'[q] = extra[q] /\ live'[q] = live[q] /\ walk'[q] = walk[q]
    BY <1>2 DEF Call, open_path, drop, has_stream, ensure_stream, EnsureFound, BeginStream,
       write_stream, name_stream, write_image, gc, gc_dry_run, Write, ensure_object, WriterDone, sync, LinkStream,
       LinkRef, EnsureRef, StoreImage, LinkImage, LinkImageRef, GcRelock, Fail, Kill, ClearGc,
       WriteError, GcIoError
  <2>4. \A q \in Proc : pc'[q] \in Collecting =>
          /\ q # p /\ pc'[q] = pc[q] /\ live'[q] = live[q] /\ walk'[q] = walk[q]
          /\ RootStreams(q)' = RootStreams(q) /\ RootImages(q)' = RootImages(q)
    BY <2>1, <2>2, <2>3 DEF RootStreams, RootImages
  <2>5. QED BY <2>4, ReachedKept
<1>3. QED BY <1>1, <1>2

LEMMA ReachedStep ==
  ASSUME IInv, SpareInv, LiveReached, IInv', Faults = {}, [Next]_vars
  PROVE  LiveReached'
<1>1. CASE UNCHANGED vars
  BY <1>1 DEF LiveReached, Reached, RootStreams, RootImages, vars, disk, gcJob
<1>2. CASE Next
  BY <1>2, ReachedCollect, ReachedOther DEF Next
<1>3. QED BY <1>1, <1>2

LEMMA Reaching ==
  ASSUME Faults = {}
  PROVE  Spec => []LiveReached
<1>1. IInv /\ SpareInv /\ LiveReached /\ IInv' /\ [Next]_vars => LiveReached'
  BY ReachedStep
<1>2. QED BY <1>1, ReachedInit, Invariance, InvarianceWithFaults, PTL DEF Spec

-------------------------------------------------------------------------------
(* The guarantees *)

\* What gc leaves in objects/ when it has run to its end is what the refs and the
\* additional roots reach, no more and no less, and no link dangles.
THEOREM CollectionExact ==
  ASSUME Faults = {}
  PROVE  Spec => []GcExact
<1>1. ASSUME IInv, LiveReached, NEW p \in Proc, pc[p] = "gc_unlock"
      PROVE  /\ objects = Reached(p)
             /\ \A s \in streams : StreamReadable(s)
             /\ \A i \in images : ImageReadable(i)
  <2> USE <1>1 DEF IInv
  <2>1. pc[p] \in Collecting \ {"gc_images"} /\ pc[p] \in Collecting
    BY DEF Collecting
  <2>2. \A q \in Proc : pc[q] \notin Sweeping
    BY <2>1, CollectorAlone DEF TypeInv, Sweeping, Waiting
  <2>3. objects \subseteq Reached(p)
    BY <2>1 DEF LiveReached, SweepSound
  <2>4. (\A s \in streams : StreamReadable(s)) /\ (\A i \in images : ImageReadable(i))
    BY <2>2, NoSweepAvailable, AvailableReadable, MarkedImageReadable
  <2>5. RootStreams(p) \subseteq streams /\ RootImages(p) \subseteq images
    BY DEF RootStreams, RootImages, RefsLinked
  <2>6. Reached(p) \subseteq objects
    BY <2>4, <2>5, ReachedHas DEF StreamReadable, ImageReadable
  <2>7. QED BY <2>3, <2>4, <2>6
<1>2. IInv /\ LiveReached => GcExact
  BY <1>1 DEF GcExact
<1>3. QED BY <1>2, Invariance, Reaching, PTL
-------------------------------------------------------------------------------
(* The repository is a catalog *)

\* A step that neither touches the streams and their names nor begins or ends a sweep.
LEMMA CatalogUnchanged ==
  ASSUME UNCHANGED <<streams, streamRefs>>,
         \A q \in Proc : /\ pc[q] \in Sweeping <=> pc'[q] \in Sweeping
                         /\ pc[q] \in Sweeping => live'[q] = live[q]
  PROVE  UNCHANGED <<Available, streamRefs>>
BY DEF Available

LEMMA LinkPublishes ==
  ASSUME IInv, IInv', NEW p \in Proc, LinkStream(p)
  PROVE  \E s \in Stream : Catalog!Publish(s)
<1> USE DEF IInv
<1> DEFINE s == item[p]
<1>1. pc[p] \in Using /\ s \in Stream /\ streams' = streams \cup {s} /\ UNCHANGED streamRefs
  BY DEF LinkStream, Using, StreamWrite, JobsTyped
<1>2. \A q \in Proc : pc[q] \notin Collecting
  BY <1>1, NobodyCollects DEF TypeInv
<1>3. \A q \in Proc : pc'[q] \notin Sweeping
  BY <1>2 DEF LinkStream, Return, Goto, Collecting, Sweeping, TypeOK
<1>4. Available = streams /\ Available' = streams'
  BY <1>2, <1>3 DEF Available, Collecting
<1>5. Catalog!SelfContained(streams')
  BY DEF Catalog!SelfContained, NamedLinked, Mapped
<1>6. QED BY <1>1, <1>4, <1>5 DEF Catalog!Publish

LEMMA NameNames ==
  ASSUME IInv, Faults = {}, NEW p \in Proc, NEW s \in Stream, NEW n \in StreamRef,
         pc[p] \in Using, s \in streams, streamRefs' = [streamRefs EXCEPT ![n] = s], UNCHANGED streams,
         \A q \in Proc : pc'[q] \notin Sweeping
  PROVE  Catalog!Name(n, s)
<1>1. \A q \in Proc : pc[q] \notin Sweeping
  BY NobodyCollects DEF IInv, TypeInv, Collecting
<1>2. Available = streams /\ Available' = streams'
  BY <1>1 DEF Available
<1>3. QED BY <1>2 DEF Catalog!Name

LEMMA MarkedCollects ==
  ASSUME IInv, IInv', NEW p \in Proc, GcMarked(p)
  PROVE  \E keep \in SUBSET Available : Catalog!Collect(keep)
<1> USE DEF IInv
<1> DEFINE keep == {s \in streams : ObjectOf[s] \in live[p]}
<1>1. /\ pc[p] = "gc_walk" /\ pc'[p] = "gc_sweep" /\ \A q \in Proc : q # p => pc'[q] = pc[q]
      /\ UNCHANGED <<streams, streamRefs, live>>
  BY DEF GcMarked, Goto, TypeOK, disk, gcJob
<1>2. pc[p] \in Collecting /\ pc[p] \notin Sweeping /\ pc'[p] \in Sweeping /\ pc'[p] \in Sweeping \cup {"gc_unlock"}
      /\ pc[p] \in Collecting \ {"gc_images", "gc_streams"}
  BY <1>1 DEF Collecting, Marking, Sweeping
<1>3. \A q \in Proc \ {p} : pc[q] \notin Sweeping
  BY <1>2, CollectorAlone DEF TypeInv, Sweeping, Waiting
<1>4. Available = streams
  BY <1>2, <1>3 DEF Available
<1>5. Available' = keep
  BY <1>1, <1>2, <1>3 DEF Available
<1>6. \A n \in StreamRef : streamRefs[n] # None => streamRefs[n] \in keep
  BY <1>2 DEF RootsMarked, RootStreams, RefsLinked
<1>7. Catalog!SelfContained(keep)
  <2>1. ASSUME NEW s \in keep, NEW o \in NamedRefs[ObjectOf[s]] PROVE \E t \in keep : ObjectOf[t] = o
    <3>1. PICK t \in streams : ObjectOf[t] = o
      BY DEF NamedLinked, Mapped
    <3>2. Needs(ObjectOf[s]) \subseteq live[p]
      BY <1>1, <1>2 DEF SweepSound, Needs
    <3>3. QED BY <3>1, <3>2 DEF Needs
  <2>2. QED BY <2>1 DEF Catalog!SelfContained
<1>8. QED BY <1>1, <1>4, <1>5, <1>6, <1>7 DEF Catalog!Collect

LEMMA PruningHides ==
  ASSUME IInv, SpareInv, NEW p \in Proc, GcPruneStreams(p)
  PROVE  UNCHANGED <<Available, streamRefs>>
<1> USE DEF IInv
<1>1. /\ pc[p] = "gc_prune_streams" /\ pc'[p] = "gc_unlock" /\ \A q \in Proc : q # p => pc'[q] = pc[q]
      /\ streams' = Unbroken /\ UNCHANGED live
  BY DEF GcPruneStreams, Goto, TypeOK, gcJob
<1>2. pc[p] \in Collecting /\ pc[p] \in Sweeping /\ pc'[p] \notin Sweeping
  BY <1>1 DEF Collecting, Sweeping
<1>3. \A q \in Proc \ {p} : pc[q] \notin Sweeping
  BY <1>2, CollectorAlone DEF TypeInv, Sweeping, Waiting
<1>4. Available = {s \in streams : ObjectOf[s] \in live[p]} /\ Available' = Unbroken
  BY <1>1, <1>2, <1>3 DEF Available
<1>5. \A s \in streams : ObjectOf[s] \in live[p] <=> ObjectOf[s] \in objects
  <2>1. \A s \in streams : ObjectOf[s] \in live[p] => StreamPresent(s)
    BY <1>2, PresentIfLive DEF TypeInv, Contents, Written, Collected
  <2>2. objects \subseteq live[p]
    BY <1>1 DEF SweepSound
  <2>3. QED BY <2>1, <2>2 DEF StreamPresent
<1>6. UNCHANGED streamRefs
  <2>1. \A n \in StreamRef : streamRefs'[n] = streamRefs[n]
    BY PrunedStreams DEF GcPruneStreams
  <2>2. streamRefs' \in [StreamRef -> Stream \cup {None}] /\ streamRefs \in [StreamRef -> Stream \cup {None}]
    BY RepositoryConstants DEF GcPruneStreams, TypeOK, Unbroken
  <2>3. QED BY <2>1, <2>2
<1>7. QED BY <1>4, <1>5, <1>6 DEF Unbroken

\* A step of a process is a step of the catalog, or none.
LEMMA StepIsCatalogs ==
  ASSUME IInv, SpareInv, IInv', Faults = {}, [Next]_vars
  PROVE  Catalog!Next \/ UNCHANGED <<Available, streamRefs>>
<1> USE DEF IInv
<1>1. CASE UNCHANGED vars
  BY <1>1, CatalogUnchanged DEF vars, disk, gcJob
<1>2. ASSUME NEW p \in Proc, Call(p) PROVE Catalog!Next \/ UNCHANGED <<Available, streamRefs>>
  <2>1. CASE \E s \in Stream, n \in StreamRef : name_stream(p, s, n)
    <3>1. PICK s \in Stream, n \in StreamRef : name_stream(p, s, n)
      BY <2>1
    <3>2. pc[p] \in Using /\ s \in streams /\ UNCHANGED <<pc, streams>>
          /\ streamRefs' = [streamRefs EXCEPT ![n] = s]
      BY <3>1 DEF name_stream, Using, KnownLinked
    <3>3. \A q \in Proc : pc'[q] \notin Sweeping
      BY <3>2, NobodyCollects DEF TypeInv, Collecting
    <3>4. QED BY <3>2, <3>3, NameNames DEF Catalog!Next
  <2>2. CASE ~\E s \in Stream, n \in StreamRef : name_stream(p, s, n)
    <3>1. /\ UNCHANGED <<streams, streamRefs, live>>
          /\ pc[p] \in {"closed", "idle"}
          /\ \E l \in {"closed", "idle", "store", "reref", "img_store", "gc_lock", "gc_relock"} :
                Goto(p, l) \/ UNCHANGED pc
      BY <1>2, <2>2 DEF Call, open_path, drop, has_stream, ensure_stream, EnsureFound, BeginStream,
         write_stream, write_image, gc, gc_dry_run, disk, gcJob
    <3>2. \A q \in Proc : pc[q] \in Sweeping <=> pc'[q] \in Sweeping
      BY <3>1 DEF Goto, TypeOK, Sweeping
    <3>3. QED BY <3>1, <3>2, CatalogUnchanged
  <2>3. QED BY <2>1, <2>2
<1>3. ASSUME NEW p \in Proc, Write(p) PROVE Catalog!Next \/ UNCHANGED <<Available, streamRefs>>
  <2>1. CASE LinkStream(p)
    BY <2>1, LinkPublishes DEF Catalog!Next
  <2>2. CASE LinkRef(p) \/ EnsureRef(p)
    <3>1. /\ pc[p] \in Using /\ item[p] \in streams /\ item[p] \in Stream
          /\ ref[p] \in StreamRef /\ UNCHANGED streams
          /\ streamRefs' = [streamRefs EXCEPT ![ref[p]] = item[p]]
      BY <2>2 DEF LinkRef, EnsureRef, Using, StreamWrite, JobsTyped, WritesPrepared
    <3>2. \A q \in Proc : pc[q] \notin Sweeping
      BY <3>1, NobodyCollects DEF TypeInv, Collecting
    <3>3. \A q \in Proc : pc'[q] \notin Sweeping
      BY <2>2, <3>2 DEF LinkRef, EnsureRef, Return, Goto, TypeOK, Sweeping
    <3>4. Catalog!Name(ref[p], item[p])
      BY <3>1, <3>3, NameNames
    <3>5. QED BY <3>1, <3>4 DEF Catalog!Next
  <2>3. CASE ~(LinkStream(p) \/ LinkRef(p) \/ EnsureRef(p))
    <3>1. /\ UNCHANGED <<streams, streamRefs, live>>
          /\ pc[p] \in StreamWrite \cup ImageWrite
          /\ \E l \in {"idle"} \cup StreamWrite \cup ImageWrite : Goto(p, l) \/ UNCHANGED pc
      BY <1>3, <2>3 DEF Write, ensure_object, AddObject, WriterDone, sync, StoreImage,
         LinkImage, LinkImageRef, gcJob, StreamWrite, ImageWrite
    <3>2. \A q \in Proc : pc[q] \in Sweeping <=> pc'[q] \in Sweeping
      BY <3>1 DEF Goto, TypeOK, Sweeping, StreamWrite, ImageWrite
    <3>3. QED BY <3>1, <3>2, CatalogUnchanged
  <2>4. QED BY <2>1, <2>2, <2>3
<1>4. ASSUME NEW p \in Proc, Collect(p) PROVE Catalog!Next \/ UNCHANGED <<Available, streamRefs>>
  <2>1. CASE GcMarked(p)
    BY <2>1, MarkedCollects DEF Catalog!Next
  <2>2. CASE GcPruneStreams(p)
    BY <2>2, PruningHides
  <2>3. CASE ~(GcMarked(p) \/ GcPruneStreams(p))
    <3>1. CASE GcImages(p) \/ GcStreams(p) \/ GcMarkError(p) \/ (\E s \in walk[p] : walk_streams(p, s)) \/ GcUnlock(p)
      <4>1. /\ UNCHANGED <<streams, streamRefs>> /\ pc[p] \notin Sweeping
            /\ \E l \in {"gc_streams", "gc_walk", "idle", "gc_relock"} : Goto(p, l) \/ UNCHANGED pc
            /\ \A q \in Proc : q # p => live'[q] = live[q]
        BY <3>1 DEF GcImages, GcStreams, GcMarkError, walk_streams, GcUnlock, ClearGc, TypeOK, disk, Sweeping
      <4>2. \A q \in Proc : pc[q] \in Sweeping <=> pc'[q] \in Sweeping
        BY <4>1 DEF Goto, TypeOK, Sweeping
      <4>3. QED BY <4>1, <4>2, CatalogUnchanged
    <3>2. CASE (\E o \in objects : GcRemove(p, o)) \/ GcSwept(p) \/ GcPruneImages(p)
      <4>1. /\ UNCHANGED <<streams, streamRefs, live>> /\ pc[p] \in Sweeping
            /\ \E l \in Sweeping : Goto(p, l) \/ UNCHANGED pc
        BY <3>2 DEF GcRemove, GcSwept, GcPruneImages, disk, gcJob, Sweeping
      <4>2. \A q \in Proc : pc[q] \in Sweeping <=> pc'[q] \in Sweeping
        BY <4>1 DEF Goto, TypeOK
      <4>3. QED BY <4>1, <4>2, CatalogUnchanged
    <3>3. QED BY <1>4, <2>3, <3>1, <3>2 DEF Collect
  <2>4. QED BY <2>1, <2>2, <2>3
<1>5. ASSUME NEW p \in Proc, GcLocked(p) \/ GcRelock(p) \/ Fail(p)
      PROVE  Catalog!Next \/ UNCHANGED <<Available, streamRefs>>
  <2>1. /\ UNCHANGED <<streams, streamRefs>> /\ pc[p] \notin Sweeping
        /\ \E l \in {"gc_images", "idle", "closed"} : Goto(p, l)
        /\ \A q \in Proc : q # p => live'[q] = live[q]
    BY <1>5 DEF GcLocked, GcRelock, Fail, Kill, WriteError, GcIoError, ClearGc, TypeOK, disk, gcJob,
       Sweeping, StreamWrite, ImageWrite
  <2>2. \A q \in Proc : pc[q] \in Sweeping <=> pc'[q] \in Sweeping
    BY <2>1 DEF Goto, TypeOK, Sweeping
  <2>3. QED BY <2>1, <2>2, CatalogUnchanged
<1>6. QED BY <1>1, <1>2, <1>3, <1>4, <1>5 DEF Next

\* A write or a gc, with all its steps, looks like one step to whoever follows the names
\* of streams: what they lead to appears whole, and is collected all at once.
THEOREM IsCatalog ==
  ASSUME Faults = {}
  PROVE  Spec => ImplementsCatalog
<1>1. Init => Catalog!Init
  BY DEF Init, Catalog!Init, Available
<1>2. IInv /\ SpareInv /\ IInv' /\ [Next]_vars => [Catalog!Next]_<<Available, streamRefs>>
  BY StepIsCatalogs
<1>3. QED BY <1>1, <1>2, Invariance, InvarianceWithFaults, PTL DEF Spec, ImplementsCatalog, Catalog!Spec
===============================================================================
