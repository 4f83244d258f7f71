------------------------------- MODULE TarSplit -------------------------------
(***************************************************************************)
(* Tar archives become splitstreams: split, split_async and get_entry of   *)
(* crates/composefs-oci/src/tar.rs.  Several layers are imported at the    *)
(* same time.  split_async reads an archive once; it sends every large     *)
(* file through a bounded channel to a blocking task, which stores it and  *)
(* may fail, and takes a permit of the repository's semaphore for each.    *)
(* SplitStreamBuilder::finish awaits the tasks.                            *)
(*                                                                         *)
(* The unit of data is small: a block has BLOCK bytes (512 in the code).   *)
(* A byte is <<"header", type, name, size, j>>, <<"data", "", name, size,  *)
(* j>> or Zero, so that no two bytes are equal that come from different    *)
(* places, except for files that have the same content.                    *)
(***************************************************************************)
EXTENDS FiniteSets, SplitStream

CONSTANTS
  Layer,               \* the archives that are imported at the same time
  Imports,             \* which archives they may be
  BLOCK,               \* bytes in a block
  INLINE_CONTENT_MAX,  \* files with more bytes than this are stored as objects
  Permits,             \* of Repository::write_semaphore
  Capacity             \* of the channel: 4 in the code

ASSUME TarConstants ==
  /\ {BLOCK, Permits, Capacity} \subseteq Nat \ {0}
  /\ INLINE_CONTENT_MAX \in Nat

VARIABLES
  archive,   \* what is read
  layer,     \* the state of each split_async
  tasks,     \* the blocking tasks it has spawned, in order
  permits,   \* that nobody holds
  objects    \* the contents stored in the repository

vars == <<archive, layer, tasks, permits, objects>>

-------------------------------------------------------------------------------
(* Archives: entries, in blocks; cut is the number of bytes lost at the end *)

Zero == <<"zero", "", "", 0, 0>>
Fill(n) == [j \in 1..n |-> Zero]

Stored(size) == BLOCK * ((size + BLOCK - 1) \div BLOCK)   \* next_multiple_of

HeaderBlock(e)  == [j \in 1..BLOCK |-> <<"header", e.type, e.name, e.size, j>>]
Content(e)  == [j \in 1..e.size |-> <<"data", "", e.name, e.size, j>>]
EntryBytes(e) ==
  IF e.type = "end" THEN Fill(BLOCK)
  ELSE HeaderBlock(e) \o Content(e) \o Fill(Stored(e.size) - e.size)

WholeBytes(a)   == FlattenSeq([i \in DOMAIN a.entries |-> EntryBytes(a.entries[i])])
ArchiveBytes(a) == SubSeq(WholeBytes(a), 1, Len(WholeBytes(a)) - a.cut)

\* What an archive's entries have in one field.
Fields(a, field) == {e[field] : e \in ToSet(a.entries)}

\* An archive is a sequence of entries of some size each, and no more is lost at its
\* end than it has.
ASSUME ArchivesAreEntries ==
  \A import \in Imports : \A l \in Layer :
    LET a == import[l]
    IN  /\ a.entries \in Seq([type : Fields(a, "type"), name : Fields(a, "name"), size : Nat])
        /\ a.cut \in 0 .. Len(WholeBytes(a))

\* What a block says when it is taken for a header.  A block of file data says
\* anything: that it is no header, or any type and size.
IsHeader(block) == \E e \in [type : {block[1][2]}, name : {block[1][3]}, size : {block[1][4]}] :
                     block = HeaderBlock(e)
Headers(block) ==
  IF IsHeader(block) THEN {[type |-> block[1][2], name |-> block[1][3], size |-> block[1][4]]}
  ELSE [type : {"regular", "directory"}, name : {""}, size : {0, INLINE_CONTENT_MAX + 1}]

IsLarge(h) == h.type = "regular" /\ h.size > INLINE_CONTENT_MAX

-------------------------------------------------------------------------------
(* split: one archive after the other, one thread *)

\* The bytes of seq after the first n.
From(seq, n) == SubSeq(seq, n + 1, Len(seq))

\* One turn of the loop: s.rest is unread, s.writer is the SplitStreamWriter.
SplitEntry(s) ==
  LET block == SubSeq(s.rest, 1, BLOCK)
      body  == From(s.rest, BLOCK)
      h     == CHOOSE x \in Headers(block) : TRUE
      w     == write_inline(s.writer, block)
      After(n, v) == [s EXCEPT !.rest = From(body, n), !.writer = v]
  IN IF s.failed \/ s.rest = <<>> THEN s
     ELSE IF Len(s.rest) < BLOCK THEN [s EXCEPT !.failed = TRUE]
     ELSE IF block = Fill(BLOCK) THEN After(0, w)
     ELSE IF ~IsHeader(block) \/ Len(body) < Stored(h.size) THEN [s EXCEPT !.failed = TRUE]
     ELSE After(Stored(h.size),
            IF IsLarge(h)
            THEN write_inline(write_external(w, SubSeq(body, 1, h.size)),
                              SubSeq(body, h.size + 1, Stored(h.size)))
            ELSE write_inline(w, SubSeq(body, 1, Stored(h.size))))

split(bytes) ==
  LET s == FoldLeft(LAMBDA t, i : SplitEntry(t),
                    [rest |-> bytes, writer |-> NewWriter, failed |-> FALSE],
                    [i \in 1..Len(bytes) |-> i])
  IN [failed |-> s.failed, file |-> done(s.writer)]

-------------------------------------------------------------------------------
(* get_entry: the entries of a finished stream *)

Item(path, kind, value) == [path |-> path, kind |-> kind, value |-> value]

\* The end of the entries, and the error that get_entry gives instead.
EndOfEntries == Item(<<>>, "none", <<>>)
EntryError   == Item(<<>>, "error", <<>>)

\* What the header and its data make; a long name is for the entry after it.
EntryOf(h, longname, d) ==
  LET path == IF longname # <<>> THEN longname ELSE <<h.name>>
  IN IF d.kind = "external"
     THEN IF h.type \in {"regular", "continuous"} /\ h.size > INLINE_CONTENT_MAX
          THEN Item(path, "external", d.id) ELSE EntryError
     ELSE IF h.type = "directory" THEN Item(path, "directory", <<>>)
     ELSE IF Len(d.data) <= INLINE_CONTENT_MAX THEN Item(path, "inline", d.data)
     ELSE EntryError

\* One turn of the loop in get_entry, and of its caller's loop: s.found are the
\* entries returned, s.more is that the last answer was an entry.
GetEntry(s) ==
  LET b == read_inline_exact(s.reader, BLOCK)
      h == CHOOSE x \in Headers(b.data) : TRUE
      d == read_exact(b.reader, h.size, Stored(h.size))
      e == EntryOf(h, s.longname, d)
      Stop(x) == [s EXCEPT !.found = Append(@, x), !.more = FALSE]
  IN IF ~s.more THEN s
     ELSE IF b.kind = "error" THEN Stop(EntryError)
     ELSE IF b.kind = "eof" \/ b.data = Fill(BLOCK) THEN Stop(EndOfEntries)
     ELSE IF d.kind = "error" THEN Stop(EntryError)
     ELSE IF h.type = "longname" /\ d.kind = "inline"
          THEN [s EXCEPT !.reader = d.reader, !.longname = @ \o d.data]
     ELSE IF e = EntryError THEN Stop(EntryError)
     ELSE [s EXCEPT !.reader = d.reader, !.longname = <<>>, !.found = Append(@, e)]

Entries(file) ==
  FoldLeft(LAMBDA s, i : GetEntry(s),
           [reader |-> NewReader(file), longname |-> <<>>, found |-> <<>>, more |-> TRUE],
           [i \in 1..file.total_size + 1 |-> i]).found

-------------------------------------------------------------------------------
(* split_async: one for each layer *)

NoFile == [object_refs |-> <<>>, chunks |-> <<>>, total_size |-> 0]

\* An async function that reads a header, waits for a permit, streams a file to a
\* task, awaits the tasks, has returned an id, or an error.
PC == {"header", "permit", "send", "finish", "stored", "error"}

\* Blocking tasks: they receive, or have answered with an object or an error.
\* queue is the channel; closed, that its sender is gone.
NewTask == [pc |-> "receive", queue |-> <<>>, closed |-> FALSE, data |-> <<>>]

Init ==
  /\ archive \in Imports
  /\ layer = [l \in Layer |->
       [pc |-> "header", pos |-> 0, entries |-> <<>>, size |-> 0, remaining |-> 0, file |-> NoFile]]
  /\ tasks = [l \in Layer |-> <<>>]
  /\ permits = Permits
  /\ objects = {}

Input(l) == ArchiveBytes(archive[l])
Rest(l)  == From(Input(l), layer[l].pos)
Newest(l) == Len(tasks[l])

\* The sender of a channel is dropped with the function that holds it.
DropSender(l) ==
  tasks' = IF tasks[l] = <<>> THEN tasks ELSE [tasks EXCEPT ![l][Newest(l)].closed = TRUE]

Bail(l) ==
  /\ layer' = [layer EXCEPT ![l].pc = "error", ![l].size = 0, ![l].remaining = 0]
  /\ DropSender(l)
  /\ UNCHANGED <<archive, permits, objects>>

\* The end of the stream, between two blocks or inside one (read_exactish_async).
ReadEnd(l) ==
  /\ layer[l].pc = "header" /\ Rest(l) = <<>>
  /\ layer' = [layer EXCEPT ![l].pc = "finish"]
  /\ UNCHANGED <<archive, tasks, permits, objects>>

ReadPartialHeader(l) ==
  /\ layer[l].pc = "header" /\ Len(Rest(l)) \in 1..BLOCK - 1
  /\ Bail(l)

\* The stream itself fails, a download for example.
StreamFails(l) == layer[l].pc \in {"header", "send"} /\ Bail(l)

\* The block that is read next, and what is taken for its meaning.
HasBlock(l) == layer[l].pc = "header" /\ Len(Rest(l)) >= BLOCK
Block(l)    == SubSeq(Rest(l), 1, BLOCK)
HasHeader(l) == HasBlock(l) /\ Block(l) # Fill(BLOCK)

\* A block of the end of an archive: stored like the rest, and the loop goes on.
ReadZeros(l) ==
  /\ HasBlock(l) /\ Block(l) = Fill(BLOCK)
  /\ layer' = [layer EXCEPT ![l].pos = @ + BLOCK,
                            ![l].entries = push_inline(@, Fill(BLOCK))]
  /\ UNCHANGED <<archive, tasks, permits, objects>>

\* No number where the size should be: entry_size fails.
ReadGarbage(l) == HasHeader(l) /\ ~IsHeader(Block(l)) /\ Bail(l)

ReadInline(l) ==
  /\ HasHeader(l)
  /\ \E h \in Headers(Block(l)) :
       LET n == BLOCK + Stored(h.size)
       IN /\ ~IsLarge(h)
          /\ IF Len(Rest(l)) < n THEN Bail(l)
             ELSE /\ layer' = [layer EXCEPT
                        ![l].pos = @ + n,
                        ![l].entries = push_inline(push_inline(@, Block(l)),
                                                   SubSeq(Rest(l), BLOCK + 1, n))]
                  /\ UNCHANGED <<archive, tasks, permits, objects>>

ReadLarge(l) ==
  /\ HasHeader(l)
  /\ \E h \in Headers(Block(l)) :
       /\ IsLarge(h)
       /\ layer' = [layer EXCEPT ![l].pc = "permit", ![l].pos = @ + BLOCK, ![l].size = h.size,
                                 ![l].entries = push_inline(@, Block(l))]
  /\ UNCHANGED <<archive, tasks, permits, objects>>

\* acquire_owned, then the channel and the task, which has the permit.
Acquire(l) ==
  /\ layer[l].pc = "permit" /\ permits > 0
  /\ permits' = permits - 1
  /\ tasks' = [tasks EXCEPT ![l] = Append(@, NewTask)]
  /\ layer' = [layer EXCEPT ![l].pc = "send", ![l].remaining = layer[l].size]
  /\ UNCHANGED <<archive, objects>>

\* fill_buf gives some bytes; they are consumed when the channel has taken them.
Send(l) ==
  /\ layer[l].pc = "send" /\ layer[l].remaining > 0
  /\ LET t == tasks[l][Newest(l)]
     IN /\ t.pc = "receive" /\ Len(t.queue) < Capacity
        /\ \E n \in 1..Len(Rest(l)) :
             LET size == IF n < layer[l].remaining THEN n ELSE layer[l].remaining
             IN /\ tasks' = [tasks EXCEPT ![l][Newest(l)].queue = Append(@, SubSeq(Rest(l), 1, size))]
                /\ layer' = [layer EXCEPT ![l].pos = @ + size, ![l].remaining = @ - size]
  /\ UNCHANGED <<archive, permits, objects>>

UnexpectedEof(l) ==
  /\ layer[l].pc = "send" /\ layer[l].remaining > 0 /\ Rest(l) = <<>>
  /\ Bail(l)

\* Deliberate error, for the properties to find: SendEnds that pushes the padding before the file.
SendEndsPaddingFirst(l) ==
  LET padding == Stored(layer[l].size) - layer[l].size
  IN /\ layer[l].pc = "send"
     /\ layer[l].remaining = 0 \/ (tasks[l][Newest(l)].pc # "receive" /\ Rest(l) # <<>>)
     /\ IF Len(Rest(l)) < padding THEN Bail(l)
        ELSE /\ layer' = [layer EXCEPT
                  ![l].pc = "header", ![l].size = 0, ![l].remaining = 0,
                  ![l].pos = @ + padding,
                  ![l].entries = push_external(push_inline(@, SubSeq(Rest(l), 1, padding)),
                                               Newest(l), layer[l].size)]
             /\ DropSender(l)
             /\ UNCHANGED <<archive, permits, objects>>

\* The file is sent, or its receiver is gone: the sender is dropped, the task goes to
\* the builder, and then the padding, which is read from wherever the stream is now.
SendEnds(l) ==
  LET padding == Stored(layer[l].size) - layer[l].size
  IN /\ layer[l].pc = "send"
     /\ layer[l].remaining = 0 \/ (tasks[l][Newest(l)].pc # "receive" /\ Rest(l) # <<>>)
     /\ IF Len(Rest(l)) < padding THEN Bail(l)
        ELSE /\ layer' = [layer EXCEPT
                  ![l].pc = "header", ![l].size = 0, ![l].remaining = 0,
                  ![l].pos = @ + padding,
                  ![l].entries = push_inline(push_external(@, Newest(l), layer[l].size),
                                             SubSeq(Rest(l), 1, padding))]
             /\ DropSender(l)
             /\ UNCHANGED <<archive, permits, objects>>

-------------------------------------------------------------------------------
(* receive_and_finalize_object: a blocking task *)

\* A chunk is written to the file.
Receive(l, i) ==
  /\ tasks[l][i].pc = "receive" /\ tasks[l][i].queue # <<>>
  /\ tasks' = [tasks EXCEPT ![l][i].data = @ \o Head(tasks[l][i].queue),
                            ![l][i].queue = Tail(@)]
  /\ UNCHANGED <<archive, layer, permits, objects>>

\* The channel is empty and closed: finalize_object_tmpfile; the permit is dropped.
Finalize(l, i) ==
  /\ tasks[l][i].pc = "receive" /\ tasks[l][i].queue = <<>> /\ tasks[l][i].closed
  /\ tasks' = [tasks EXCEPT ![l][i].pc = "ok"]
  /\ objects' = objects \cup {tasks[l][i].data}
  /\ permits' = permits + 1
  /\ UNCHANGED <<archive, layer>>

\* Deliberate error: TaskFails that keeps the permit.
TaskFailsHolding(l, i) ==
  /\ tasks[l][i].pc = "receive"
  /\ tasks' = [tasks EXCEPT ![l][i].pc = "failed", ![l][i].queue = <<>>,
                            ![l][i].data = <<>>]
  /\ UNCHANGED <<archive, layer, permits, objects>>

\* The file cannot be made, written, sealed or linked; chunks in the channel are lost.
TaskFails(l, i) ==
  /\ tasks[l][i].pc = "receive"
  /\ tasks' = [tasks EXCEPT ![l][i].pc = "failed", ![l][i].queue = <<>>,
                            ![l][i].data = <<>>]
  /\ permits' = permits + 1
  /\ UNCHANGED <<archive, layer, objects>>

-------------------------------------------------------------------------------
(* SplitStreamBuilder::finish *)

\* The handles are awaited in the order of the entries; the first error ends it.
AwaitFailed(l) ==
  /\ layer[l].pc = "finish"
  /\ \E i \in DOMAIN tasks[l] :
       /\ tasks[l][i].pc = "failed"
       /\ \A j \in 1..i - 1 : tasks[l][j].pc = "ok"
  /\ Bail(l)

\* The stream itself cannot be stored.
StoreFailed(l) ==
  /\ layer[l].pc = "finish"
  /\ \A i \in DOMAIN tasks[l] : tasks[l][i].pc = "ok"
  /\ Bail(l)

\* Deliberate error: finish that takes a failed task for one that is done.
FinishAnyway(l) ==
  /\ layer[l].pc = "finish"
  /\ \A i \in DOMAIN tasks[l] : tasks[l][i].pc # "receive"
  /\ layer' = [layer EXCEPT ![l].pc = "stored",
                            ![l].file = Replay(layer[l].entries,
                                               [i \in DOMAIN tasks[l] |-> tasks[l][i].data])]
  /\ UNCHANGED <<archive, tasks, permits, objects>>

\* All tasks have answered: the stream is written from their answers.
finish(l) ==
  /\ layer[l].pc = "finish"
  /\ \A i \in DOMAIN tasks[l] : tasks[l][i].pc = "ok"
  /\ layer' = [layer EXCEPT ![l].pc = "stored",
                            ![l].file = Replay(layer[l].entries,
                                               [i \in DOMAIN tasks[l] |-> tasks[l][i].data])]
  /\ UNCHANGED <<archive, tasks, permits, objects>>

-------------------------------------------------------------------------------
Read(l)   == \/ ReadEnd(l) \/ ReadPartialHeader(l) \/ ReadZeros(l) \/ ReadGarbage(l)
             \/ ReadInline(l) \/ ReadLarge(l) \/ StreamFails(l)
Stream(l) == Acquire(l) \/ Send(l) \/ UnexpectedEof(l) \/ SendEnds(l)
Await(l)  == AwaitFailed(l) \/ StoreFailed(l) \/ finish(l)

Async(l)    == Read(l) \/ Stream(l) \/ Await(l)
Task(l, i)  == Receive(l, i) \/ Finalize(l, i) \/ TaskFails(l, i)

Next ==
  \/ \E l \in Layer : Async(l)
  \/ \E l \in Layer : \E i \in DOMAIN tasks[l] : Task(l, i)

Spec == Init /\ [][Next]_vars

\* The runtime polls every function, and runs blocking tasks.
FairSpec ==
  /\ Spec
  /\ \A l \in Layer : WF_vars(Async(l))
  /\ \A l \in Layer : WF_vars(\E i \in DOMAIN tasks[l] : Task(l, i))
===============================================================================
