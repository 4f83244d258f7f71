---------------------------- MODULE TarSplitSafety ----------------------------
(***************************************************************************)
(* What an import of layers promises (TarSplit).                           *)
(***************************************************************************)
EXTENDS TarSplit

\* No more objects are being written at the same time, by all imports together,
\* than the semaphore of the repository has permits.
Receivers ==
  {t \in UNION {{l} \X DOMAIN tasks[l] : l \in Layer} : tasks[t[1]][t[2]].pc = "receive"}

WritersBounded == Cardinality(Receivers) + permits = Permits

TypeOK ==
  /\ archive \in Imports
  /\ \A l \in Layer :
       /\ layer[l].pc \in PC
       /\ layer[l].pos \in 0..Len(Input(l))
       /\ layer[l].remaining \in 0..layer[l].size
       /\ \A i \in DOMAIN tasks[l] : tasks[l][i].pc \in {"receive", "ok", "failed"}
       /\ \A e \in ToSet(layer[l].entries) : e.task \in 0..Len(tasks[l])
  /\ permits \in 0..Permits
  /\ WritersBounded

\* Every object that a stored stream refers to is in the repository already: finish
\* waits for all tasks before it stores the stream.
RefsStored ==
  \A l \in Layer : layer[l].pc = "stored" => ToSet(layer[l].file.object_refs) \subseteq objects

\* However the chunks fall and the tasks run, and whatever fails, what split_async
\* stores is what split writes for the same archive, and split accepts that archive:
\* a failed task, after which the loop reads file data as headers, a stream that
\* ends early and tasks that end out of order never lead to a stream of their own.
\* What the stream refers to is stored, and no more is written at a time than permitted.
ResultIsSplit ==
  /\ TypeOK
  /\ \A l \in Layer :
       layer[l].pc = "stored" =>
         LET s == split(Input(l)) IN ~s.failed /\ layer[l].file = s.file
  /\ RefsStored

\* What a task has received, and what the channel still holds for it.
Held(l, i) == tasks[l][i].data \o FlattenSeq(tasks[l][i].queue)

\* While no task has failed, every byte that was read is in exactly one place, the
\* builder, a channel or a task, and in order: what they hold is what was read.
NothingLostInFlight ==
  \A l \in Layer :
    layer[l].pc # "error" /\ (\A i \in DOMAIN tasks[l] : tasks[l][i].pc # "failed") =>
      LET entries == layer[l].entries
          built   == FlattenSeq([k \in DOMAIN entries |->
                       IF entries[k].task = 0 THEN entries[k].data ELSE Held(l, entries[k].task)])
      IN SubSeq(Input(l), 1, layer[l].pos) =
           built \o IF layer[l].pc = "send" THEN Held(l, Newest(l)) ELSE <<>>

-------------------------------------------------------------------------------
(* Reading back *)

\* What an archive describes, entry by entry: a long name is for the entry after it.
DescribedAfter(s, e) ==
  LET path == IF s.longname # <<>> THEN s.longname ELSE <<e.name>>
      one  == IF e.type = "directory" THEN Item(path, "directory", <<>>)
              ELSE Item(path, IF e.size > INLINE_CONTENT_MAX THEN "external" ELSE "inline", Content(e))
  IN IF s.ended \/ e.type = "end" THEN [s EXCEPT !.ended = TRUE]
     ELSE IF e.type = "longname" THEN [s EXCEPT !.longname = @ \o Content(e)]
     ELSE [s EXCEPT !.longname = <<>>, !.found = Append(@, one)]

\* The entries that an archive describes, up to its end.
Described(a) ==
  FoldLeft(LAMBDA s, e : DescribedAfter(s, e),
           [longname |-> <<>>, ended |-> FALSE, found |-> <<>>], a.entries).found

\* All archives but those that get_entry does not read back: those with large entries
\* that split leaves inline and get_entry refuses, contiguous files for example, and
\* those that end after an entry without data, without end-of-archive blocks, where it
\* meets an "Unexpected EOF".
Readable(a) ==
  /\ \A e \in ToSet(a.entries) :
       e.size > INLINE_CONTENT_MAX => e.type \in {"regular", "directory", "longname", "end"}
  /\ a.entries # <<>> /\ Last(a.entries).type # "end" => Last(a.entries).size > 0

\* Merging a stored stream (SplitStreamReader::cat) gives back the archive, byte
\* for byte, and its header tells the size of the archive.
MergesBack(l) ==
  /\ Merged(layer[l].file) = Input(l)
  /\ layer[l].file.total_size = Len(Input(l))

\* Every stream that is stored merges back.
StoredMerge == \A l \in Layer : layer[l].pc = "stored" => MergesBack(l)

\* What is stored can be read again.  cat gives back the archive; get_entry gives
\* back, from the stream alone, every entry of the archive in order: small files with
\* their content, large ones with the object that holds it, long names at the entry
\* they belong to; and then says that there are no more.
ReadsBack ==
  /\ StoredMerge
  /\ \A l \in Layer :
       layer[l].pc = "stored" /\ archive[l].cut = 0 /\ Readable(archive[l]) =>
         Entries(layer[l].file) = Append(Described(archive[l]), EndOfEntries)

-------------------------------------------------------------------------------
(* Liveness *)

\* Every import ends, with a stream or an error, and in the end all permits are back:
\* no import waits for a permit, a channel or a task that will never come, and a task
\* whose import was given up does not wait for more data.
ImportsEnd ==
  <>[](permits = Permits /\ \A l \in Layer : layer[l].pc \in {"stored", "error"})
===============================================================================
