----------------------------- MODULE SplitStream ------------------------------
(***************************************************************************)
(* Splitstreams (crates/composefs/src/splitstream.rs): a stream of bytes   *)
(* cut into inline chunks and references to objects.  A writer, a finished *)
(* file and a reader are records; each method is an operator from the old  *)
(* record to the new one.  The compressed body of a file is the sequence   *)
(* of its chunks, the integer n in front of each as the code writes it:    *)
(* negative for inline bytes, otherwise an index into object_refs.  An     *)
(* object is known by a hash of its content, here by the content itself.   *)
(***************************************************************************)
EXTENDS Integers, Sequences, SequencesExt

-------------------------------------------------------------------------------
(* UniqueVec: a sequence without repetition; indices count from 0 *)

IndexOf(v, x) == (CHOOSE i \in DOMAIN v : v[i] = x) - 1
Ensure(v, x)  == IF x \in ToSet(v) THEN v ELSE Append(v, x)

-------------------------------------------------------------------------------
(* SplitStreamWriter *)

NewWriter ==
  [chunks |-> <<>>, inline_buffer |-> <<>>, object_refs |-> <<>>, total_size |-> 0]

flush_inline(w) ==
  IF w.inline_buffer = <<>> THEN w
  ELSE [w EXCEPT !.chunks = Append(@, [n |-> -Len(w.inline_buffer), data |-> w.inline_buffer]),
                 !.inline_buffer = <<>>]

write_inline(w, data) ==
  [w EXCEPT !.total_size = @ + Len(data), !.inline_buffer = @ \o data]

write_reference(w, id) ==
  LET v == flush_inline(w)
      refs == Ensure(v.object_refs, id)
  IN [v EXCEPT !.object_refs = refs,
               !.chunks = Append(@, [n |-> IndexOf(refs, id), data |-> <<>>])]

add_external_size(w, size) == [w EXCEPT !.total_size = @ + size]

write_external(w, data) == write_reference(add_external_size(w, Len(data)), data)

\* The file that is stored as an object: the tables and the body.
done(w) ==
  LET v == flush_inline(w)
  IN [object_refs |-> v.object_refs, chunks |-> v.chunks, total_size |-> v.total_size]

-------------------------------------------------------------------------------
(* SplitStreamBuilder: entries first, references to objects when they are known *)

push_inline(entries, data) ==
  IF data = <<>> THEN entries
  ELSE IF entries # <<>> /\ Last(entries).task = 0
       THEN [entries EXCEPT ![Len(entries)].data = @ \o data]
       ELSE Append(entries, [task |-> 0, data |-> data, size |-> 0])

push_external(entries, task, size) ==
  Append(entries, [task |-> task, data |-> <<>>, size |-> size])

\* finish: the entries are replayed on a writer; ids[t] is the answer of task t.
Replay(entries, ids) ==
  done(FoldLeft(LAMBDA w, e : IF e.task = 0 THEN write_inline(w, e.data)
                              ELSE write_reference(add_external_size(w, e.size), ids[e.task]),
                NewWriter, entries))

-------------------------------------------------------------------------------
(* SplitStreamReader *)

NewReader(f) == [file |-> f, next |-> 1, inline_bytes |-> 0]

Failed   == [kind |-> "error"]
AtEof(r) == [kind |-> "eof", reader |-> r]
Inline(r) == [kind |-> "inline", reader |-> r]
External(r, id) == [kind |-> "external", reader |-> r, id |-> id]

ensure_chunk(r, eof_ok, ext_ok, expected) ==
  LET n     == r.file.chunks[r.next].n
      after == [r EXCEPT !.next = @ + 1]
      Of(s) == IF s.inline_bytes < expected THEN Failed ELSE Inline(s)
  IN IF r.inline_bytes # 0 THEN Of(r)
     ELSE IF r.next > Len(r.file.chunks) THEN IF eof_ok THEN AtEof(r) ELSE Failed
     ELSE IF n < 0 THEN Of([after EXCEPT !.inline_bytes = -n])
     ELSE IF ext_ok /\ n < Len(r.file.object_refs) THEN External(after, r.file.object_refs[n + 1])
     ELSE Failed

\* The next bytes of the chunk that the reader is in, and the reader after them.
Bytes(r, n) ==
  IF n = 0 THEN <<>>
  ELSE LET data == r.file.chunks[r.next - 1].data
       IN SubSeq(data, Len(data) - r.inline_bytes + 1, Len(data) - r.inline_bytes + n)
Skip(r, n) == [r EXCEPT !.inline_bytes = @ - n]

read_inline_exact(r, n) ==
  LET c == ensure_chunk(r, TRUE, FALSE, n)
  IN IF c.kind # "inline" THEN c
     ELSE [kind |-> "inline", reader |-> Skip(c.reader, n), data |-> Bytes(c.reader, n)]

\* Deliberate error: read_exact that leaves the padding of an object unread.
ReadExactUnpadded(r, actual_size, stored_size) ==
  LET c == ensure_chunk(r, FALSE, TRUE, stored_size)
  IN CASE c.kind = "error" -> Failed
       [] c.kind = "inline" ->
            [kind |-> "inline", reader |-> Skip(c.reader, stored_size),
             data |-> Bytes(c.reader, actual_size)]
       [] c.kind = "external" -> c

\* size bytes, stored with padding: an object and inline padding, or all inline.
read_exact(r, actual_size, stored_size) ==
  LET c   == ensure_chunk(r, FALSE, TRUE, stored_size)
      pad == ensure_chunk(c.reader, FALSE, FALSE, stored_size - actual_size)
  IN CASE c.kind = "error" -> Failed
       [] c.kind = "inline" ->
            [kind |-> "inline", reader |-> Skip(c.reader, stored_size),
             data |-> Bytes(c.reader, actual_size)]
       [] c.kind = "external" ->
            IF actual_size = stored_size THEN c
            ELSE IF pad.kind = "error" THEN Failed
            ELSE External(Skip(pad.reader, stored_size - actual_size), c.id)

\* cat: what the stream was split from.
Merged(f) ==
  FlattenSeq([i \in DOMAIN f.chunks |->
    IF f.chunks[i].n < 0 THEN f.chunks[i].data ELSE f.object_refs[f.chunks[i].n + 1]])
===============================================================================
