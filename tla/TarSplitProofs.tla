---------------------------- MODULE TarSplitProofs ----------------------------
(***************************************************************************)
(* split_async stores what split writes, and loses nothing: for any        *)
(* archives, cut anywhere, any block size, any number of layers imported   *)
(* at the same time, of permits and of chunks in a channel, however the    *)
(* chunks fall, tasks run and fail.                                        *)
(*                                                                         *)
(* The argument: an import none of whose tasks has failed is where split   *)
(* would be on the same archive (Between, InFile), with every byte it has  *)
(* read in its builder or in a task (AllHeld).  Once a task has failed it  *)
(* may read file data as headers, but then it never stores a stream.       *)
(* Before it, what split computes, and a writer, are followed turn by      *)
(* turn; after it, split itself is shown to lose nothing, and get_entry to *)
(* return the entries again: after each turn its reader has read what the  *)
(* writer had written after the same entry (WrittenInto, Reads).           *)
(***************************************************************************)
EXTENDS TarSplitSafety, SequenceTheorems, DataLemmas

-------------------------------------------------------------------------------
(* Archives *)

\* What archives are made of.
Texts(field) == {""} \cup UNION {UNION {Fields(import[l], field) : l \in Layer} : import \in Imports}
Byte  == {"header", "data", "zero"} \X Texts("type") \X Texts("name") \X Nat \X Nat
Entry == [type : Texts("type"), name : Texts("name"), size : Nat]
IsArchive(a) == a.entries \in Seq(Entry) /\ a.cut \in 0 .. Len(WholeBytes(a))

\* What the numbers among the constants are.
LEMMA Blocks == BLOCK \in Nat /\ BLOCK > 0 /\ Permits \in Nat /\ INLINE_CONTENT_MAX \in Nat
BY TarConstants

\* Bytes in front of others, in front of others.
LEMMA BytesAssociative == \A a, b, c \in Seq(Byte) : (a \o b) \o c = a \o (b \o c)
BY Z3T(30)

\* next_multiple_of does not give less.
LEMMA StoredSize ==
  ASSUME NEW n \in Nat
  PROVE  Stored(n) \in Nat /\ Stored(n) >= n
<1> DEFINE q == (n + BLOCK - 1) \div BLOCK
           r == (n + BLOCK - 1) % BLOCK
<1>1. BLOCK \in Nat /\ BLOCK > 0
  BY Blocks
<1>2. q \in Int /\ r \in 0 .. BLOCK - 1 /\ n + BLOCK - 1 = BLOCK * q + r
  BY <1>1
<1>3. q >= 0
  BY <1>1, <1>2
<1>4. BLOCK * q \in Nat
  BY <1>1, <1>2, <1>3
<1>5. BLOCK * q >= n
  BY <1>1, <1>2, <1>4
<1>6. QED BY <1>4, <1>5 DEF Stored

\* A sequence is its first elements and the rest.
LEMMA SubSeqFacts ==
  ASSUME NEW X, NEW s \in Seq(X), NEW m \in 0 .. Len(s)
  PROVE  /\ From(s, m) \in Seq(X) /\ Len(From(s, m)) = Len(s) - m
         /\ SubSeq(s, 1, m) \in Seq(X) /\ Len(SubSeq(s, 1, m)) = m
         /\ SubSeq(s, 1, m) \o From(s, m) = s
         /\ \A k \in 0 .. Len(s) - m : From(From(s, m), k) = From(s, m + k)
<1>1. Len(s) \in Nat /\ m \in Nat /\ m <= Len(s)
  OBVIOUS
<1>2. From(s, m) \in Seq(X) /\ Len(From(s, m)) = Len(s) - m
  BY DEF From
<1>3. SubSeq(s, 1, m) \in Seq(X) /\ Len(SubSeq(s, 1, m)) = m
  OBVIOUS
<1>4. SubSeq(s, 1, m) \o From(s, m) = s
  <2>1. SubSeq(s, 1, m) \o SubSeq(s, m + 1, Len(s)) = SubSeq(s, 1, Len(s))
    <3>1. 1 \in 1 .. Len(s) + 1 /\ m \in 1 - 1 .. Len(s) /\ Len(s) \in m .. Len(s)
      BY <1>1
    <3>2. QED BY <3>1, ConcatAdjacentSubSeq
  <2>2. SubSeq(s, 1, Len(s)) = s
    BY SubSeqFull
  <2>3. QED BY <2>1, <2>2 DEF From
<1>5. \A k \in 0 .. Len(s) - m : From(From(s, m), k) = From(s, m + k)
  BY <1>1 DEF From
<1>6. QED BY <1>2, <1>3, <1>4, <1>5

\* Blocks of zeros.
LEMMA FillIs ==
  ASSUME NEW n \in Nat
  PROVE  /\ Fill(n) \in Seq(Byte) /\ Len(Fill(n)) = n
         /\ \A i \in 1 .. n : Fill(n)[i] = Zero
<1>1. Zero \in Byte
  <2>1. "" \in Texts("type") /\ "" \in Texts("name")
    BY DEF Texts
  <2>2. QED BY <2>1 DEF Zero, Byte
<1>2. QED BY <1>1 DEF Fill

\* A header can be told from anything else and says what it was made of.
LEMMA HeaderIs ==
  ASSUME NEW e \in Entry
  PROVE  /\ HeaderBlock(e) \in Seq(Byte) /\ Len(HeaderBlock(e)) = BLOCK
         /\ HeaderBlock(e) # Fill(BLOCK)
         /\ IsHeader(HeaderBlock(e)) /\ Headers(HeaderBlock(e)) = {e}
<1> DEFINE b == HeaderBlock(e)
<1>1. BLOCK \in Nat /\ BLOCK > 0 /\ 1 \in 1 .. BLOCK
  BY Blocks
<1>2. e.type \in Texts("type") /\ e.name \in Texts("name") /\ e.size \in Nat
      /\ e = [type |-> e.type, name |-> e.name, size |-> e.size]
  BY DEF Entry
<1>3. \A j \in 1 .. BLOCK : <<"header", e.type, e.name, e.size, j>> \in Byte
  BY <1>1, <1>2 DEF Byte
<1>4. b \in Seq(Byte) /\ Len(b) = BLOCK
  BY <1>1, <1>3 DEF HeaderBlock
<1>5. b[1] = <<"header", e.type, e.name, e.size, 1>>
  BY <1>1 DEF HeaderBlock
<1>6. b[1][1] = "header" /\ b[1][2] = e.type /\ b[1][3] = e.name /\ b[1][4] = e.size
  BY <1>5
<1>7. Fill(BLOCK)[1] = Zero /\ Zero[1] = "zero"
  BY <1>1 DEF Fill, Zero
<1> HIDE DEF b
<1>8. b # Fill(BLOCK)
  BY <1>6, <1>7
<1>9. e \in [type : {b[1][2]}, name : {b[1][3]}, size : {b[1][4]}]
  BY <1>2, <1>6
<1>10. IsHeader(b)
  BY <1>9 DEF IsHeader, b
<1>11. Headers(b) = {e}
  BY <1>2, <1>6, <1>10 DEF Headers
<1>12. QED BY <1>4, <1>8, <1>10, <1>11 DEF b

\* An entry is its header block and what it stores, in blocks.
LEMMA EntryIs ==
  ASSUME NEW e \in Entry
  PROVE  /\ EntryBytes(e) \in Seq(Byte)
         /\ e.type = "end" => EntryBytes(e) = Fill(BLOCK)
         /\ e.type # "end" =>
              /\ Len(EntryBytes(e)) = BLOCK + Stored(e.size)
              /\ SubSeq(EntryBytes(e), 1, BLOCK) = HeaderBlock(e)
<1>1. BLOCK \in Nat /\ e.size \in Nat
  BY Blocks DEF Entry
<1>2. Fill(BLOCK) \in Seq(Byte)
  BY <1>1, FillIs
<1>3. CASE e.type = "end"
  BY <1>2, <1>3 DEF EntryBytes
<1>4. CASE e.type # "end"
  <2> DEFINE h == HeaderBlock(e)
             c == Content(e)
             p == Fill(Stored(e.size) - e.size)
             m == Stored(e.size) - e.size
  <2>1. h \in Seq(Byte) /\ Len(h) = BLOCK
    BY HeaderIs
  <2>2. c \in Seq(Byte) /\ Len(c) = e.size
    <3>1. "" \in Texts("type") /\ e.name \in Texts("name")
      BY DEF Texts, Entry
    <3>2. "data" \in {"header", "data", "zero"}
      OBVIOUS
    <3>3. ASSUME NEW j \in 1 .. e.size PROVE <<"data", "", e.name, e.size, j>> \in Byte
      <4>1. j \in Nat
        BY <1>1
      <4>2. QED BY <1>1, <3>1, <3>2, <4>1 DEF Byte
    <3> DEFINE g == [j \in 1 .. e.size |-> <<"data", "", e.name, e.size, j>>]
    <3>4. g \in [1 .. e.size -> Byte]
      BY <3>3
    <3>5. c = g
      BY DEF Content
    <3> HIDE DEF g, c
    <3>6. QED BY <1>1, <3>4, <3>5
  <2>3. m \in Nat
    BY <1>1, StoredSize
  <2>4. p \in Seq(Byte) /\ Len(p) = m
    BY <2>3, FillIs
  <2>5. EntryBytes(e) = h \o c \o p
    BY <1>4 DEF EntryBytes
  <2> HIDE DEF h, c, p
  <2>6. h \o c \in Seq(Byte) /\ Len(h \o c) = BLOCK + e.size
    BY <2>1, <2>2
  <2>7. h \o c \o p \in Seq(Byte) /\ Len(h \o c \o p) = BLOCK + e.size + m
    BY <1>1, <2>3, <2>4, <2>6
  <2>8. SubSeq(h \o c \o p, 1, BLOCK) = h
    BY <1>1, <2>1, <2>2, <2>3, <2>4, <2>6, <2>7
  <2>9. Stored(e.size) \in Nat
    BY <1>1, StoredSize
  <2>10. BLOCK + e.size + m = BLOCK + Stored(e.size)
    BY <1>1, <2>9
  <2>11. QED BY <1>4, <2>5, <2>7, <2>8, <2>10 DEF h
<1>5. QED BY <1>3, <1>4

-------------------------------------------------------------------------------
(* Where the next entry begins *)

\* The bytes of entries, and what is left of an archive before an entry of it.
BytesOf(entries) == FlattenSeq([i \in DOMAIN entries |-> EntryBytes(entries[i])])

Aligned(rest) ==
  \E entries \in Seq(Entry) : \E m \in 0 .. Len(BytesOf(entries)) : rest = SubSeq(BytesOf(entries), 1, m)

\* The bytes of an archive: those of its first entry and those of the others.
LEMMA BytesTyped ==
  ASSUME NEW entries \in Seq(Entry)
  PROVE  /\ BytesOf(entries) \in Seq(Byte)
         /\ entries = <<>> => BytesOf(entries) = <<>>
         /\ entries # <<>> => /\ Head(entries) \in Entry /\ Tail(entries) \in Seq(Entry)
                              /\ BytesOf(entries) = EntryBytes(Head(entries)) \o BytesOf(Tail(entries))
<1> DEFINE n == Len(entries)
           seqs == [i \in DOMAIN entries |-> EntryBytes(entries[i])]
<1>1. n \in Nat /\ DOMAIN entries = 1 .. n /\ \A i \in 1 .. n : entries[i] \in Entry
  OBVIOUS
<1>2. \A i \in 1 .. n : EntryBytes(entries[i]) \in Seq(Byte)
  BY <1>1, EntryIs
<1>3. seqs \in Seq(Seq(Byte)) /\ Len(seqs) = n
  BY <1>1, <1>2
<1>4. BytesOf(entries) = FlattenSeq(seqs)
  BY DEF BytesOf
<1>5. \A i \in 1 .. n : seqs[i] = EntryBytes(entries[i])
  BY <1>1
<1> HIDE DEF seqs
<1>6. PICK f \in [0 .. Len(seqs) -> Seq(Byte)] : Flattens(f, seqs)
  BY <1>3, Flattening
<1>7. FlattenSeq(seqs) \in Seq(Byte) /\ (n = 0 => FlattenSeq(seqs) = <<>>)
  <2>1. f[0] = <<>> /\ FlattenSeq(seqs) = f[Len(seqs)]
    BY <1>6 DEF Flattens
  <2>2. Len(seqs) \in 0 .. Len(seqs)
    BY <1>1, <1>3
  <2>3. f[Len(seqs)] \in Seq(Byte)
    BY <1>6, <2>2
  <2>4. QED BY <1>3, <2>1, <2>3
<1>8. ASSUME entries # <<>>
      PROVE  /\ Head(entries) \in Entry /\ Tail(entries) \in Seq(Entry)
             /\ BytesOf(entries) = EntryBytes(Head(entries)) \o BytesOf(Tail(entries))
  <2> DEFINE rest == Tail(entries)
             bytes == [i \in DOMAIN rest |-> EntryBytes(rest[i])]
  <2>1. /\ n >= 1 /\ rest \in Seq(Entry) /\ DOMAIN rest = 1 .. n - 1 /\ Head(entries) = entries[1]
        /\ \A i \in 1 .. n - 1 : rest[i] = entries[i + 1]
    BY <1>1, <1>8
  <2>2. seqs # <<>> /\ Head(seqs) = EntryBytes(Head(entries))
    BY <1>1, <1>3, <1>5, <2>1
  <2>3. Tail(seqs) = bytes
    <3>1. Tail(seqs) \in Seq(Seq(Byte)) /\ Len(Tail(seqs)) = n - 1 /\ \A i \in 1 .. n - 1 : Tail(seqs)[i] = seqs[i + 1]
      BY <1>1, <1>3, <2>1, <2>2
    <3>2. \A i \in 1 .. n - 1 : i + 1 \in 1 .. n
      BY <1>1
    <3>3. \A i \in 1 .. n - 1 : Tail(seqs)[i] = bytes[i]
      BY <1>5, <2>1, <3>1, <3>2
    <3>4. DOMAIN bytes = 1 .. n - 1 /\ DOMAIN Tail(seqs) = 1 .. n - 1
      BY <2>1, <3>1
    <3>5. bytes = [i \in DOMAIN bytes |-> bytes[i]]
      OBVIOUS
    <3> HIDE DEF bytes
    <3> DEFINE tail == Tail(seqs)
    <3>6. tail \in Seq(Seq(Byte))
      BY <3>1
    <3> HIDE DEF tail
    <3>7. tail = [i \in DOMAIN tail |-> tail[i]]
      BY <3>6
    <3>8. Tail(seqs) = [i \in DOMAIN Tail(seqs) |-> Tail(seqs)[i]]
      BY <3>7 DEF tail
    <3>9. bytes = [i \in 1 .. n - 1 |-> bytes[i]] /\ Tail(seqs) = [i \in 1 .. n - 1 |-> Tail(seqs)[i]]
      BY <3>4, <3>5, <3>8
    <3>10. QED BY <3>3, <3>9
  <2>4. FlattenSeq(seqs) = Head(seqs) \o FlattenSeq(Tail(seqs))
    BY <1>3, <2>2, FlattenedHead
  <2>5. BytesOf(Tail(entries)) = FlattenSeq(Tail(seqs))
    BY <2>3 DEF BytesOf
  <2>6. Head(entries) \in Entry
    BY <1>1, <2>1
  <2>7. BytesOf(entries) = EntryBytes(Head(entries)) \o BytesOf(Tail(entries))
    BY <1>4, <2>2, <2>4, <2>5
  <2>8. QED BY <2>1, <2>6, <2>7
<1>9. entries = <<>> => n = 0
  OBVIOUS
<1>10. QED BY <1>4, <1>7, <1>8, <1>9

\* The first bytes of two sequences one after the other.
LEMMA BeginningOf ==
  ASSUME NEW X, NEW s \in Seq(X), NEW t \in Seq(X), NEW m \in Len(s) .. Len(s) + Len(t), NEW k \in 0 .. Len(s)
  PROVE  /\ SubSeq(SubSeq(s \o t, 1, m), 1, k) = SubSeq(s, 1, k)
         /\ From(SubSeq(s \o t, 1, m), Len(s)) = SubSeq(t, 1, m - Len(s))
<1> DEFINE all == s \o t
           u == SubSeq(all, 1, m)
<1>1. /\ all \in Seq(X) /\ Len(all) = Len(s) + Len(t) /\ Len(s) \in Nat /\ Len(t) \in Nat
      /\ \A i \in 1 .. Len(s) : all[i] = s[i]
      /\ \A i \in 1 .. Len(t) : all[Len(s) + i] = t[i]
  OBVIOUS
<1> HIDE DEF all
<1>2. u \in Seq(X) /\ Len(u) = m /\ \A i \in 1 .. m : u[i] = all[i]
  BY <1>1
<1> HIDE DEF u
<1>3. SubSeq(u, 1, k) = SubSeq(s, 1, k)
  <2> DEFINE a == SubSeq(u, 1, k)
             b == SubSeq(s, 1, k)
  <2>1. k \in 0 .. m /\ k \in 0 .. Len(s) /\ m \in Nat
    BY <1>1
  <2>2. a \in Seq(X) /\ Len(a) = k /\ \A i \in 1 .. k : a[i] = u[i]
    BY <1>2, <2>1
  <2>3. b \in Seq(X) /\ Len(b) = k /\ \A i \in 1 .. k : b[i] = s[i]
    BY <2>1
  <2>4. \A i \in 1 .. k : i \in 1 .. m /\ i \in 1 .. Len(s)
    BY <1>1, <2>1
  <2>5. \A i \in 1 .. k : a[i] = b[i]
    BY <1>1, <1>2, <2>2, <2>3, <2>4
  <2> HIDE DEF a, b
  <2>6. a = b
    BY <2>2, <2>3, <2>5
  <2>7. QED BY <2>6 DEF a, b
<1>4. From(u, Len(s)) = SubSeq(t, 1, m - Len(s))
  <2> DEFINE a == SubSeq(u, Len(s) + 1, Len(u))
             b == SubSeq(t, 1, m - Len(s))
  <2>1. a \in Seq(X) /\ Len(a) = m - Len(s) /\ \A i \in 1 .. m - Len(s) : a[i] = u[Len(s) + i]
    BY <1>1, <1>2
  <2>2. b \in Seq(X) /\ Len(b) = m - Len(s) /\ \A i \in 1 .. m - Len(s) : b[i] = t[i]
    BY <1>1
  <2>3. \A i \in 1 .. m - Len(s) : Len(s) + i \in 1 .. m /\ i \in 1 .. Len(t)
    BY <1>1
  <2>4. \A i \in 1 .. m - Len(s) : a[i] = b[i]
    BY <1>1, <1>2, <2>1, <2>2, <2>3
  <2> HIDE DEF a, b
  <2>5. a = b
    BY <2>1, <2>2, <2>4
  <2>6. QED BY <2>5 DEF a, b, From
<1>5. QED BY <1>3, <1>4 DEF u, all

\* Before an entry, the next block ends an archive or is a header, and after the entry
\* comes the next one.
LEMMA NextEntry ==
  ASSUME NEW rest \in Seq(Byte), Aligned(rest), Len(rest) >= BLOCK
  PROVE  \/ SubSeq(rest, 1, BLOCK) = Fill(BLOCK) /\ Aligned(From(rest, BLOCK))
         \/ \E e \in Entry :
              /\ SubSeq(rest, 1, BLOCK) = HeaderBlock(e)
              /\ Len(rest) >= BLOCK + Stored(e.size) => Aligned(From(rest, BLOCK + Stored(e.size)))
<1>1. PICK entries \in Seq(Entry) : \E m \in 0 .. Len(BytesOf(entries)) : rest = SubSeq(BytesOf(entries), 1, m)
  BY DEF Aligned
<1>2. PICK m \in 0 .. Len(BytesOf(entries)) : rest = SubSeq(BytesOf(entries), 1, m)
  BY <1>1
<1>3. BLOCK \in Nat /\ BLOCK > 0
  BY Blocks
<1>4. BytesOf(entries) \in Seq(Byte) /\ Len(rest) = m
  BY <1>2, BytesTyped
<1>5. entries # <<>>
  <2>1. ASSUME entries = <<>> PROVE FALSE
    <3>1. BytesOf(entries) = <<>>
      BY <1>1, <2>1, BytesTyped
    <3>2. Len(BytesOf(entries)) = 0
      BY <3>1
    <3>3. QED BY <1>3, <1>4, <3>2
  <2>2. QED BY <2>1
<1> DEFINE e == Head(entries)
           s == EntryBytes(e)
           others == Tail(entries)
           t == BytesOf(others)
<1>6. e \in Entry /\ others \in Seq(Entry) /\ BytesOf(entries) = s \o t
  BY <1>5, BytesTyped
<1> HIDE DEF e, others
<1>7. s \in Seq(Byte) /\ t \in Seq(Byte)
  BY <1>6, EntryIs, BytesTyped
<1>8. m \in Nat /\ m <= Len(s) + Len(t) /\ Len(s) \in Nat /\ Len(t) \in Nat
  BY <1>2, <1>4, <1>6, <1>7
<1>9. ASSUME m >= Len(s) PROVE Aligned(From(rest, Len(s)))
  <2>1. m \in Len(s) .. Len(s) + Len(t) /\ 0 \in 0 .. Len(s)
    BY <1>8, <1>9
  <2>2. From(rest, Len(s)) = SubSeq(t, 1, m - Len(s))
    BY <1>2, <1>6, <1>7, <2>1, BeginningOf
  <2>3. m - Len(s) \in 0 .. Len(BytesOf(others))
    BY <1>8, <1>9
  <2>4. QED BY <1>6, <2>2, <2>3 DEF Aligned
<1>10. ASSUME NEW k \in 0 .. Len(s), m >= k PROVE SubSeq(rest, 1, k) = SubSeq(s, 1, k)
  <2> DEFINE all == s \o t
  <2>1. /\ all \in Seq(Byte) /\ Len(all) = Len(s) + Len(t) /\ \A i \in 1 .. Len(s) : all[i] = s[i]
        /\ rest = SubSeq(all, 1, m)
    BY <1>2, <1>6, <1>7
  <2> HIDE DEF all, s, t
  <2>2. QED BY <1>7, <1>8, <1>10, <2>1
<1>11. CASE e.type = "end"
  <2>1. s = Fill(BLOCK) /\ Len(s) = BLOCK
    BY <1>3, <1>6, <1>11, EntryIs, FillIs
  <2>2. SubSeq(rest, 1, BLOCK) = SubSeq(s, 1, BLOCK)
    BY <1>3, <1>4, <1>10, <2>1
  <2>3. SubSeq(s, 1, BLOCK) = s
    BY <1>7, <2>1, SubSeqFull
  <2>4. Aligned(From(rest, BLOCK))
    BY <1>4, <1>9, <2>1
  <2>5. QED BY <2>1, <2>2, <2>3, <2>4
<1>12. CASE e.type # "end"
  <2>1. Len(s) = BLOCK + Stored(e.size) /\ SubSeq(s, 1, BLOCK) = HeaderBlock(e)
    BY <1>6, <1>12, EntryIs
  <2>2. e.size \in Nat /\ Stored(e.size) \in Nat
    BY <1>6, StoredSize DEF Entry
  <2>3. BLOCK \in 0 .. Len(s)
    BY <1>3, <2>1, <2>2
  <2>4. SubSeq(rest, 1, BLOCK) = HeaderBlock(e)
    BY <1>4, <1>10, <2>1, <2>3
  <2>5. Len(rest) >= BLOCK + Stored(e.size) => Aligned(From(rest, BLOCK + Stored(e.size)))
    BY <1>4, <1>9, <2>1
  <2>6. QED BY <1>6, <2>4, <2>5
<1>13. QED BY <1>11, <1>12

-------------------------------------------------------------------------------
(* split, turn by turn *)

StartOf(bytes) == [rest |-> bytes, writer |-> NewWriter, failed |-> FALSE]

\* What split comes through on n bytes, and its result.
Turns(turn, bytes, n) ==
  /\ turn[0] = StartOf(bytes)
  /\ \A i \in 1 .. n : turn[i] = SplitEntry(turn[i - 1])
  /\ split(bytes) = [failed |-> turn[n].failed, file |-> done(turn[n].writer)]

\* The fold in split goes from turn to turn.
LEMMA TurnSteps ==
  ASSUME NEW bytes, NEW n \in Nat, Len(bytes) = n
  PROVE  \E turn : Turns(turn, bytes, n)
<1> DEFINE base == StartOf(bytes)
           result == FoldLeft(LAMBDA t, i : SplitEntry(t), base, [i \in 1 .. n |-> i])
           q == [i \in 1 .. n |-> i]
           Is(it, k) == it = [s \in SUBSET (1 .. k) |->
                               IF s = {} THEN base ELSE SplitEntry(it[s \ {Max(s)}])]
           G == {k \in 0 .. n : \E it : Is(it, k)}
<1>1. DOMAIN q = 1 .. n /\ \A i \in 1 .. n : q[i] = i
  OBVIOUS
<1>2. result = FoldLeft(LAMBDA t, i : SplitEntry(t), base, q)
  BY DEF result
<1> HIDE DEF base, q, result
<1>3. FoldLeft(LAMBDA t, i : SplitEntry(t), base, q)
      = (CHOOSE it : it = [s \in SUBSET DOMAIN q |->
            IF s = {} THEN base ELSE SplitEntry(it[s \ {Max(s)}])])[DOMAIN q]
  BY DEF FoldLeft, MapThenFoldSet
<1>4. 0 \in G
  <2> DEFINE it == [s \in SUBSET (1 .. 0) |-> base]
  <2>1. \A s \in SUBSET (1 .. 0) : s = {}
    OBVIOUS
  <2>2. Is(it, 0)
    BY <2>1
  <2> HIDE DEF it, Is
  <2>3. QED BY <2>2
<1>5. ASSUME NEW k \in 1 .. n, k - 1 \in G PROVE k \in G
  <2>1. PICK old : Is(old, k - 1)
    BY <1>5
  <2> DEFINE it == [s \in SUBSET (1 .. k) |->
                      IF k \in s THEN SplitEntry(old[s \ {k}]) ELSE old[s]]
  <2>2. ASSUME NEW s \in SUBSET (1 .. k), k \notin s
        PROVE  s \in SUBSET (1 .. (k - 1)) /\ it[s] = old[s]
    BY <2>2
  <2>3. ASSUME NEW s \in SUBSET (1 .. k)
        PROVE  it[s] = IF s = {} THEN base ELSE SplitEntry(it[s \ {Max(s)}])
    <3>1. CASE k \in s
      <4>1. Max(s) = k
        BY <3>1, GreatestNumber
      <4>2. s \ {k} \in SUBSET (1 .. k) /\ k \notin s \ {k}
        OBVIOUS
      <4>3. it[s \ {k}] = old[s \ {k}]
        BY <2>2, <4>2
      <4>4. it[s] = SplitEntry(old[s \ {k}])
        BY <3>1
      <4>5. QED BY <3>1, <4>1, <4>3, <4>4
    <3>2. CASE k \notin s /\ s # {}
      <4>1. Max(s) \in s
        BY <3>2, GreatestNumber
      <4>2. s \ {Max(s)} \in SUBSET (1 .. k) /\ k \notin s \ {Max(s)}
        BY <3>2
      <4>3. it[s \ {Max(s)}] = old[s \ {Max(s)}] /\ it[s] = old[s] /\ s \in SUBSET (1 .. (k - 1))
        BY <2>2, <3>2, <4>2
      <4> HIDE DEF it
      <4>4. old[s] = SplitEntry(old[s \ {Max(s)}])
        BY <2>1, <3>2, <4>3
      <4>5. QED BY <3>2, <4>3, <4>4
    <3>3. CASE s = {}
      <4>1. it[s] = old[s] /\ s \in SUBSET (1 .. (k - 1))
        BY <2>2, <3>3
      <4> HIDE DEF it
      <4>2. QED BY <2>1, <3>3, <4>1
    <3>4. QED BY <3>1, <3>2, <3>3
  <2>4. Is(it, k)
    <3> DEFINE r == [s \in SUBSET (1 .. k) |->
                      IF s = {} THEN base ELSE SplitEntry(it[s \ {Max(s)}])]
    <3>1. DOMAIN it = SUBSET (1 .. k) /\ it = [s \in SUBSET (1 .. k) |-> it[s]]
      OBVIOUS
    <3> HIDE DEF it
    <3>2. \A s \in SUBSET (1 .. k) : it[s] = r[s]
      BY <2>3
    <3>3. it = r
      BY <3>1, <3>2
    <3>4. QED BY <3>3
  <2> HIDE DEF it, Is
  <2>5. QED BY <2>4
<1>6. n \in G
  <2> HIDE DEF G
  <2>1. 0 .. n \subseteq G
    BY <1>4, <1>5, IndexInduction
  <2>2. QED BY <2>1
<1>7. \E it : it = [s \in SUBSET DOMAIN q |->
            IF s = {} THEN base ELSE SplitEntry(it[s \ {Max(s)}])]
  <2> DEFINE IsOn(it, D) == it = [s \in SUBSET D |->
                                   IF s = {} THEN base ELSE SplitEntry(it[s \ {Max(s)}])]
  <2>1. \E it : Is(it, n)
    <3> HIDE DEF Is
    <3>1. QED BY <1>6
  <2>2. \E it : IsOn(it, 1 .. n)
    BY <2>1
  <2>3. DOMAIN q = 1 .. n
    BY <1>1
  <2>4. \E it : IsOn(it, DOMAIN q)
    <3> HIDE DEF IsOn
    <3>1. QED BY <2>2, <2>3
  <2>5. QED BY <2>4
<1>8. PICK it : /\ Is(it, n)
                /\ result = it[1 .. n]
  BY <1>1, <1>2, <1>3, <1>7
<1> DEFINE turn == [i \in 0 .. n |-> it[1 .. i]]
<1>9. turn[0] = base
  <2>1. 1 .. 0 = {} /\ {} \in SUBSET (1 .. n)
    OBVIOUS
  <2>2. QED BY <1>8, <2>1
<1>10. ASSUME NEW i \in 1 .. n PROVE turn[i] = SplitEntry(turn[i - 1])
  <2>1. /\ 1 .. i \in SUBSET (1 .. n) /\ 1 .. i \in SUBSET (1 .. i) /\ i \in 1 .. i
        /\ (1 .. i) \ {i} = 1 .. (i - 1) /\ i - 1 \in 0 .. n
    OBVIOUS
  <2>2. Max(1 .. i) = i
    <3> DEFINE T == 1 .. i
    <3>1. T \in SUBSET (1 .. i) /\ T # {} /\ i \in T /\ i \in Nat
      BY <2>1
    <3> HIDE DEF T
    <3>2. Max(T) = i
      BY <3>1, GreatestNumber
    <3>3. QED BY <3>2 DEF T
  <2>3. it[1 .. i] = SplitEntry(it[1 .. (i - 1)])
    BY <1>8, <2>1, <2>2
  <2>4. QED BY <1>1, <2>1, <2>3
<1>11. turn[n] = result
  <2>1. n \in 0 .. n
    OBVIOUS
  <2>2. QED BY <1>8, <2>1
<1> HIDE DEF turn
<1>12. split(bytes) = [failed |-> turn[n].failed, file |-> done(turn[n].writer)]
  BY <1>11 DEF split, result, base, StartOf
<1>13. QED BY <1>9, <1>10, <1>12 DEF base, Turns

\* Without having failed, split comes to where it has this left to read and has written that.
ComesTo(bytes, rest, writer) ==
  \E turn : /\ Turns(turn, bytes, Len(bytes))
            /\ \E k \in 0 .. Len(bytes) - Len(rest) :
                 turn[k] = [rest |-> rest, writer |-> writer, failed |-> FALSE]

\* At the start everything is left to read.
LEMMA SplitBegins ==
  ASSUME NEW bytes \in Seq(Byte)
  PROVE  ComesTo(bytes, bytes, NewWriter)
<1> DEFINE n == Len(bytes)
<1>1. n \in Nat /\ 0 \in 0 .. n - n
  OBVIOUS
<1>2. \E turn : Turns(turn, bytes, n)
  BY <1>1, TurnSteps
<1> HIDE DEF n
<1>3. PICK turn : Turns(turn, bytes, n)
  BY <1>2
<1>4. turn[0] = [rest |-> bytes, writer |-> NewWriter, failed |-> FALSE]
  BY <1>3 DEF Turns, StartOf
<1>5. QED BY <1>1, <1>3, <1>4 DEF ComesTo, n

\* One turn more that does not fail and reads something.
LEMMA SplitTurns ==
  ASSUME NEW bytes \in Seq(Byte), NEW rest \in Seq(Byte), NEW writer, ComesTo(bytes, rest, writer),
         NEW rest2 \in Seq(Byte), NEW writer2, Len(rest2) < Len(rest), Len(rest) <= Len(bytes),
         SplitEntry([rest |-> rest, writer |-> writer, failed |-> FALSE])
           = [rest |-> rest2, writer |-> writer2, failed |-> FALSE]
  PROVE  ComesTo(bytes, rest2, writer2)
<1>1. PICK turn : /\ Turns(turn, bytes, Len(bytes))
                  /\ \E k \in 0 .. Len(bytes) - Len(rest) :
                       turn[k] = [rest |-> rest, writer |-> writer, failed |-> FALSE]
  BY DEF ComesTo
<1>2. PICK k \in 0 .. Len(bytes) - Len(rest) :
        turn[k] = [rest |-> rest, writer |-> writer, failed |-> FALSE]
  BY <1>1
<1>3. Len(bytes) \in Nat /\ Len(rest) \in Nat /\ Len(rest2) \in Nat
  OBVIOUS
<1>4. k + 1 \in 1 .. Len(bytes) /\ k + 1 \in 0 .. Len(bytes) - Len(rest2) /\ (k + 1) - 1 = k
  BY <1>3
<1>5. turn[k + 1] = SplitEntry(turn[k])
  BY <1>1, <1>4 DEF Turns
<1>6. turn[k + 1] = [rest |-> rest2, writer |-> writer2, failed |-> FALSE]
  BY <1>2, <1>5
<1>7. QED BY <1>1, <1>4, <1>6 DEF ComesTo

\* Where nothing is left to read, split is done.
LEMMA SplitEnds ==
  ASSUME NEW bytes \in Seq(Byte), NEW writer, ComesTo(bytes, <<>>, writer)
  PROVE  split(bytes) = [failed |-> FALSE, file |-> done(writer)]
<1> DEFINE n == Len(bytes)
           last == [rest |-> <<>>, writer |-> writer, failed |-> FALSE]
<1>1. n \in Nat /\ n - Len(<<>>) = n
  OBVIOUS
<1>2. PICK turn : Turns(turn, bytes, n) /\ \E k \in 0 .. n : turn[k] = last
  BY <1>1 DEF ComesTo
<1>3. PICK k \in 0 .. n : turn[k] = last
  BY <1>2
<1>4. SplitEntry(last) = last
  BY DEF SplitEntry
<1>5. last.failed = FALSE /\ last.writer = writer
  OBVIOUS
<1> HIDE DEF n, last
<1> DEFINE G == {i \in 0 .. n : i >= k => turn[i] = last}
<1>6. 0 \in G
  BY <1>1, <1>3
<1>7. ASSUME NEW i \in 1 .. n, i - 1 \in G PROVE i \in G
  <2>1. turn[i] = SplitEntry(turn[i - 1])
    BY <1>2 DEF Turns
  <2>2. CASE i - 1 >= k
    BY <1>4, <1>7, <2>1, <2>2
  <2>3. CASE ~(i - 1 >= k)
    <3>1. i >= k => i = k
      BY <1>1, <2>3
    <3>2. QED BY <1>1, <1>3, <3>1
  <2>4. QED BY <2>2, <2>3
<1>8. 0 .. n \subseteq G
  <2> HIDE DEF G
  <2>1. QED BY <1>1, <1>6, <1>7, IndexInduction
<1>9. turn[n] = last
  BY <1>1, <1>8
<1>10. split(bytes) = [failed |-> turn[n].failed, file |-> done(turn[n].writer)]
  BY <1>2 DEF Turns
<1>11. QED BY <1>5, <1>9, <1>10

-------------------------------------------------------------------------------
(* What is written from the entries of a builder *)

ReplayEntry(w, e, ids) ==
  IF e.task = 0 THEN write_inline(w, e.data)
  ELSE write_reference(add_external_size(w, e.size), ids[e.task])

WriterOf(entries, ids) == FoldLeft(LAMBDA w, e : ReplayEntry(w, e, ids), NewWriter, entries)

Replays(after, entries, ids, n) ==
  /\ after[0] = NewWriter
  /\ \A i \in 1 .. n : after[i] = ReplayEntry(after[i - 1], entries[i], ids)
  /\ WriterOf(entries, ids) = after[n]

\* The fold in Replay goes from entry to entry.
LEMMA ReplaySteps ==
  ASSUME NEW q, NEW ids, NEW n \in Nat, DOMAIN q = 1 .. n
  PROVE  \E after : Replays(after, q, ids, n)
<1> DEFINE base == NewWriter
           Is(it, k) == it = [s \in SUBSET (1 .. k) |->
                               IF s = {} THEN base ELSE ReplayEntry(it[s \ {Max(s)}], q[Max(s)], ids)]
           G == {k \in 0 .. n : \E it : Is(it, k)}
<1>1. DOMAIN q = 1 .. n
  OBVIOUS
<1>2. WriterOf(q, ids) = FoldLeft(LAMBDA w, e : ReplayEntry(w, e, ids), base, q)
  BY DEF WriterOf
<1> HIDE DEF base
<1>3. FoldLeft(LAMBDA w, e : ReplayEntry(w, e, ids), base, q)
      = (CHOOSE it : it = [s \in SUBSET DOMAIN q |->
            IF s = {} THEN base ELSE ReplayEntry(it[s \ {Max(s)}], q[Max(s)], ids)])[DOMAIN q]
  BY DEF FoldLeft, MapThenFoldSet
<1>4. 0 \in G
  <2> DEFINE it == [s \in SUBSET (1 .. 0) |-> base]
  <2>1. \A s \in SUBSET (1 .. 0) : s = {}
    OBVIOUS
  <2>2. Is(it, 0)
    BY <2>1
  <2> HIDE DEF it, Is
  <2>3. QED BY <2>2
<1>5. ASSUME NEW k \in 1 .. n, k - 1 \in G PROVE k \in G
  <2>1. PICK old : Is(old, k - 1)
    BY <1>5
  <2> DEFINE it == [s \in SUBSET (1 .. k) |->
                      IF k \in s THEN ReplayEntry(old[s \ {k}], q[k], ids) ELSE old[s]]
  <2>2. ASSUME NEW s \in SUBSET (1 .. k), k \notin s
        PROVE  s \in SUBSET (1 .. (k - 1)) /\ it[s] = old[s]
    BY <2>2
  <2>3. ASSUME NEW s \in SUBSET (1 .. k)
        PROVE  it[s] = IF s = {} THEN base ELSE ReplayEntry(it[s \ {Max(s)}], q[Max(s)], ids)
    <3>1. CASE k \in s
      <4>1. Max(s) = k
        BY <3>1, GreatestNumber
      <4>2. s \ {k} \in SUBSET (1 .. k) /\ k \notin s \ {k}
        OBVIOUS
      <4>3. it[s \ {k}] = old[s \ {k}]
        BY <2>2, <4>2
      <4>4. it[s] = ReplayEntry(old[s \ {k}], q[k], ids)
        BY <3>1
      <4>5. QED BY <3>1, <4>1, <4>3, <4>4
    <3>2. CASE k \notin s /\ s # {}
      <4>1. Max(s) \in s
        BY <3>2, GreatestNumber
      <4>2. s \ {Max(s)} \in SUBSET (1 .. k) /\ k \notin s \ {Max(s)}
        BY <3>2
      <4>3. it[s \ {Max(s)}] = old[s \ {Max(s)}] /\ it[s] = old[s] /\ s \in SUBSET (1 .. (k - 1))
        BY <2>2, <3>2, <4>2
      <4> HIDE DEF it
      <4>4. old[s] = ReplayEntry(old[s \ {Max(s)}], q[Max(s)], ids)
        BY <2>1, <3>2, <4>3
      <4>5. QED BY <3>2, <4>3, <4>4
    <3>3. CASE s = {}
      <4>1. it[s] = old[s] /\ s \in SUBSET (1 .. (k - 1))
        BY <2>2, <3>3
      <4> HIDE DEF it
      <4>2. QED BY <2>1, <3>3, <4>1
    <3>4. QED BY <3>1, <3>2, <3>3
  <2>4. Is(it, k)
    <3> DEFINE r == [s \in SUBSET (1 .. k) |->
                      IF s = {} THEN base ELSE ReplayEntry(it[s \ {Max(s)}], q[Max(s)], ids)]
    <3>1. DOMAIN it = SUBSET (1 .. k) /\ it = [s \in SUBSET (1 .. k) |-> it[s]]
      OBVIOUS
    <3> HIDE DEF it
    <3>2. \A s \in SUBSET (1 .. k) : it[s] = r[s]
      BY <2>3
    <3>3. it = r
      BY <3>1, <3>2
    <3>4. QED BY <3>3
  <2> HIDE DEF it, Is
  <2>5. QED BY <2>4
<1>6. n \in G
  <2> HIDE DEF G
  <2>1. 0 .. n \subseteq G
    BY <1>4, <1>5, IndexInduction
  <2>2. QED BY <2>1
<1>7. \E it : it = [s \in SUBSET DOMAIN q |->
            IF s = {} THEN base ELSE ReplayEntry(it[s \ {Max(s)}], q[Max(s)], ids)]
  BY <1>1, <1>6
<1>8. PICK it : /\ Is(it, n)
                /\ WriterOf(q, ids) = it[1 .. n]
  BY <1>1, <1>2, <1>3, <1>7
<1> DEFINE after == [i \in 0 .. n |-> it[1 .. i]]
<1>9. after[0] = base
  <2>1. 1 .. 0 = {} /\ {} \in SUBSET (1 .. n)
    OBVIOUS
  <2>2. QED BY <1>8, <2>1
<1>10. ASSUME NEW i \in 1 .. n PROVE after[i] = ReplayEntry(after[i - 1], q[i], ids)
  <2>1. /\ 1 .. i \in SUBSET (1 .. n) /\ 1 .. i \in SUBSET (1 .. i) /\ i \in 1 .. i
        /\ (1 .. i) \ {i} = 1 .. (i - 1) /\ i - 1 \in 0 .. n
    OBVIOUS
  <2>2. Max(1 .. i) = i
    <3> DEFINE T == 1 .. i
    <3>1. T \in SUBSET (1 .. i) /\ T # {} /\ i \in T /\ i \in Nat
      BY <2>1
    <3> HIDE DEF T
    <3>2. Max(T) = i
      BY <3>1, GreatestNumber
    <3>3. QED BY <3>2 DEF T
  <2>3. it[1 .. i] = ReplayEntry(it[1 .. (i - 1)], q[i], ids)
    BY <1>8, <2>1, <2>2
  <2>4. QED BY <1>1, <2>1, <2>3
<1>11. after[n] = WriterOf(q, ids)
  <2>1. n \in 0 .. n
    OBVIOUS
  <2>2. QED BY <1>8, <2>1
<1> HIDE DEF after
<1>12. QED BY <1>9, <1>10, <1>11 DEF base, Replays

-------------------------------------------------------------------------------
(* The writer *)

Chunk == [n : Int, data : Seq(Byte)]
Writer ==
  [chunks : Seq(Chunk), inline_buffer : Seq(Byte), object_refs : Seq(Seq(Byte)), total_size : Nat]

\* An entry of a builder.
Part == [task : Nat, data : Seq(Byte), size : Nat]

\* A writer starts as one.
LEMMA NewWriterIs == NewWriter \in Writer
BY DEF NewWriter, Writer

\* write_inline, field by field.
LEMMA InlineIs ==
  ASSUME NEW w \in Writer, NEW a
  PROVE  write_inline(w, a) = [chunks |-> w.chunks, inline_buffer |-> w.inline_buffer \o a,
                               object_refs |-> w.object_refs, total_size |-> w.total_size + Len(a)]
<1> DEFINE x == w.total_size + Len(a)
           y == w.inline_buffer \o a
<1>1. write_inline(w, a) = [w EXCEPT !.total_size = x, !.inline_buffer = y]
  BY DEF write_inline
<1> HIDE DEF x, y
<1> DEFINE r == [w EXCEPT !.total_size = x, !.inline_buffer = y]
           t == [chunks |-> w.chunks, inline_buffer |-> y, object_refs |-> w.object_refs, total_size |-> x]
           fields == {"chunks", "inline_buffer", "object_refs", "total_size"}
<1>2. DOMAIN w = fields
  BY DEF Writer
<1>3. DOMAIN r = fields /\ r = [i \in fields |-> r[i]]
  BY <1>2
<1>4. /\ r.total_size = x /\ r.inline_buffer = y
      /\ r.chunks = w.chunks /\ r.object_refs = w.object_refs
  BY <1>2
<1>5. t = [i \in fields |-> t[i]]
  OBVIOUS
<1>6. /\ t.total_size = x /\ t.inline_buffer = y
      /\ t.chunks = w.chunks /\ t.object_refs = w.object_refs
  OBVIOUS
<1> HIDE DEF r, t
<1>7. \A i \in fields : r[i] = t[i]
  BY <1>4, <1>6
<1> HIDE DEF fields
<1>8. r = t
  BY <1>3, <1>5, <1>7
<1>9. [w EXCEPT !.total_size = x, !.inline_buffer = y]
        = [chunks |-> w.chunks, inline_buffer |-> y, object_refs |-> w.object_refs, total_size |-> x]
  BY <1>8 DEF r, t
<1>10. QED BY <1>1, <1>9 DEF x, y

\* Two writes are one, and no bytes are no write.
LEMMA InlineWritten ==
  ASSUME NEW w \in Writer, NEW a \in Seq(Byte), NEW b \in Seq(Byte)
  PROVE  /\ write_inline(w, a) \in Writer /\ write_inline(w, a).object_refs = w.object_refs
         /\ write_inline(write_inline(w, a), b) = write_inline(w, a \o b)
         /\ write_inline(w, <<>>) = w
<1> DEFINE v == write_inline(w, a)
           u == write_inline(v, b)
           t == write_inline(w, a \o b)
<1>1. \A x, y, z \in Seq(Byte) : (x \o y) \o z = x \o (y \o z)
  BY BytesAssociative
<1>2. /\ w.chunks \in Seq(Chunk) /\ w.inline_buffer \in Seq(Byte)
      /\ w.object_refs \in Seq(Seq(Byte)) /\ w.total_size \in Nat
      /\ w = [chunks |-> w.chunks, inline_buffer |-> w.inline_buffer,
              object_refs |-> w.object_refs, total_size |-> w.total_size]
  BY DEF Writer
<1>3. /\ Len(a) \in Nat /\ Len(b) \in Nat /\ Len(a \o b) = Len(a) + Len(b) /\ a \o b \in Seq(Byte)
      /\ w.inline_buffer \o a \in Seq(Byte)
  BY <1>2
<1>4. v = [chunks |-> w.chunks, inline_buffer |-> w.inline_buffer \o a,
           object_refs |-> w.object_refs, total_size |-> w.total_size + Len(a)]
  BY InlineIs
<1>5. v \in Writer /\ v.object_refs = w.object_refs
  BY <1>2, <1>3, <1>4 DEF Writer
<1>6. u = [chunks |-> w.chunks, inline_buffer |-> (w.inline_buffer \o a) \o b,
           object_refs |-> w.object_refs, total_size |-> (w.total_size + Len(a)) + Len(b)]
  <2>1. u = [chunks |-> v.chunks, inline_buffer |-> v.inline_buffer \o b,
             object_refs |-> v.object_refs, total_size |-> v.total_size + Len(b)]
    BY <1>5, InlineIs
  <2> HIDE DEF u
  <2>2. /\ v.chunks = w.chunks /\ v.inline_buffer = w.inline_buffer \o a
        /\ v.total_size = w.total_size + Len(a) /\ v.object_refs = w.object_refs
    BY <1>4
  <2> HIDE DEF v
  <2>3. QED BY <2>1, <2>2
<1>7. t = [chunks |-> w.chunks, inline_buffer |-> w.inline_buffer \o (a \o b),
           object_refs |-> w.object_refs, total_size |-> w.total_size + (Len(a) + Len(b))]
  <2>1. t = [chunks |-> w.chunks, inline_buffer |-> w.inline_buffer \o (a \o b),
             object_refs |-> w.object_refs, total_size |-> w.total_size + Len(a \o b)]
    BY InlineIs
  <2> HIDE DEF t
  <2>2. QED BY <1>3, <2>1
<1>8. (w.inline_buffer \o a) \o b = w.inline_buffer \o (a \o b)
  BY <1>1, <1>2
<1>9. (w.total_size + Len(a)) + Len(b) = w.total_size + (Len(a) + Len(b))
  BY <1>2, <1>3
<1>10. u = t
  BY <1>6, <1>7, <1>8, <1>9
<1>11. write_inline(w, <<>>) = w
  <2>1. w.inline_buffer \o <<>> = w.inline_buffer /\ w.total_size + Len(<<>>) = w.total_size
    BY <1>2
  <2>2. write_inline(w, <<>>)
          = [chunks |-> w.chunks, inline_buffer |-> w.inline_buffer \o <<>>,
             object_refs |-> w.object_refs, total_size |-> w.total_size + Len(<<>>)]
    BY InlineIs
  <2>3. QED BY <1>2, <2>1, <2>2
<1>12. QED BY <1>5, <1>10, <1>11

\* flush_inline leaves a writer that refers to the same objects.
LEMMA Flushed ==
  ASSUME NEW w \in Writer
  PROVE  flush_inline(w) \in Writer /\ flush_inline(w).object_refs = w.object_refs
<1>1. /\ w.chunks \in Seq(Chunk) /\ w.inline_buffer \in Seq(Byte)
      /\ w.object_refs \in Seq(Seq(Byte)) /\ w.total_size \in Nat
      /\ w = [chunks |-> w.chunks, inline_buffer |-> w.inline_buffer,
              object_refs |-> w.object_refs, total_size |-> w.total_size]
  BY DEF Writer
<1>2. CASE w.inline_buffer = <<>>
  BY <1>2 DEF flush_inline
<1>3. CASE w.inline_buffer # <<>>
  <2> DEFINE chunk == [n |-> -Len(w.inline_buffer), data |-> w.inline_buffer]
  <2>1. chunk \in Chunk
    BY <1>1 DEF Chunk
  <2>2. flush_inline(w) = [w EXCEPT !.chunks = Append(@, chunk), !.inline_buffer = <<>>]
    BY <1>3 DEF flush_inline
  <2> HIDE DEF chunk
  <2>3. flush_inline(w) = [chunks |-> Append(w.chunks, chunk), inline_buffer |-> <<>>,
                           object_refs |-> w.object_refs, total_size |-> w.total_size]
    BY <1>1, <2>2
  <2>4. Append(w.chunks, chunk) \in Seq(Chunk)
    BY <1>1, <2>1
  <2>5. QED BY <1>1, <2>3, <2>4 DEF Writer
<1>4. QED BY <1>2, <1>3

\* Ensure has the element, at the index that IndexOf gives, and keeps the others.
LEMMA Ensured ==
  ASSUME NEW X, NEW v \in Seq(X), NEW x \in X
  PROVE  /\ Ensure(v, x) \in Seq(X) /\ ToSet(Ensure(v, x)) = ToSet(v) \cup {x}
         /\ IndexOf(Ensure(v, x), x) \in 0 .. Len(Ensure(v, x)) - 1
         /\ Ensure(v, x)[IndexOf(Ensure(v, x), x) + 1] = x
         /\ Len(v) <= Len(Ensure(v, x)) /\ \A i \in 1 .. Len(v) : Ensure(v, x)[i] = v[i]
<1> DEFINE e == Ensure(v, x)
<1>1. e \in Seq(X) /\ ToSet(e) = ToSet(v) \cup {x} /\ Len(v) <= Len(e)
      /\ \A i \in 1 .. Len(v) : e[i] = v[i]
  <2>1. CASE x \in ToSet(v)
    BY <2>1 DEF Ensure
  <2>2. CASE x \notin ToSet(v)
    <3>1. e = Append(v, x)
      BY <2>2 DEF Ensure
    <3>2. ToSet(Append(v, x)) = ToSet(v) \cup {x}
      BY AppendedSet DEF ToSet
    <3>3. QED BY <3>1, <3>2
  <2>3. QED BY <2>1, <2>2
<1> HIDE DEF e
<1>2. \E i \in DOMAIN e : e[i] = x
  BY <1>1 DEF ToSet
<1> DEFINE k == CHOOSE i \in DOMAIN e : e[i] = x
<1>3. k \in DOMAIN e /\ e[k] = x
  BY <1>2
<1>4. k \in 1 .. Len(e) /\ Len(e) \in Nat /\ IndexOf(e, x) = k - 1
  BY <1>1, <1>3 DEF IndexOf
<1> HIDE DEF k
<1>5. IndexOf(e, x) \in 0 .. Len(e) - 1 /\ IndexOf(e, x) + 1 = k
  BY <1>4
<1>6. QED BY <1>1, <1>3, <1>5 DEF e

\* write_reference adds that reference only.
LEMMA ReferenceWritten ==
  ASSUME NEW w \in Writer, NEW id \in Seq(Byte), NEW size \in Nat
  PROVE  /\ write_reference(add_external_size(w, size), id) \in Writer
         /\ ToSet(write_reference(add_external_size(w, size), id).object_refs) = ToSet(w.object_refs) \cup {id}
<1> DEFINE u == add_external_size(w, size)
           v == flush_inline(u)
           refs == Ensure(v.object_refs, id)
           chunk == [n |-> IndexOf(refs, id), data |-> <<>>]
           t == write_reference(u, id)
<1>1. u \in Writer /\ u.object_refs = w.object_refs
  <2>1. w.total_size + size \in Nat
    BY DEF Writer
  <2>2. u = [w EXCEPT !.total_size = w.total_size + size]
    BY DEF add_external_size
  <2>3. QED BY <2>1, <2>2 DEF Writer
<1> HIDE DEF u
<1>2. v \in Writer /\ v.object_refs = w.object_refs
  BY <1>1, Flushed
<1>3. t = [v EXCEPT !.object_refs = refs, !.chunks = Append(@, chunk)]
  BY DEF write_reference
<1> HIDE DEF v, t
<1>4. /\ v.chunks \in Seq(Chunk) /\ v.inline_buffer \in Seq(Byte)
      /\ v.object_refs \in Seq(Seq(Byte)) /\ v.total_size \in Nat
      /\ v = [chunks |-> v.chunks, inline_buffer |-> v.inline_buffer,
              object_refs |-> v.object_refs, total_size |-> v.total_size]
  BY <1>2 DEF Writer
<1>5. refs \in Seq(Seq(Byte)) /\ ToSet(refs) = ToSet(v.object_refs) \cup {id} /\ IndexOf(refs, id) \in Int
  BY <1>4, Ensured
<1>6. chunk \in Chunk
  BY <1>5 DEF Chunk
<1> HIDE DEF refs, chunk
<1>7. Append(v.chunks, chunk) \in Seq(Chunk)
  BY <1>4, <1>6
<1>8. t = [chunks |-> Append(v.chunks, chunk), inline_buffer |-> v.inline_buffer,
           object_refs |-> refs, total_size |-> v.total_size]
  BY <1>3, <1>4
<1>9. t \in Writer /\ t.object_refs = refs
  BY <1>4, <1>5, <1>7, <1>8 DEF Writer
<1>10. QED BY <1>2, <1>5, <1>9 DEF t, u

-------------------------------------------------------------------------------
(* The entries of a builder *)

\* The entries are complete when the tasks have these answers.
Answers(entries, ids, n) ==
  /\ entries \in Seq(Part) /\ n \in Nat /\ ids \in [1 .. n -> Seq(Byte)]
  /\ \A k \in DOMAIN entries : entries[k].task \in 0 .. n

AnswersOf(e, ids) == IF e.task = 0 THEN {} ELSE {ids[e.task]}

\* An entry of the builder adds the answer of its task to the references, if it has one.
LEMMA EntryReplayed ==
  ASSUME NEW w \in Writer, NEW e \in Part, NEW ids, e.task # 0 => ids[e.task] \in Seq(Byte)
  PROVE  /\ ReplayEntry(w, e, ids) \in Writer
         /\ ToSet(ReplayEntry(w, e, ids).object_refs)
              = ToSet(w.object_refs) \cup AnswersOf(e, ids)
<1>1. e.data \in Seq(Byte) /\ e.size \in Nat
  BY DEF Part
<1>2. CASE e.task = 0
  <2>1. ReplayEntry(w, e, ids) = write_inline(w, e.data) /\ AnswersOf(e, ids) = {}
    BY <1>2 DEF ReplayEntry, AnswersOf
  <2>2. QED BY <1>1, <2>1, InlineWritten
<1>3. CASE e.task # 0
  <2>1. ids[e.task] \in Seq(Byte)
    BY <1>3
  <2>2. ReplayEntry(w, e, ids) = write_reference(add_external_size(w, e.size), ids[e.task])
    BY <1>3 DEF ReplayEntry
  <2>3. AnswersOf(e, ids) = {ids[e.task]}
    BY <1>3 DEF AnswersOf
  <2> DEFINE id == ids[e.task]
             size == e.size
             v == write_reference(add_external_size(w, size), id)
  <2>4. id \in Seq(Byte) /\ size \in Nat
    BY <1>1, <2>1
  <2>5. ReplayEntry(w, e, ids) = v /\ AnswersOf(e, ids) = {id}
    BY <2>2, <2>3
  <2> HIDE DEF id, size
  <2>6. v \in Writer /\ ToSet(v.object_refs) = ToSet(w.object_refs) \cup {id}
    BY <2>4, ReferenceWritten
  <2> HIDE DEF v
  <2>7. QED BY <2>5, <2>6
<1>4. QED BY <1>2, <1>3

\* The first n entries are the same and have the same answers.
PartsAgree(entries, ids, entries2, ids2, n) ==
  \A k \in 1 .. n : /\ entries2[k] = entries[k]
                    /\ entries[k].task # 0 => ids2[entries[k].task] = ids[entries[k].task]

\* What entries are replayed to depends on them and on the answers of their tasks.
LEMMA ReplaysAgree ==
  ASSUME NEW entries, NEW ids, NEW entries2, NEW ids2, NEW n \in Nat, NEW n2 \in Nat, n <= n2,
         NEW f, Replays(f, entries, ids, n), NEW g, Replays(g, entries2, ids2, n2),
         PartsAgree(entries, ids, entries2, ids2, n)
  PROVE  g[n] = f[n]
<1> DEFINE G == {k \in 0 .. n : g[k] = f[k]}
<1>1. 0 \in G
  BY DEF Replays
<1>2. ASSUME NEW k \in 1 .. n, k - 1 \in G PROVE k \in G
  <2>1. k \in 1 .. n2 /\ g[k - 1] = f[k - 1]
    BY <1>2
  <2>2. f[k] = ReplayEntry(f[k - 1], entries[k], ids) /\ g[k] = ReplayEntry(g[k - 1], entries2[k], ids2)
    BY <2>1 DEF Replays
  <2>3. ReplayEntry(f[k - 1], entries[k], ids2) = ReplayEntry(f[k - 1], entries[k], ids)
    BY DEF ReplayEntry, PartsAgree
  <2>4. entries2[k] = entries[k]
    BY DEF PartsAgree
  <2>5. QED BY <2>1, <2>2, <2>3, <2>4
<1>3. 0 .. n \subseteq G
  <2> HIDE DEF G
  <2>1. QED BY <1>1, <1>2, IndexInduction
<1>4. QED BY <1>3

\* What is written depends on the answers that the entries name only.
LEMMA SameWriter ==
  ASSUME NEW entries \in Seq(Part), NEW ids, NEW ids2,
         \A k \in DOMAIN entries : entries[k].task # 0 => ids2[entries[k].task] = ids[entries[k].task]
  PROVE  WriterOf(entries, ids2) = WriterOf(entries, ids)
<1> DEFINE n == Len(entries)
<1>1. n \in Nat /\ DOMAIN entries = 1 .. n /\ n <= n
  OBVIOUS
<1> HIDE DEF n
<1>2. PICK f : Replays(f, entries, ids, n)
  BY <1>1, ReplaySteps
<1>3. PICK g : Replays(g, entries, ids2, n)
  BY <1>1, ReplaySteps
<1>4. PartsAgree(entries, ids, entries, ids2, n)
  BY <1>1 DEF PartsAgree
<1>5. g[n] = f[n]
  BY <1>1, <1>2, <1>3, <1>4, ReplaysAgree
<1>6. QED BY <1>2, <1>3, <1>5 DEF Replays

\* What is written refers to answers of tasks that the entries name.
LEMMA WriterTyped ==
  ASSUME NEW entries, NEW ids, NEW n, Answers(entries, ids, n)
  PROVE  /\ WriterOf(entries, ids) \in Writer
         /\ \A id \in ToSet(WriterOf(entries, ids).object_refs) :
              \E k \in DOMAIN entries : entries[k].task # 0 /\ id = ids[entries[k].task]
<1> DEFINE m == Len(entries)
<1>1. m \in Nat /\ DOMAIN entries = 1 .. m
  BY DEF Answers
<1> HIDE DEF m
<1>2. PICK f : Replays(f, entries, ids, m)
  BY <1>1, ReplaySteps
<1> DEFINE Named(i) == \E k \in 1 .. m : entries[k].task # 0 /\ i = ids[entries[k].task]
           G == {k \in 0 .. m : f[k] \in Writer /\ \A i \in ToSet(f[k].object_refs) : Named(i)}
<1>3. 0 \in G
  <2>1. ToSet(NewWriter.object_refs) = {}
    BY DEF NewWriter, ToSet
  <2>2. QED BY <1>1, <1>2, <2>1, NewWriterIs DEF Replays
<1>4. ASSUME NEW k \in 1 .. m, k - 1 \in G PROVE k \in G
  <2>1. f[k] = ReplayEntry(f[k - 1], entries[k], ids) /\ f[k - 1] \in Writer
    BY <1>2, <1>4 DEF Replays
  <2>2. n \in Nat /\ ids \in [1 .. n -> Seq(Byte)] /\ entries \in Seq(Part)
    BY DEF Answers
  <2>3. k \in DOMAIN entries
    BY <1>1
  <2>4. entries[k] \in Part
    BY <2>2, <2>3, ElementOfSeq
  <2>5. entries[k].task \in 0 .. n
    BY <2>3 DEF Answers
  <2>6. entries[k].task # 0 => ids[entries[k].task] \in Seq(Byte)
    BY <2>2, <2>5
  <2>7. /\ f[k] \in Writer
        /\ ToSet(f[k].object_refs)
             = ToSet(f[k - 1].object_refs) \cup AnswersOf(entries[k], ids)
    BY <2>1, <2>4, <2>6, EntryReplayed
  <2>8. \A i \in ToSet(f[k].object_refs) : Named(i)
    <3>1. \A i \in ToSet(f[k - 1].object_refs) : Named(i)
      BY <1>4
    <3>2. \A i \in AnswersOf(entries[k], ids) : Named(i)
      BY DEF AnswersOf
    <3>3. QED BY <2>7, <3>1, <3>2
  <2>9. QED BY <1>1, <2>7, <2>8
<1>5. 0 .. m \subseteq G
  <2> HIDE DEF G
  <2>1. QED BY <1>1, <1>3, <1>4, IndexInduction
<1>6. m \in G
  BY <1>1, <1>5
<1>7. WriterOf(entries, ids) = f[m]
  BY <1>2 DEF Replays
<1>8. QED BY <1>1, <1>6, <1>7

\* One entry more is one write more.
LEMMA WriterOfAppend ==
  ASSUME NEW entries \in Seq(Part), NEW e \in Part, NEW ids
  PROVE  WriterOf(Append(entries, e), ids) = ReplayEntry(WriterOf(entries, ids), e, ids)
<1> DEFINE n == Len(entries)
           more == Append(entries, e)
<1>1. /\ n \in Nat /\ DOMAIN entries = 1 .. n /\ more \in Seq(Part) /\ DOMAIN more = 1 .. n + 1
      /\ more[n + 1] = e /\ \A k \in 1 .. n : more[k] = entries[k]
  OBVIOUS
<1> HIDE DEF n, more
<1>2. PICK f : Replays(f, entries, ids, n)
  BY <1>1, ReplaySteps
<1>3. n + 1 \in Nat /\ n <= n + 1 /\ n + 1 \in 1 .. n + 1 /\ (n + 1) - 1 = n
  BY <1>1
<1>4. PICK g : Replays(g, more, ids, n + 1)
  BY <1>1, <1>3, ReplaySteps
<1>5. PartsAgree(entries, ids, more, ids, n)
  BY <1>1 DEF PartsAgree
<1>6. g[n] = f[n]
  BY <1>1, <1>2, <1>3, <1>4, <1>5, ReplaysAgree
<1>7. g[n + 1] = ReplayEntry(g[n], e, ids)
  BY <1>1, <1>3, <1>4 DEF Replays
<1>8. QED BY <1>2, <1>4, <1>6, <1>7 DEF Replays, more

\* What an entry stands for, and all of them.
Piece(e, ids) == IF e.task = 0 THEN e.data ELSE ids[e.task]
Built(entries, ids) == FlattenSeq([k \in DOMAIN entries |-> Piece(entries[k], ids)])

\* What an entry stands for is bytes.
LEMMA PieceTyped ==
  ASSUME NEW entries, NEW ids, NEW n, Answers(entries, ids, n), NEW k \in DOMAIN entries
  PROVE  entries[k] \in Part /\ Piece(entries[k], ids) \in Seq(Byte)
<1>1. entries \in Seq(Part) /\ ids \in [1 .. n -> Seq(Byte)] /\ n \in Nat /\ entries[k].task \in 0 .. n
  BY DEF Answers
<1>2. entries[k] \in Part
  BY <1>1, ElementOfSeq
<1>3. entries[k].data \in Seq(Byte)
  BY <1>2 DEF Part
<1>4. CASE entries[k].task = 0
  BY <1>2, <1>3, <1>4 DEF Piece
<1>5. CASE entries[k].task # 0
  <2>1. ids[entries[k].task] \in Seq(Byte)
    BY <1>1, <1>5
  <2>2. QED BY <1>2, <1>5, <2>1 DEF Piece
<1>6. QED BY <1>4, <1>5

\* One entry more is its bytes more.
LEMMA BuiltAppend ==
  ASSUME NEW entries, NEW ids, NEW n, Answers(entries, ids, n), NEW e \in Part, Piece(e, ids) \in Seq(Byte)
  PROVE  /\ Built(entries, ids) \in Seq(Byte)
         /\ Built(Append(entries, e), ids) = Built(entries, ids) \o Piece(e, ids)
<1> DEFINE m == Len(entries)
           more == Append(entries, e)
           seqs == [k \in DOMAIN entries |-> Piece(entries[k], ids)]
           longer == [k \in DOMAIN more |-> Piece(more[k], ids)]
           p == Piece(e, ids)
<1>1. entries \in Seq(Part)
  BY DEF Answers
<1>2. /\ m \in Nat /\ DOMAIN entries = 1 .. m /\ DOMAIN more = 1 .. m + 1
      /\ more[m + 1] = e /\ \A k \in 1 .. m : more[k] = entries[k]
  BY <1>1
<1>3. \A k \in 1 .. m : Piece(entries[k], ids) \in Seq(Byte)
  BY <1>2, PieceTyped
<1>4. seqs \in Seq(Seq(Byte)) /\ Len(seqs) = m /\ \A k \in 1 .. m : seqs[k] = Piece(entries[k], ids)
  BY <1>2, <1>3
<1>5. /\ DOMAIN longer = 1 .. m + 1 /\ longer[m + 1] = p
      /\ \A k \in 1 .. m : longer[k] = Piece(entries[k], ids)
      /\ longer = [k \in DOMAIN longer |-> longer[k]]
  BY <1>2
<1> DEFINE app == Append(seqs, p)
<1>6. p \in Seq(Byte)
  OBVIOUS
<1> HIDE DEF seqs, longer, more, p, m
<1>7. /\ app \in Seq(Seq(Byte)) /\ DOMAIN app = 1 .. m + 1 /\ app[m + 1] = p
      /\ \A k \in 1 .. m : app[k] = seqs[k]
  BY <1>2, <1>4, <1>6
<1> HIDE DEF app
<1>8. app = [k \in DOMAIN app |-> app[k]]
  BY <1>7
<1>9. \A k \in 1 .. m + 1 : app[k] = longer[k]
  <2>1. \A k \in 1 .. m + 1 : k = m + 1 \/ k \in 1 .. m
    BY <1>2
  <2>2. QED BY <1>4, <1>5, <1>7, <2>1
<1>10. app = longer
  BY <1>5, <1>7, <1>8, <1>9
<1>11. FlattenSeq(seqs) \in Seq(Byte) /\ FlattenSeq(Append(seqs, p)) = FlattenSeq(seqs) \o p
  BY <1>4, <1>6, FlattenedAppend
<1>12. Built(entries, ids) = FlattenSeq(seqs) /\ Built(more, ids) = FlattenSeq(longer)
  BY DEF Built, seqs, longer
<1>13. QED BY <1>10, <1>11, <1>12 DEF app, more, p

\* What the entries stand for depends on the answers that they name only.
LEMMA SameBuilt ==
  ASSUME NEW entries \in Seq(Part), NEW ids, NEW ids2,
         \A k \in DOMAIN entries : entries[k].task # 0 => ids2[entries[k].task] = ids[entries[k].task]
  PROVE  Built(entries, ids2) = Built(entries, ids)
<1>1. \A k \in DOMAIN entries : Piece(entries[k], ids2) = Piece(entries[k], ids)
  BY DEF Piece
<1>2. [k \in DOMAIN entries |-> Piece(entries[k], ids2)] = [k \in DOMAIN entries |-> Piece(entries[k], ids)]
  BY <1>1
<1>3. QED BY <1>2 DEF Built

\* An entry more whose task is there.
LEMMA EntryAppended ==
  ASSUME NEW entries, NEW ids, NEW n, Answers(entries, ids, n), NEW e \in Part, e.task \in 0 .. n
  PROVE  /\ Answers(Append(entries, e), ids, n)
         /\ WriterOf(Append(entries, e), ids) = ReplayEntry(WriterOf(entries, ids), e, ids)
         /\ Built(Append(entries, e), ids) = Built(entries, ids) \o Piece(e, ids)
         /\ Built(entries, ids) \in Seq(Byte) /\ Piece(e, ids) \in Seq(Byte)
<1> DEFINE m == Len(entries)
           more == Append(entries, e)
<1>1. entries \in Seq(Part) /\ n \in Nat /\ ids \in [1 .. n -> Seq(Byte)]
      /\ \A k \in DOMAIN entries : entries[k].task \in 0 .. n
  BY DEF Answers
<1>2. /\ m \in Nat /\ DOMAIN entries = 1 .. m /\ DOMAIN more = 1 .. m + 1 /\ more \in Seq(Part)
      /\ more[m + 1] = e /\ \A k \in 1 .. m : more[k] = entries[k]
  BY <1>1
<1> HIDE DEF more, m
<1>3. \A k \in DOMAIN more : more[k].task \in 0 .. n
  <2>1. \A k \in 1 .. m + 1 : k = m + 1 \/ k \in 1 .. m
    BY <1>2
  <2>2. QED BY <1>1, <1>2, <2>1
<1>4. Answers(more, ids, n)
  BY <1>1, <1>2, <1>3 DEF Answers
<1>5. Piece(more[m + 1], ids) \in Seq(Byte)
  <2>1. m + 1 \in DOMAIN more
    BY <1>2
  <2>2. QED BY <1>4, <2>1, PieceTyped
<1>6. Piece(e, ids) \in Seq(Byte)
  BY <1>2, <1>5
<1>7. WriterOf(more, ids) = ReplayEntry(WriterOf(entries, ids), e, ids)
  BY <1>1, WriterOfAppend DEF more
<1>8. Built(entries, ids) \in Seq(Byte) /\ Built(more, ids) = Built(entries, ids) \o Piece(e, ids)
  BY <1>6, BuiltAppend DEF more
<1>9. QED BY <1>4, <1>6, <1>7, <1>8 DEF more

\* push_external, in the bytes and in the writer.
LEMMA PushedExternal ==
  ASSUME NEW entries, NEW ids, NEW n, Answers(entries, ids, n), NEW t \in 1 .. n, NEW size \in Nat
  PROVE  /\ Answers(push_external(entries, t, size), ids, n)
         /\ WriterOf(push_external(entries, t, size), ids)
              = write_reference(add_external_size(WriterOf(entries, ids), size), ids[t])
         /\ Built(push_external(entries, t, size), ids) = Built(entries, ids) \o ids[t]
<1> DEFINE e == [task |-> t, data |-> <<>>, size |-> size]
<1>1. n \in Nat
  BY DEF Answers
<1>2. e \in Part /\ e.task \in 0 .. n
  BY <1>1 DEF Part
<1>3. e.task = t /\ e.size = size /\ t # 0
  BY <1>1
<1>4. push_external(entries, t, size) = Append(entries, e)
  BY DEF push_external
<1> HIDE DEF e
<1>5. /\ Answers(Append(entries, e), ids, n)
      /\ WriterOf(Append(entries, e), ids) = ReplayEntry(WriterOf(entries, ids), e, ids)
      /\ Built(Append(entries, e), ids) = Built(entries, ids) \o Piece(e, ids)
  BY <1>2, EntryAppended
<1>6. Piece(e, ids) = ids[t]
  BY <1>3 DEF Piece
<1>7. \A w : ReplayEntry(w, e, ids) = write_reference(add_external_size(w, size), ids[t])
  BY <1>3 DEF ReplayEntry
<1>8. QED BY <1>4, <1>5, <1>6, <1>7

\* push_inline, in the bytes and in the writer: joining it to the entry before it changes nothing.
LEMMA PushedInline ==
  ASSUME NEW entries, NEW ids, NEW n, Answers(entries, ids, n), NEW d \in Seq(Byte)
  PROVE  /\ Answers(push_inline(entries, d), ids, n)
         /\ WriterOf(push_inline(entries, d), ids) = write_inline(WriterOf(entries, ids), d)
         /\ Built(push_inline(entries, d), ids) = Built(entries, ids) \o d
<1> DEFINE m == Len(entries)
           now == push_inline(entries, d)
<1>1. \A x, y, z \in Seq(Byte) : (x \o y) \o z = x \o (y \o z)
  BY BytesAssociative
<1>2. /\ entries \in Seq(Part) /\ n \in Nat /\ ids \in [1 .. n -> Seq(Byte)]
      /\ \A k \in DOMAIN entries : entries[k].task \in 0 .. n
  BY DEF Answers
<1>3. m \in Nat /\ DOMAIN entries = 1 .. m
  BY <1>2
<1>4. WriterOf(entries, ids) \in Writer
  BY WriterTyped
<1>5. CASE d = <<>>
  <2>1. now = entries
    BY <1>5 DEF push_inline
  <2>2. write_inline(WriterOf(entries, ids), d) = WriterOf(entries, ids)
    BY <1>4, <1>5, InlineWritten
  <2>3. Built(entries, ids) \in Seq(Byte)
    <3>1. [task |-> 0, data |-> <<>>, size |-> 0] \in Part /\ 0 \in 0 .. n
      BY <1>2 DEF Part
    <3>2. QED BY <3>1, EntryAppended
  <2>4. Built(entries, ids) \o d = Built(entries, ids)
    BY <1>5, <2>3, ConcatEmptySeq
  <2>5. QED BY <2>1, <2>2, <2>4
<1>6. CASE d # <<>> /\ ~(entries # <<>> /\ Last(entries).task = 0)
  <2> DEFINE e == [task |-> 0, data |-> d, size |-> 0]
  <2>1. e \in Part /\ e.task \in 0 .. n /\ e.task = 0 /\ e.data = d
    BY <1>2 DEF Part
  <2>2. now = Append(entries, e)
    BY <1>6 DEF push_inline
  <2> HIDE DEF e, now
  <2>3. /\ Answers(now, ids, n) /\ WriterOf(now, ids) = ReplayEntry(WriterOf(entries, ids), e, ids)
        /\ Built(now, ids) = Built(entries, ids) \o Piece(e, ids)
    BY <2>1, <2>2, EntryAppended
  <2>4. Piece(e, ids) = d /\ ReplayEntry(WriterOf(entries, ids), e, ids) = write_inline(WriterOf(entries, ids), d)
    BY <2>1 DEF Piece, ReplayEntry
  <2>5. QED BY <2>3, <2>4 DEF now
<1>7. CASE d # <<>> /\ entries # <<>> /\ Last(entries).task = 0
  <2> DEFINE front == SubSeq(entries, 1, m - 1)
             old == entries[m]
             e == [old EXCEPT !.data = @ \o d]
  <2>1. m \in DOMAIN entries /\ m - 1 \in Nat
    BY <1>2, <1>3, <1>7
  <2>2. old \in Part /\ old.task = 0 /\ old.data \in Seq(Byte)
    <3>1. Last(entries) = old
      BY DEF Last
    <3>2. old \in Part
      BY <1>2, <2>1, ElementOfSeq
    <3>3. QED BY <1>7, <3>1, <3>2 DEF Part
  <2> HIDE DEF old
  <2>3. e \in Part /\ e.task = 0 /\ e.data = old.data \o d
    <3> DEFINE x == old.data \o d
    <3>1. x \in Seq(Byte) /\ e = [old EXCEPT !.data = x]
      BY <2>2
    <3> HIDE DEF x, e
    <3>2. e \in Part /\ e.task = old.task /\ e.data = x
      BY <2>2, <3>1 DEF Part
    <3>3. QED BY <2>2, <3>2 DEF x
  <2>4. now = [entries EXCEPT ![m] = e]
    BY <1>7 DEF push_inline, old
  <2> HIDE DEF e, now
  <2>5. /\ front \in Seq(Part) /\ Len(front) = m - 1 /\ DOMAIN front = 1 .. m - 1
        /\ \A k \in 1 .. m - 1 : front[k] = entries[k]
    BY <1>2, <1>3, <2>1
  <2> HIDE DEF front, m
  <2>6. Append(front, old) = entries
    <3> DEFINE a == Append(front, old)
    <3>1. a \in Seq(Part) /\ Len(a) = m /\ a[m] = old /\ \A k \in 1 .. m - 1 : a[k] = front[k]
      BY <2>1, <2>2, <2>5
    <3> HIDE DEF a
    <3>2. \A k \in 1 .. m : a[k] = entries[k]
      <4>1. \A k \in 1 .. m : k = m \/ k \in 1 .. m - 1
        BY <1>3
      <4>2. QED BY <2>5, <3>1, <4>1 DEF old
    <3>3. Len(entries) = m
      BY DEF m
    <3>4. a = entries
      BY <1>2, <3>1, <3>2, <3>3
    <3>5. QED BY <3>4 DEF a
  <2>7. Append(front, e) = now
    <3> DEFINE a == Append(front, e)
    <3>1. e \in Part
      BY <2>3
    <3>2. a \in Seq(Part) /\ Len(a) = m /\ a[m] = e /\ \A k \in 1 .. m - 1 : a[k] = front[k]
      BY <1>3, <2>1, <2>5, <3>1
    <3>3. now \in Seq(Part) /\ Len(now) = m /\ now[m] = e /\ \A k \in 1 .. m - 1 : now[k] = entries[k]
      BY <1>2, <1>3, <2>1, <2>3, <2>4
    <3> HIDE DEF a
    <3>4. \A k \in 1 .. m : a[k] = now[k]
      <4>1. \A k \in 1 .. m : k = m \/ k \in 1 .. m - 1
        BY <1>3
      <4>2. QED BY <2>5, <3>2, <3>3, <4>1
    <3>5. a = now
      BY <3>2, <3>3, <3>4
    <3>6. QED BY <3>5 DEF a
  <2>8. Answers(front, ids, n)
    <3>1. \A k \in 1 .. m - 1 : k \in DOMAIN entries
      BY <1>3
    <3>2. QED BY <1>2, <2>5, <3>1 DEF Answers
  <2>9. old.task \in 0 .. n /\ e.task \in 0 .. n
    BY <1>2, <2>2, <2>3
  <2> DEFINE w == WriterOf(front, ids)
             b == Built(front, ids)
  <2>10. w \in Writer
    BY <2>8, WriterTyped
  <2>11. /\ WriterOf(entries, ids) = ReplayEntry(w, old, ids)
         /\ Built(entries, ids) = b \o Piece(old, ids) /\ b \in Seq(Byte)
    BY <2>2, <2>6, <2>8, <2>9, EntryAppended
  <2>12. /\ Answers(now, ids, n) /\ WriterOf(now, ids) = ReplayEntry(w, e, ids)
         /\ Built(now, ids) = b \o Piece(e, ids)
    BY <2>3, <2>7, <2>8, <2>9, EntryAppended
  <2> HIDE DEF w, b
  <2>13. /\ ReplayEntry(w, old, ids) = write_inline(w, old.data) /\ Piece(old, ids) = old.data
         /\ ReplayEntry(w, e, ids) = write_inline(w, old.data \o d) /\ Piece(e, ids) = old.data \o d
    BY <2>2, <2>3 DEF ReplayEntry, Piece
  <2>14. write_inline(write_inline(w, old.data), d) = write_inline(w, old.data \o d)
    BY <2>2, <2>10, InlineWritten
  <2>15. (b \o old.data) \o d = b \o (old.data \o d)
    BY <1>1, <2>2, <2>11
  <2>16. QED BY <2>11, <2>12, <2>13, <2>14, <2>15 DEF now
<1>8. QED BY <1>5, <1>6, <1>7

-------------------------------------------------------------------------------
(* The turns of split that do not fail *)

At(rest, w) == [rest |-> rest, writer |-> w, failed |-> FALSE]

Moved(s, a, b) == [s EXCEPT !.rest = a, !.writer = b]

\* A turn of split that has not failed is a place to come to.
LEMMA AtChanged ==
  ASSUME NEW rest, NEW w, NEW a, NEW b
  PROVE  Moved(At(rest, w), a, b) = At(a, b)
<1> DEFINE s == At(rest, w)
           r == [s EXCEPT !.rest = a, !.writer = b]
           t == At(a, b)
           fields == {"rest", "writer", "failed"}
<1>1. DOMAIN s = fields /\ s.failed = FALSE
  BY DEF At
<1>2. DOMAIN t = fields /\ t.failed = FALSE /\ t.rest = a /\ t.writer = b /\ t = [i \in fields |-> t[i]]
  BY DEF At
<1> HIDE DEF s, t
<1>3. DOMAIN r = fields /\ r.failed = FALSE /\ r.rest = a /\ r.writer = b /\ r = [i \in fields |-> r[i]]
  BY <1>1
<1> HIDE DEF r
<1>4. \A i \in fields : r[i] = t[i]
  BY <1>2, <1>3
<1> HIDE DEF fields
<1>5. r = t
  BY <1>2, <1>3, <1>4
<1>6. QED BY <1>5 DEF r, s, t, Moved

\* To skip twice is to skip once.
LEMMA FromFrom ==
  ASSUME NEW s \in Seq(Byte), NEW m \in Nat, NEW k \in Nat, m + k <= Len(s)
  PROVE  From(From(s, m), k) = From(s, m + k) /\ SubSeq(From(s, m), 1, k) = SubSeq(s, m + 1, m + k)
<1>1. Len(s) \in Nat
  OBVIOUS
<1>2. From(From(s, m), k) = From(s, m + k)
  <2>1. m \in 0 .. Len(s) /\ k \in 0 .. Len(s) - m
    BY <1>1
  <2>2. QED BY <2>1, SubSeqFacts
<1>3. SubSeq(From(s, m), 1, k) = SubSeq(s, m + 1, m + k)
  BY <1>1 DEF From
<1>4. QED BY <1>2, <1>3

\* What a turn does with a block of zeros.
LEMMA TurnOfZeros ==
  ASSUME NEW rest \in Seq(Byte), NEW w, Len(rest) >= BLOCK, SubSeq(rest, 1, BLOCK) = Fill(BLOCK)
  PROVE  SplitEntry(At(rest, w)) = At(From(rest, BLOCK), write_inline(w, Fill(BLOCK)))
<1> DEFINE s == At(rest, w)
           v == write_inline(w, Fill(BLOCK))
           body == From(rest, BLOCK)
<1>1. s.rest = rest /\ s.writer = w /\ s.failed = FALSE
  BY DEF At
<1>2. BLOCK \in Nat /\ BLOCK > 0 /\ Len(rest) \in Nat /\ rest # <<>>
  BY Blocks
<1>3. From(body, 0) = body
  BY <1>2, FromFrom
<1>4. SplitEntry(s) = Moved(s, From(body, 0), v)
  <2>1. ~(s.failed \/ s.rest = <<>>) /\ ~(Len(s.rest) < BLOCK) /\ SubSeq(s.rest, 1, BLOCK) = Fill(BLOCK)
    BY <1>1, <1>2
  <2>2. v = write_inline(s.writer, SubSeq(s.rest, 1, BLOCK)) /\ body = From(s.rest, BLOCK)
    BY <1>1, <2>1
  <2> HIDE DEF s, v, body
  <2>3. QED BY <2>1, <2>2 DEF SplitEntry, Moved
<1> HIDE DEF v, body
<1>5. Moved(s, body, v) = At(body, v)
  BY AtChanged
<1>6. QED BY <1>3, <1>4, <1>5 DEF body, v

\* What a turn does with a header, if the whole entry is there.
LEMMA TurnOfEntry ==
  ASSUME NEW rest \in Seq(Byte), NEW w, NEW e \in Entry, Len(rest) >= BLOCK + Stored(e.size),
         SubSeq(rest, 1, BLOCK) = HeaderBlock(e)
  PROVE  LET v    == write_inline(w, HeaderBlock(e))
             body == From(rest, BLOCK)
         IN  SplitEntry(At(rest, w)) =
               At(From(body, Stored(e.size)),
                  IF IsLarge(e)
                  THEN write_inline(write_external(v, SubSeq(body, 1, e.size)),
                                    SubSeq(body, e.size + 1, Stored(e.size)))
                  ELSE write_inline(v, SubSeq(body, 1, Stored(e.size))))
<1> DEFINE s == At(rest, w)
           v == write_inline(w, HeaderBlock(e))
           body == From(rest, BLOCK)
           n == Stored(e.size)
           u == IF IsLarge(e)
                THEN write_inline(write_external(v, SubSeq(body, 1, e.size)), SubSeq(body, e.size + 1, n))
                ELSE write_inline(v, SubSeq(body, 1, n))
<1>1. s.rest = rest /\ s.writer = w /\ s.failed = FALSE
  BY DEF At
<1>2. BLOCK \in Nat /\ BLOCK > 0 /\ Len(rest) \in Nat /\ n \in Nat
  BY Blocks, StoredSize DEF Entry
<1>3. rest # <<>> /\ Len(rest) >= BLOCK /\ Len(body) >= n
  <2>1. Len(rest) >= BLOCK /\ rest # <<>>
    BY <1>2
  <2>2. Len(body) = Len(rest) - BLOCK
    BY <1>2, <2>1 DEF From
  <2>3. QED BY <1>2, <2>1, <2>2
<1>4. SplitEntry(s) = Moved(s, From(body, n), u)
  <2> DEFINE block == HeaderBlock(e)
             h == CHOOSE x \in Headers(block) : TRUE
  <2>1. IsHeader(block) /\ Headers(block) = {e} /\ block # Fill(BLOCK)
    BY HeaderIs
  <2>2. h = e
    BY <2>1
  <2>3. /\ ~(s.failed \/ s.rest = <<>>) /\ ~(Len(s.rest) < BLOCK)
        /\ SubSeq(s.rest, 1, BLOCK) = block /\ ~(block = Fill(BLOCK)) /\ IsHeader(block)
        /\ ~(Len(body) < n) /\ body = From(s.rest, BLOCK) /\ v = write_inline(s.writer, block)
    <3>1. Len(body) \in Nat
      BY <1>2, <1>3 DEF From
    <3>2. ~(Len(body) < n)
      BY <1>2, <1>3, <3>1
    <3>3. ~(Len(s.rest) < BLOCK)
      BY <1>1, <1>2, <1>3
    <3> HIDE DEF body, block, s
    <3>4. QED BY <1>1, <1>3, <2>1, <3>2, <3>3 DEF body, block
  <2> DEFINE block0 == SubSeq(s.rest, 1, BLOCK)
             body0 == From(s.rest, BLOCK)
             h0 == CHOOSE x \in Headers(block0) : TRUE
             w0 == write_inline(s.writer, block0)
             stored == Stored(h0.size)
             u0 == IF IsLarge(h0)
                   THEN write_inline(write_external(w0, SubSeq(body0, 1, h0.size)),
                                     SubSeq(body0, h0.size + 1, stored))
                   ELSE write_inline(w0, SubSeq(body0, 1, stored))
  <2>4. SplitEntry(s) =
          IF s.failed \/ s.rest = <<>> THEN s
          ELSE IF Len(s.rest) < BLOCK THEN [s EXCEPT !.failed = TRUE]
          ELSE IF block0 = Fill(BLOCK) THEN Moved(s, From(body0, 0), w0)
          ELSE IF ~IsHeader(block0) \/ Len(body0) < stored THEN [s EXCEPT !.failed = TRUE]
          ELSE Moved(s, From(body0, stored), u0)
    BY DEF SplitEntry, Moved
  <2>5. block0 = block /\ h0 = e /\ stored = n /\ body0 = body /\ w0 = v
    <3>1. block0 = block
      BY <2>3
    <3> HIDE DEF block0, block
    <3>2. Headers(block0) = {e}
      BY <2>1, <3>1
    <3>3. h0 = e
      BY <3>2
    <3> HIDE DEF h0
    <3>4. QED BY <2>3, <3>1, <3>3
  <2>6. u0 = u
    <3> HIDE DEF body0, h0, w0, stored, body, v, n
    <3>1. QED BY <2>5
  <2> HIDE DEF s, v, body, block, n, h, block0, body0, h0, w0, stored, u0, u
  <2>7. SplitEntry(s) = Moved(s, From(body0, stored), u0)
    BY <2>3, <2>4, <2>5
  <2>8. QED BY <2>5, <2>6, <2>7
<1> HIDE DEF u, body, n
<1>5. Moved(s, From(body, n), u) = At(From(body, n), u)
  BY AtChanged
<1>6. SplitEntry(At(rest, w)) = At(From(body, n), u)
  BY <1>4, <1>5
<1>7. QED BY <1>6 DEF u, body, n

-------------------------------------------------------------------------------
(* The invariant, of an import that reads bytes, has come to y and has spawned ts *)

LayerFields == {"pc", "pos", "entries", "size", "remaining", "file"}
TaskSet == [pc : {"receive", "ok", "failed"}, queue : Seq(Seq(Byte)), closed : BOOLEAN, data : Seq(Byte)]

LayerTyped(bytes, y, ts) ==
  /\ bytes \in Seq(Byte) /\ ts \in Seq(TaskSet)
  /\ DOMAIN y = LayerFields /\ y.pc \in PC /\ y.pos \in 0 .. Len(bytes) /\ y.entries \in Seq(Part)
  /\ y.size \in Nat /\ y.remaining \in 0 .. y.size
  /\ \A k \in DOMAIN y.entries : y.entries[k].task \in 0 .. Len(ts)

\* A task that is done had been sent everything, and what it was sent is stored.  The task
\* of the file that is being sent waits for more and is in no entry yet.
Going(bytes, y, ts, objs) ==
  /\ y.pc # "send" => y.remaining = 0
  /\ y.pc = "send" => /\ Len(ts) > 0 /\ ~ts[Len(ts)].closed
                      /\ \A k \in DOMAIN y.entries : y.entries[k].task # Len(ts)
  /\ y.pc = "finish" => From(bytes, y.pos) = <<>>
  /\ \A i \in DOMAIN ts : ts[i].pc = "ok" => ts[i].closed /\ ts[i].queue = <<>> /\ ts[i].data \in objs

\* What a task has been sent, and what the newest has been sent so far.
HeldOf(t) == t.data \o FlattenSeq(t.queue)
IdsOf(ts) == [i \in DOMAIN ts |-> HeldOf(ts[i])]
Taken(y, ts) == IF y.pc = "send" THEN HeldOf(ts[Len(ts)]) ELSE <<>>

Sound(ts) == \A i \in DOMAIN ts : ts[i].pc # "failed"

\* Every byte that was read is somewhere.
AllHeld(bytes, y, ts) ==
  Sound(ts) /\ y.pc # "error" =>
    SubSeq(bytes, 1, y.pos) = Built(y.entries, IdsOf(ts)) \o Taken(y, ts)

\* Between two entries, split comes to the same place.
Between(bytes, y, ts) ==
  Sound(ts) /\ y.pc \in {"header", "finish"} =>
    /\ ComesTo(bytes, From(bytes, y.pos), WriterOf(y.entries, IdsOf(ts)))
    /\ Aligned(From(bytes, y.pos))

\* In a file, split was before its header.
InFile(bytes, y, ts) ==
  Sound(ts) /\ y.pc \in {"permit", "send"} =>
    \E e \in Entry : \E w \in Writer :
      LET body == Taken(y, ts) \o From(bytes, y.pos)
      IN  /\ IsLarge(e) /\ y.size = e.size /\ Len(Taken(y, ts)) + y.remaining = (IF y.pc = "send" THEN e.size ELSE 0)
          /\ ComesTo(bytes, HeaderBlock(e) \o body, w)
          /\ Len(body) + BLOCK <= Len(bytes)
          /\ WriterOf(y.entries, IdsOf(ts)) = write_inline(w, HeaderBlock(e))
          /\ Len(body) >= Stored(e.size) => Aligned(From(body, Stored(e.size)))

\* What is stored is what split writes, and what it refers to is there.
WellStored(bytes, y, objs) ==
  y.pc = "stored" =>
    /\ ~split(bytes).failed /\ y.file = split(bytes).file
    /\ ToSet(y.file.object_refs) \subseteq objs

LayerOk(bytes, y, ts, objs) ==
  /\ LayerTyped(bytes, y, ts) /\ Going(bytes, y, ts, objs)
  /\ AllHeld(bytes, y, ts) /\ Between(bytes, y, ts) /\ InFile(bytes, y, ts)
  /\ WellStored(bytes, y, objs)

-------------------------------------------------------------------------------

\* What a task holds is bytes.
LEMMA HeldTyped ==
  ASSUME NEW t \in TaskSet
  PROVE  /\ HeldOf(t) \in Seq(Byte)
         /\ t.queue = <<>> => HeldOf(t) = t.data
<1>1. t.queue \in Seq(Seq(Byte)) /\ t.data \in Seq(Byte)
  BY DEF TaskSet
<1>2. FlattenSeq(t.queue) \in Seq(Byte)
  <2>1. <<>> \in Seq(Byte)
    OBVIOUS
  <2>2. QED BY <1>1, <2>1, FlattenedAppend
<1>3. t.queue = <<>> => FlattenSeq(t.queue) = <<>>
  BY DEF FlattenSeq
<1>4. t.data \o <<>> = t.data
  BY <1>1, ConcatEmptySeq
<1> DEFINE q == t.queue
           d == t.data
           flat == FlattenSeq(q)
<1>5. HeldOf(t) = d \o flat
  BY DEF HeldOf
<1>6. d \in Seq(Byte) /\ flat \in Seq(Byte) /\ (q = <<>> => flat = <<>>) /\ d \o <<>> = d
  BY <1>1, <1>2, <1>3, <1>4
<1> HIDE DEF q, d, flat
<1>7. d \o flat \in Seq(Byte) /\ (q = <<>> => d \o flat = d)
  BY <1>6
<1>8. QED BY <1>5, <1>7 DEF q, d

\* What the tasks hold, task by task.
LEMMA IdsTyped ==
  ASSUME NEW ts \in Seq(TaskSet)
  PROVE  /\ Len(ts) \in Nat /\ DOMAIN ts = 1 .. Len(ts)
         /\ IdsOf(ts) \in [1 .. Len(ts) -> Seq(Byte)]
         /\ \A i \in 1 .. Len(ts) : ts[i] \in TaskSet /\ IdsOf(ts)[i] = HeldOf(ts[i])
<1>1. Len(ts) \in Nat /\ DOMAIN ts = 1 .. Len(ts) /\ \A i \in 1 .. Len(ts) : ts[i] \in TaskSet
  OBVIOUS
<1>2. \A i \in 1 .. Len(ts) : HeldOf(ts[i]) \in Seq(Byte)
  BY <1>1, HeldTyped
<1>3. QED BY <1>1, <1>2 DEF IdsOf

\* The entries name tasks that there are.
LEMMA EntriesAnswered ==
  ASSUME NEW bytes, NEW y, NEW ts, LayerTyped(bytes, y, ts)
  PROVE  Answers(y.entries, IdsOf(ts), Len(ts))
BY IdsTyped DEF LayerTyped, Answers

\* n bytes more are read.
LEMMA Advanced ==
  ASSUME NEW bytes \in Seq(Byte), NEW pos \in 0 .. Len(bytes), NEW n \in Nat, n <= Len(From(bytes, pos))
  PROVE  /\ From(bytes, pos) \in Seq(Byte) /\ Len(From(bytes, pos)) = Len(bytes) - pos
         /\ pos + n \in 0 .. Len(bytes)
         /\ From(bytes, pos + n) = From(From(bytes, pos), n)
         /\ SubSeq(bytes, 1, pos + n) = SubSeq(bytes, 1, pos) \o SubSeq(From(bytes, pos), 1, n)
<1>1. Len(bytes) \in Nat /\ pos \in Nat
  OBVIOUS
<1>2. From(bytes, pos) \in Seq(Byte) /\ Len(From(bytes, pos)) = Len(bytes) - pos
  BY SubSeqFacts
<1>3. pos + n \in 0 .. Len(bytes) /\ pos + n <= Len(bytes)
  BY <1>1, <1>2
<1>4. From(bytes, pos + n) = From(From(bytes, pos), n) /\ SubSeq(From(bytes, pos), 1, n) = SubSeq(bytes, pos + 1, pos + n)
  BY <1>1, <1>3, FromFrom
<1>5. SubSeq(bytes, 1, pos) \o SubSeq(bytes, pos + 1, pos + n) = SubSeq(bytes, 1, pos + n)
  <2>1. 1 \in 1 .. Len(bytes) + 1 /\ pos \in 1 - 1 .. Len(bytes) /\ pos + n \in pos .. Len(bytes)
    BY <1>1, <1>3
  <2>2. QED BY <2>1, ConcatAdjacentSubSeq
<1>6. QED BY <1>2, <1>3, <1>4, <1>5

-------------------------------------------------------------------------------
(* Steps that read nothing *)

\* Tasks go on, with what they have been sent, or fail.
TasksGoOn(ts, ts2, objs, objs2) ==
  /\ ts2 \in Seq(TaskSet) /\ Len(ts2) = Len(ts) /\ objs \subseteq objs2
  /\ Sound(ts2) => Sound(ts) /\ IdsOf(ts2) = IdsOf(ts)
  /\ \A i \in 1 .. Len(ts) : ts2[i].closed = ts[i].closed
  /\ \A i \in 1 .. Len(ts) : ts2[i].pc = "ok" => ts2[i].closed /\ ts2[i].queue = <<>> /\ ts2[i].data \in objs2

\* Where no file is being sent, nothing is held by the newest task only.
LEMMA TakenIs ==
  ASSUME NEW bytes, NEW y, NEW ts, NEW objs, LayerTyped(bytes, y, ts), Going(bytes, y, ts, objs)
  PROVE  /\ y.pc = "send" => Len(ts) \in 1 .. Len(ts) /\ Taken(y, ts) = IdsOf(ts)[Len(ts)]
         /\ y.pc # "send" => Taken(y, ts) = <<>>
         /\ Taken(y, ts) \in Seq(Byte)
<1>1. ts \in Seq(TaskSet)
  BY DEF LayerTyped
<1>2. /\ Len(ts) \in Nat /\ IdsOf(ts) \in [1 .. Len(ts) -> Seq(Byte)]
      /\ \A i \in 1 .. Len(ts) : IdsOf(ts)[i] = HeldOf(ts[i])
  BY <1>1, IdsTyped
<1>3. CASE y.pc = "send"
  <2>1. Len(ts) \in 1 .. Len(ts)
    BY <1>2, <1>3 DEF Going
  <2>2. Taken(y, ts) = IdsOf(ts)[Len(ts)]
    BY <1>2, <1>3, <2>1 DEF Taken
  <2>3. QED BY <1>2, <1>3, <2>1, <2>2
<1>4. CASE y.pc # "send"
  BY <1>4 DEF Taken
<1>5. QED BY <1>3, <1>4

\* An import does not see what its tasks do with what they hold.
LEMMA TasksMoved ==
  ASSUME NEW bytes, NEW y, NEW ts, NEW objs, LayerOk(bytes, y, ts, objs),
         NEW ts2, NEW objs2, TasksGoOn(ts, ts2, objs, objs2)
  PROVE  LayerOk(bytes, y, ts2, objs2)
<1>1. ts \in Seq(TaskSet) /\ ts2 \in Seq(TaskSet) /\ Len(ts2) = Len(ts)
  BY DEF LayerOk, LayerTyped, TasksGoOn
<1>2. Len(ts) \in Nat /\ DOMAIN ts = 1 .. Len(ts) /\ DOMAIN ts2 = 1 .. Len(ts)
  BY <1>1
<1>3. LayerTyped(bytes, y, ts2)
  BY <1>1 DEF LayerOk, LayerTyped
<1>4. Going(bytes, y, ts2, objs2)
  <2>1. y.pc = "send" => Len(ts) > 0 /\ ~ts[Len(ts)].closed /\ \A k \in DOMAIN y.entries : y.entries[k].task # Len(ts)
    BY DEF LayerOk, Going
  <2>2. y.pc = "send" => ts2[Len(ts)].closed = ts[Len(ts)].closed
    BY <1>2, <2>1 DEF TasksGoOn
  <2>3. y.pc = "send" => Len(ts2) > 0 /\ ~ts2[Len(ts2)].closed /\ \A k \in DOMAIN y.entries : y.entries[k].task # Len(ts2)
    BY <1>1, <2>1, <2>2
  <2>4. \A i \in DOMAIN ts2 : ts2[i].pc = "ok" => ts2[i].closed /\ ts2[i].queue = <<>> /\ ts2[i].data \in objs2
    BY <1>2 DEF TasksGoOn
  <2>5. QED BY <2>3, <2>4 DEF LayerOk, Going
<1>5. ASSUME Sound(ts2)
      PROVE  Sound(ts) /\ IdsOf(ts2) = IdsOf(ts) /\ Taken(y, ts2) = Taken(y, ts)
  <2>1. Sound(ts) /\ IdsOf(ts2) = IdsOf(ts)
    BY <1>5 DEF TasksGoOn
  <2>2. LayerTyped(bytes, y, ts) /\ Going(bytes, y, ts, objs)
    BY DEF LayerOk
  <2>3. CASE y.pc = "send"
    <3>1. Taken(y, ts) = IdsOf(ts)[Len(ts)] /\ Taken(y, ts2) = IdsOf(ts2)[Len(ts2)]
      BY <1>3, <1>4, <2>2, <2>3, TakenIs
    <3>2. QED BY <1>1, <2>1, <3>1
  <2>4. CASE y.pc # "send"
    BY <2>1, <2>4 DEF Taken
  <2>5. QED BY <2>1, <2>3, <2>4
<1>6. AllHeld(bytes, y, ts2)
  BY <1>5 DEF LayerOk, AllHeld
<1>7. Between(bytes, y, ts2)
  BY <1>5 DEF LayerOk, Between
<1>8. InFile(bytes, y, ts2)
  <2>1. CASE Sound(ts2) /\ y.pc \in {"permit", "send"}
    <3>1. Sound(ts) /\ IdsOf(ts2) = IdsOf(ts) /\ Taken(y, ts2) = Taken(y, ts)
      BY <1>5, <2>1
    <3>2. InFile(bytes, y, ts)
      BY DEF LayerOk
    <3> HIDE DEF LayerOk
    <3>3. QED BY <2>1, <3>1, <3>2 DEF InFile
  <2>2. CASE ~(Sound(ts2) /\ y.pc \in {"permit", "send"})
    BY <2>2 DEF InFile
  <2>3. QED BY <2>1, <2>2
<1>9. WellStored(bytes, y, objs2)
  BY DEF LayerOk, WellStored, TasksGoOn
<1>10. QED BY <1>3, <1>4, <1>6, <1>7, <1>8, <1>9 DEF LayerOk

\* The sender of the newest channel is gone.
Dropped(ts) == IF ts = <<>> THEN ts ELSE [ts EXCEPT ![Len(ts)].closed = TRUE]

\* Dropping the sender closes the channel of the newest task, and nothing else.
LEMMA DroppedIs ==
  ASSUME NEW ts \in Seq(TaskSet)
  PROVE  /\ Dropped(ts) \in Seq(TaskSet) /\ Len(Dropped(ts)) = Len(ts)
         /\ \A i \in 1 .. Len(ts) : /\ Dropped(ts)[i].pc = ts[i].pc /\ Dropped(ts)[i].queue = ts[i].queue
                                    /\ Dropped(ts)[i].data = ts[i].data
                                    /\ ts[i].closed => Dropped(ts)[i].closed
         /\ Sound(Dropped(ts)) <=> Sound(ts)
         /\ IdsOf(Dropped(ts)) = IdsOf(ts)
<1> DEFINE d == Dropped(ts)
           n == Len(ts)
<1>1. n \in Nat /\ DOMAIN ts = 1 .. n /\ \A i \in 1 .. n : ts[i] \in TaskSet
  OBVIOUS
<1>2. /\ d \in Seq(TaskSet) /\ Len(d) = n
      /\ \A i \in 1 .. n : /\ d[i].pc = ts[i].pc /\ d[i].queue = ts[i].queue
                           /\ d[i].data = ts[i].data /\ (ts[i].closed => d[i].closed)
  <2>1. CASE ts = <<>>
    BY <2>1 DEF Dropped
  <2>2. CASE ts # <<>>
    <3> DEFINE t == ts[n]
               u == [t EXCEPT !.closed = TRUE]
    <3>1. n \in 1 .. n /\ t \in TaskSet
      BY <1>1, <2>2
    <3>2. d = [ts EXCEPT ![n] = u]
      BY <2>2 DEF Dropped
    <3> HIDE DEF t, d
    <3>3. u \in TaskSet /\ u.pc = t.pc /\ u.queue = t.queue /\ u.data = t.data /\ u.closed
      BY <3>1 DEF TaskSet
    <3> HIDE DEF u
    <3>4. d \in Seq(TaskSet) /\ Len(d) = n
      <4>1. ts \in [1 .. n -> TaskSet]
        BY <1>1
      <4>2. d \in [1 .. n -> TaskSet]
        BY <3>2, <3>3, <4>1
      <4> HIDE DEF n
      <4>3. QED BY <1>1, <4>2
    <3>5. \A i \in 1 .. n : d[i] = IF i = n THEN u ELSE ts[i]
      BY <1>1, <3>2
    <3>6. ASSUME NEW i \in 1 .. n
          PROVE  /\ d[i].pc = ts[i].pc /\ d[i].queue = ts[i].queue
                 /\ d[i].data = ts[i].data /\ (ts[i].closed => d[i].closed)
      <4>1. CASE i = n
        BY <3>3, <3>5, <4>1 DEF t
      <4>2. CASE i # n
        BY <3>5, <4>2
      <4>3. QED BY <4>1, <4>2
    <3>7. QED BY <3>4, <3>6
  <2>3. QED BY <2>1, <2>2
<1> HIDE DEF d
<1>3. DOMAIN d = 1 .. n
  BY <1>2
<1>4. Sound(d) <=> Sound(ts)
  BY <1>1, <1>2, <1>3 DEF Sound
<1>5. IdsOf(d) = IdsOf(ts)
  <2>1. \A i \in 1 .. n : HeldOf(d[i]) = HeldOf(ts[i])
    BY <1>2 DEF HeldOf
  <2>2. IdsOf(d) = [i \in 1 .. n |-> HeldOf(d[i])] /\ IdsOf(ts) = [i \in 1 .. n |-> HeldOf(ts[i])]
    BY <1>1, <1>3 DEF IdsOf
  <2>3. QED BY <2>1, <2>2
<1>6. QED BY <1>2, <1>4, <1>5 DEF d

\* An import that gives up.
LEMMA BailKeeps ==
  ASSUME NEW bytes, NEW y, NEW ts, NEW objs, LayerOk(bytes, y, ts, objs),
         NEW y2, DOMAIN y2 = LayerFields, y2.pc = "error", y2.size = 0, y2.remaining = 0,
         y2.pos = y.pos, y2.entries = y.entries
  PROVE  LayerOk(bytes, y2, Dropped(ts), objs)
<1>1. ts \in Seq(TaskSet)
  BY DEF LayerOk, LayerTyped
<1>2. /\ Dropped(ts) \in Seq(TaskSet) /\ Len(Dropped(ts)) = Len(ts)
      /\ \A i \in 1 .. Len(ts) : /\ Dropped(ts)[i].pc = ts[i].pc /\ Dropped(ts)[i].queue = ts[i].queue
                                 /\ Dropped(ts)[i].data = ts[i].data
                                 /\ ts[i].closed => Dropped(ts)[i].closed
  BY <1>1, DroppedIs
<1>3. LayerTyped(bytes, y2, Dropped(ts))
  BY <1>2 DEF LayerOk, LayerTyped, PC
<1>4. Going(bytes, y2, Dropped(ts), objs)
  <2>1. DOMAIN ts = 1 .. Len(ts) /\ DOMAIN Dropped(ts) = 1 .. Len(ts)
    BY <1>1, <1>2
  <2>2. \A i \in 1 .. Len(ts) : ts[i].pc = "ok" => ts[i].closed /\ ts[i].queue = <<>> /\ ts[i].data \in objs
    BY <2>1 DEF LayerOk, Going
  <2>3. \A i \in DOMAIN Dropped(ts) : Dropped(ts)[i].pc = "ok" =>
          Dropped(ts)[i].closed /\ Dropped(ts)[i].queue = <<>> /\ Dropped(ts)[i].data \in objs
    BY <1>2, <2>1, <2>2
  <2>4. QED BY <2>3 DEF Going
<1>5. QED BY <1>3, <1>4 DEF LayerOk, AllHeld, Between, InFile, WellStored

\* The end of the archive.
LEMMA EndKeeps ==
  ASSUME NEW bytes, NEW y, NEW ts, NEW objs, LayerOk(bytes, y, ts, objs), y.pc = "header",
         From(bytes, y.pos) = <<>>,
         NEW y2, DOMAIN y2 = LayerFields, y2.pc = "finish", y2.size = y.size, y2.remaining = y.remaining,
         y2.pos = y.pos, y2.entries = y.entries
  PROVE  LayerOk(bytes, y2, ts, objs)
BY DEF LayerOk, LayerTyped, PC, Going, AllHeld, Between, InFile, WellStored, Taken

-------------------------------------------------------------------------------
(* Steps that read a block or an entry *)

\* Whatever a block is taken for, its size is a number.
LEMMA HeadersTyped ==
  ASSUME NEW block \in Seq(Byte), Len(block) = BLOCK, NEW h \in Headers(block)
  PROVE  h.size \in Nat /\ Stored(h.size) \in Nat /\ Stored(h.size) >= h.size
<1>1. 1 \in 1 .. Len(block)
  BY Blocks
<1>2. block[1] \in Byte
  BY <1>1
<1>3. block[1][4] \in Nat
  BY <1>2 DEF Byte
<1>4. CASE IsHeader(block)
  <2>1. h = [type |-> block[1][2], name |-> block[1][3], size |-> block[1][4]]
    BY <1>4 DEF Headers
  <2>2. h.size = block[1][4]
    BY <2>1
  <2>3. QED BY <1>3, <2>2, StoredSize
<1>5. CASE ~IsHeader(block)
  <2>1. h \in [type : {"regular", "directory"}, name : {""}, size : {0, INLINE_CONTENT_MAX + 1}]
    BY <1>5 DEF Headers
  <2>2. h.size \in Nat
    <3>1. h.size \in {0, INLINE_CONTENT_MAX + 1}
      BY <2>1
    <3>2. INLINE_CONTENT_MAX \in Nat
      BY Blocks
    <3>3. QED BY <3>1, <3>2
  <2>3. QED BY <2>2, StoredSize
<1>6. QED BY <1>4, <1>5

\* Where an import is that has read n bytes more and has made an entry of them.
Went(bytes, y, ts, n, y2, now) ==
  /\ DOMAIN y2 = LayerFields /\ y2.pc = now /\ y2.pos = y.pos + n /\ y2.remaining = y.remaining
  /\ y2.size \in Nat
  /\ Answers(y2.entries, IdsOf(ts), Len(ts))
  /\ Built(y2.entries, IdsOf(ts)) = Built(y.entries, IdsOf(ts)) \o SubSeq(From(bytes, y.pos), 1, n)

\* An import that has read n bytes more and has made an entry of them has lost none.
LEMMA WentTyped ==
  ASSUME NEW bytes, NEW y, NEW ts, NEW objs, LayerOk(bytes, y, ts, objs), y.pc = "header",
         NEW n \in Nat, n <= Len(From(bytes, y.pos)),
         NEW y2, NEW now \in {"header", "permit"}, Went(bytes, y, ts, n, y2, now)
  PROVE  /\ LayerTyped(bytes, y2, ts) /\ Going(bytes, y2, ts, objs)
         /\ From(bytes, y.pos) \in Seq(Byte) /\ From(bytes, y2.pos) = From(From(bytes, y.pos), n)
         /\ Len(From(bytes, y.pos)) <= Len(bytes)
         /\ AllHeld(bytes, y2, ts)
<1> DEFINE p == y.pos
           ids == IdsOf(ts)
           b == Built(y.entries, ids)
           b2 == Built(y2.entries, ids)
<1>1. LayerTyped(bytes, y, ts) /\ Going(bytes, y, ts, objs) /\ AllHeld(bytes, y, ts)
  BY DEF LayerOk
<1>2. /\ bytes \in Seq(Byte) /\ ts \in Seq(TaskSet) /\ p \in 0 .. Len(bytes) /\ y.remaining = 0
  BY <1>1 DEF LayerTyped, Going
<1>3. n <= Len(From(bytes, p)) /\ y2.pos = p + n
  BY DEF Went
<1> HIDE DEF p
<1>4. /\ From(bytes, p) \in Seq(Byte) /\ Len(From(bytes, p)) = Len(bytes) - p
      /\ p + n \in 0 .. Len(bytes) /\ From(bytes, p + n) = From(From(bytes, p), n)
      /\ SubSeq(bytes, 1, p + n) = SubSeq(bytes, 1, p) \o SubSeq(From(bytes, p), 1, n)
  BY <1>2, <1>3, Advanced
<1>5. Len(bytes) \in Nat /\ Len(From(bytes, p)) <= Len(bytes)
  BY <1>2, <1>4
<1>6. LayerTyped(bytes, y2, ts)
  <2>1. y2.entries \in Seq(Part) /\ \A k \in DOMAIN y2.entries : y2.entries[k].task \in 0 .. Len(ts)
    BY DEF Went, Answers
  <2>2. y2.pc \in PC /\ y2.remaining \in 0 .. y2.size /\ y2.pos \in 0 .. Len(bytes) /\ DOMAIN y2 = LayerFields
    BY <1>2, <1>3, <1>4 DEF Went, PC
  <2>3. y2.size \in Nat
    BY DEF Went
  <2>4. QED BY <1>2, <2>1, <2>2, <2>3 DEF LayerTyped
<1>7. Going(bytes, y2, ts, objs)
  BY <1>1, <1>2 DEF Went, Going
<1>8. AllHeld(bytes, y2, ts)
  <2>1. SUFFICES ASSUME Sound(ts) PROVE SubSeq(bytes, 1, y2.pos) = b2 \o Taken(y2, ts)
    BY DEF AllHeld
  <2>2. SubSeq(bytes, 1, p) = b \o Taken(y, ts) /\ Taken(y, ts) = <<>> /\ Taken(y2, ts) = <<>>
    BY <1>1, <2>1 DEF AllHeld, Taken, Went, p
  <2>3. b \in Seq(Byte)
    <3>1. Answers(y.entries, ids, Len(ts))
      BY <1>1, EntriesAnswered
    <3>2. [task |-> 0, data |-> <<>>, size |-> 0] \in Part /\ 0 \in 0 .. Len(ts)
      BY <1>2, IdsTyped DEF Part
    <3>3. QED BY <3>1, <3>2, EntryAppended
  <2>4. b2 = b \o SubSeq(From(bytes, p), 1, n)
    BY DEF Went, p
  <2> HIDE DEF b, b2
  <2>5. SubSeq(bytes, 1, p) = b
    BY <2>2, <2>3, ConcatEmptySeq
  <2>6. SubSeq(bytes, 1, p + n) = b2
    BY <1>4, <2>4, <2>5
  <2>7. b2 \in Seq(Byte)
    BY <1>2, <1>4, <2>6, SubSeqFacts
  <2>8. b2 \o <<>> = b2
    BY <2>7, ConcatEmptySeq
  <2>9. QED BY <1>3, <2>2, <2>6, <2>8
<1>9. QED BY <1>3, <1>4, <1>5, <1>6, <1>7, <1>8 DEF p

\* To the next header.
LEMMA EntryTaken ==
  ASSUME NEW bytes, NEW y, NEW ts, NEW objs, LayerOk(bytes, y, ts, objs), y.pc = "header",
         NEW n \in Nat \ {0}, n <= Len(From(bytes, y.pos)),
         NEW y2, Went(bytes, y, ts, n, y2, "header"),
         Sound(ts) =>
           /\ SplitEntry(At(From(bytes, y.pos), WriterOf(y.entries, IdsOf(ts))))
                = At(From(From(bytes, y.pos), n), WriterOf(y2.entries, IdsOf(ts)))
           /\ Aligned(From(From(bytes, y.pos), n))
  PROVE  LayerOk(bytes, y2, ts, objs)
<1> DEFINE rest == From(bytes, y.pos)
           ids == IdsOf(ts)
           v == WriterOf(y.entries, ids)
           v2 == WriterOf(y2.entries, ids)
           rest2 == From(rest, n)
<1>1. /\ LayerTyped(bytes, y2, ts) /\ Going(bytes, y2, ts, objs) /\ AllHeld(bytes, y2, ts)
      /\ rest \in Seq(Byte) /\ From(bytes, y2.pos) = rest2 /\ Len(rest) <= Len(bytes)
  BY WentTyped
<1>2. bytes \in Seq(Byte) /\ y2.pc = "header"
  BY DEF LayerOk, LayerTyped, Went
<1>3. Between(bytes, y2, ts)
  <2>1. SUFFICES ASSUME Sound(ts) PROVE ComesTo(bytes, rest2, v2) /\ Aligned(rest2)
    BY <1>1 DEF Between
  <2>2. ComesTo(bytes, rest, v)
    BY <2>1 DEF LayerOk, Between
  <2>3. SplitEntry(At(rest, v)) = At(rest2, v2) /\ Aligned(rest2)
    BY <2>1
  <2>4. n \in 0 .. Len(rest)
    BY <1>1
  <2> HIDE DEF v, v2, rest
  <2>5. rest2 \in Seq(Byte) /\ Len(rest2) < Len(rest)
    BY <1>1, <2>4, SubSeqFacts
  <2> HIDE DEF rest2
  <2>6. QED BY <1>1, <1>2, <2>2, <2>3, <2>5, SplitTurns DEF At
<1>4. QED BY <1>1, <1>2, <1>3 DEF LayerOk, InFile, WellStored

\* There is a block to read.
LEMMA FirstBlock ==
  ASSUME NEW rest \in Seq(Byte), NEW n \in Nat, Len(rest) >= BLOCK + n
  PROVE  /\ SubSeq(rest, 1, BLOCK) \in Seq(Byte) /\ Len(SubSeq(rest, 1, BLOCK)) = BLOCK
         /\ From(rest, BLOCK) \in Seq(Byte) /\ Len(From(rest, BLOCK)) = Len(rest) - BLOCK
         /\ SubSeq(rest, BLOCK + 1, BLOCK + n) \in Seq(Byte)
         /\ SubSeq(From(rest, BLOCK), 1, n) = SubSeq(rest, BLOCK + 1, BLOCK + n)
         /\ From(From(rest, BLOCK), n) = From(rest, BLOCK + n)
         /\ SubSeq(rest, 1, BLOCK) \o SubSeq(rest, BLOCK + 1, BLOCK + n) = SubSeq(rest, 1, BLOCK + n)
         /\ SubSeq(rest, 1, BLOCK) \o From(rest, BLOCK) = rest
<1>1. BLOCK \in Nat /\ Len(rest) \in Nat /\ BLOCK \in 0 .. Len(rest) /\ n \in 0 .. Len(rest) - BLOCK
  BY Blocks
<1>2. /\ SubSeq(rest, 1, BLOCK) \in Seq(Byte) /\ Len(SubSeq(rest, 1, BLOCK)) = BLOCK
      /\ From(rest, BLOCK) \in Seq(Byte) /\ Len(From(rest, BLOCK)) = Len(rest) - BLOCK
      /\ SubSeq(rest, 1, BLOCK) \o From(rest, BLOCK) = rest
  BY <1>1, SubSeqFacts
<1>3. /\ SubSeq(From(rest, BLOCK), 1, n) = SubSeq(rest, BLOCK + 1, BLOCK + n)
      /\ From(From(rest, BLOCK), n) = From(rest, BLOCK + n)
  BY <1>1, FromFrom
<1>4. SubSeq(From(rest, BLOCK), 1, n) \in Seq(Byte)
  <2>1. n \in 0 .. Len(From(rest, BLOCK))
    BY <1>1, <1>2
  <2>2. QED BY <1>2, <2>1, SubSeqFacts
<1>5. SubSeq(rest, 1, BLOCK) \o SubSeq(rest, BLOCK + 1, BLOCK + n) = SubSeq(rest, 1, BLOCK + n)
  <2>1. 1 \in 1 .. Len(rest) + 1 /\ BLOCK \in 1 - 1 .. Len(rest) /\ BLOCK + n \in BLOCK .. Len(rest)
    BY <1>1
  <2>2. QED BY <2>1, ConcatAdjacentSubSeq
<1>6. QED BY <1>2, <1>3, <1>4, <1>5

\* A step from a header with a record that was changed field by field.
HeaderFacts(bytes, y, ts, objs) ==
  LayerOk(bytes, y, ts, objs) /\ y.pc = "header" /\ Len(From(bytes, y.pos)) >= BLOCK

\* What is known of an import that reads a block.
LEMMA HeaderIsRead ==
  ASSUME NEW bytes, NEW y, NEW ts, NEW objs, HeaderFacts(bytes, y, ts, objs)
  PROVE  /\ From(bytes, y.pos) \in Seq(Byte) /\ y.size \in Nat /\ y.remaining = 0
         /\ Answers(y.entries, IdsOf(ts), Len(ts))
         /\ Sound(ts) => /\ ComesTo(bytes, From(bytes, y.pos), WriterOf(y.entries, IdsOf(ts)))
                         /\ Aligned(From(bytes, y.pos))
<1>1. LayerTyped(bytes, y, ts) /\ Going(bytes, y, ts, objs) /\ Between(bytes, y, ts) /\ y.pc = "header"
  BY DEF HeaderFacts, LayerOk
<1>2. y.pos \in 0 .. Len(bytes) /\ bytes \in Seq(Byte) /\ y.size \in Nat /\ y.remaining = 0
  BY <1>1 DEF LayerTyped, Going
<1>3. From(bytes, y.pos) \in Seq(Byte)
  BY <1>2, SubSeqFacts
<1>4. Answers(y.entries, IdsOf(ts), Len(ts))
  BY <1>1, EntriesAnswered
<1>5. QED BY <1>1, <1>2, <1>3, <1>4 DEF Between

\* A block of zeros keeps the invariant of the import.
LEMMA ZerosKeep ==
  ASSUME NEW bytes, NEW y, NEW ts, NEW objs, HeaderFacts(bytes, y, ts, objs),
         SubSeq(From(bytes, y.pos), 1, BLOCK) = Fill(BLOCK),
         NEW y2, DOMAIN y2 = LayerFields, y2.pc = "header", y2.pos = y.pos + BLOCK,
         y2.size = y.size, y2.remaining = y.remaining,
         y2.entries = push_inline(y.entries, Fill(BLOCK))
  PROVE  LayerOk(bytes, y2, ts, objs)
<1> DEFINE rest == From(bytes, y.pos)
           ids == IdsOf(ts)
           w == WriterOf(y.entries, ids)
           w2 == WriterOf(y2.entries, ids)
<1>1. /\ rest \in Seq(Byte) /\ y.size \in Nat /\ Answers(y.entries, ids, Len(ts))
      /\ Sound(ts) => Aligned(rest)
  BY HeaderIsRead
<1>2. BLOCK \in Nat \ {0} /\ BLOCK <= Len(rest) /\ Fill(BLOCK) \in Seq(Byte) /\ LayerOk(bytes, y, ts, objs)
  <2>1. BLOCK \in Nat \ {0} /\ Fill(BLOCK) \in Seq(Byte)
    BY Blocks, FillIs
  <2>2. Len(rest) \in Nat
    BY <1>1
  <2> HIDE DEF rest
  <2>3. QED BY <2>1, <2>2 DEF HeaderFacts, rest
<1>3. /\ Answers(y2.entries, ids, Len(ts)) /\ w2 = write_inline(w, Fill(BLOCK))
      /\ Built(y2.entries, ids) = Built(y.entries, ids) \o Fill(BLOCK)
  <2> DEFINE es == y.entries
             fill == Fill(BLOCK)
  <2>1. Answers(es, ids, Len(ts)) /\ fill \in Seq(Byte) /\ y2.entries = push_inline(es, fill)
    BY <1>1, <1>2
  <2> HIDE DEF es, fill, ids
  <2>2. /\ Answers(push_inline(es, fill), ids, Len(ts))
        /\ WriterOf(push_inline(es, fill), ids) = write_inline(WriterOf(es, ids), fill)
        /\ Built(push_inline(es, fill), ids) = Built(es, ids) \o fill
    BY <2>1, PushedInline
  <2>3. QED BY <2>1, <2>2 DEF es, fill
<1>4. Went(bytes, y, ts, BLOCK, y2, "header")
  BY <1>1, <1>3 DEF Went
<1>5. SplitEntry(At(rest, w)) = At(From(rest, BLOCK), w2)
  BY <1>1, <1>2, <1>3, TurnOfZeros
<1>6. Sound(ts) => Aligned(From(rest, BLOCK))
  <2>1. SUFFICES ASSUME Sound(ts) PROVE Aligned(From(rest, BLOCK))
    OBVIOUS
  <2>2. \A e \in Entry : SubSeq(rest, 1, BLOCK) # HeaderBlock(e)
    BY HeaderIs
  <2>3. QED BY <1>1, <1>2, <2>1, <2>2, NextEntry
<1>7. y.pc = "header"
  BY DEF HeaderFacts
<1>8. QED BY <1>2, <1>4, <1>5, <1>6, <1>7, EntryTaken

\* Between entries, while no task has failed, what is taken for a header is one.
LEMMA RightHeader ==
  ASSUME NEW rest \in Seq(Byte), Aligned(rest), Len(rest) >= BLOCK, SubSeq(rest, 1, BLOCK) # Fill(BLOCK),
         NEW h \in Headers(SubSeq(rest, 1, BLOCK))
  PROVE  /\ h \in Entry /\ SubSeq(rest, 1, BLOCK) = HeaderBlock(h)
         /\ Len(rest) >= BLOCK + Stored(h.size) => Aligned(From(rest, BLOCK + Stored(h.size)))
<1>1. PICK e \in Entry : /\ SubSeq(rest, 1, BLOCK) = HeaderBlock(e)
                         /\ Len(rest) >= BLOCK + Stored(e.size) => Aligned(From(rest, BLOCK + Stored(e.size)))
  BY NextEntry
<1>2. Headers(HeaderBlock(e)) = {e}
  BY HeaderIs
<1>3. h = e
  BY <1>1, <1>2
<1>4. QED BY <1>1, <1>3

\* So does an entry that is stored inline, ...
LEMMA InlineKeeps ==
  ASSUME NEW bytes, NEW y, NEW ts, NEW objs, HeaderFacts(bytes, y, ts, objs),
         SubSeq(From(bytes, y.pos), 1, BLOCK) # Fill(BLOCK),
         NEW h \in Headers(SubSeq(From(bytes, y.pos), 1, BLOCK)), ~IsLarge(h),
         Len(From(bytes, y.pos)) >= BLOCK + Stored(h.size),
         NEW y2, DOMAIN y2 = LayerFields, y2.pc = "header", y2.pos = y.pos + (BLOCK + Stored(h.size)),
         y2.size = y.size, y2.remaining = y.remaining,
         y2.entries = push_inline(push_inline(y.entries, SubSeq(From(bytes, y.pos), 1, BLOCK)),
                                  SubSeq(From(bytes, y.pos), BLOCK + 1, BLOCK + Stored(h.size)))
  PROVE  LayerOk(bytes, y2, ts, objs)
<1> DEFINE rest == From(bytes, y.pos)
           ids == IdsOf(ts)
           w == WriterOf(y.entries, ids)
           w2 == WriterOf(y2.entries, ids)
           n == Stored(h.size)
           m == BLOCK + n
           block == SubSeq(rest, 1, BLOCK)
           data == SubSeq(rest, BLOCK + 1, m)
           first == push_inline(y.entries, block)
<1>1. \A a, b, c \in Seq(Byte) : (a \o b) \o c = a \o (b \o c)
  BY BytesAssociative
<1>2. /\ rest \in Seq(Byte) /\ y.size \in Nat /\ Answers(y.entries, ids, Len(ts))
      /\ Sound(ts) => Aligned(rest)
  BY HeaderIsRead
<1>3. BLOCK \in Nat /\ BLOCK > 0 /\ Len(rest) \in Nat /\ Len(rest) >= BLOCK
  BY <1>2, Blocks DEF HeaderFacts
<1>4. block \in Seq(Byte) /\ Len(block) = BLOCK
  BY <1>2, <1>3, FirstBlock
<1>5. n \in Nat
  BY <1>4, HeadersTyped
<1>6. Len(rest) >= BLOCK + n /\ m \in Nat \ {0} /\ m <= Len(rest)
  <2>1. Len(rest) >= BLOCK + n
    OBVIOUS
  <2> HIDE DEF n, rest
  <2>2. QED BY <1>3, <1>5, <2>1
<1>7. /\ data \in Seq(Byte) /\ block \o data = SubSeq(rest, 1, m)
      /\ SubSeq(From(rest, BLOCK), 1, n) = data /\ From(From(rest, BLOCK), n) = From(rest, m)
  BY <1>2, <1>5, <1>6, FirstBlock
<1>8. y2.entries = push_inline(first, data)
  OBVIOUS
<1> HIDE DEF n, block, data
<1>9. /\ Answers(first, ids, Len(ts)) /\ WriterOf(first, ids) = write_inline(w, block)
      /\ Built(first, ids) = Built(y.entries, ids) \o block
  BY <1>2, <1>4, PushedInline
<1>10. /\ Answers(y2.entries, ids, Len(ts)) /\ w2 = write_inline(write_inline(w, block), data)
       /\ Built(y2.entries, ids) = (Built(y.entries, ids) \o block) \o data
  <2> HIDE DEF first
  <2>1. /\ Answers(push_inline(first, data), ids, Len(ts))
        /\ WriterOf(push_inline(first, data), ids) = write_inline(WriterOf(first, ids), data)
        /\ Built(push_inline(first, data), ids) = Built(first, ids) \o data
    BY <1>7, <1>9, PushedInline
  <2>2. QED BY <1>8, <1>9, <2>1
<1>11. Built(y.entries, ids) \in Seq(Byte)
  <2>1. [task |-> 0, data |-> <<>>, size |-> 0] \in Part /\ 0 \in 0 .. Len(ts)
    BY <1>2 DEF Part, Answers
  <2>2. QED BY <1>2, <2>1, EntryAppended
<1>12. Built(y2.entries, ids) = Built(y.entries, ids) \o SubSeq(rest, 1, m)
  <2> DEFINE b == Built(y.entries, ids)
  <2>1. b \in Seq(Byte) /\ Built(y2.entries, ids) = (b \o block) \o data
    BY <1>10, <1>11
  <2> HIDE DEF b
  <2>2. (b \o block) \o data = b \o (block \o data)
    BY <1>1, <1>4, <1>7, <2>1
  <2>3. QED BY <1>7, <2>1, <2>2 DEF b
<1>13. Went(bytes, y, ts, m, y2, "header")
  BY <1>2, <1>10, <1>12 DEF Went, n
<1>14. ASSUME Sound(ts)
       PROVE  SplitEntry(At(rest, w)) = At(From(rest, m), w2) /\ Aligned(From(rest, m))
  <2>1. h \in Entry /\ block = HeaderBlock(h) /\ Aligned(From(rest, m))
    <3>1. h \in Headers(block) /\ block # Fill(BLOCK)
      BY DEF block
    <3>2. h \in Entry /\ SubSeq(rest, 1, BLOCK) = HeaderBlock(h)
          /\ (Len(rest) >= BLOCK + Stored(h.size) => Aligned(From(rest, BLOCK + Stored(h.size))))
      BY <1>2, <1>3, <1>14, <3>1, RightHeader DEF block
    <3>3. QED BY <1>6, <3>2 DEF block, n
  <2>2. SplitEntry(At(rest, w)) = At(From(From(rest, BLOCK), n),
                                     write_inline(write_inline(w, HeaderBlock(h)), SubSeq(From(rest, BLOCK), 1, n)))
    <3>1. Len(rest) >= BLOCK + Stored(h.size) /\ SubSeq(rest, 1, BLOCK) = HeaderBlock(h)
      BY <1>6, <2>1 DEF block, n
    <3>2. QED BY <1>2, <2>1, <3>1, TurnOfEntry DEF n
  <2>3. QED BY <1>7, <1>10, <2>1, <2>2
<1>15. LayerOk(bytes, y, ts, objs) /\ y.pc = "header"
  BY DEF HeaderFacts
<1> HIDE DEF w, w2, m, rest, ids
<1>16. QED BY <1>6, <1>13, <1>14, <1>15, EntryTaken DEF w, w2, rest, ids

\* ... and the header of a large file.
LEMMA LargeKeeps ==
  ASSUME NEW bytes, NEW y, NEW ts, NEW objs, HeaderFacts(bytes, y, ts, objs),
         SubSeq(From(bytes, y.pos), 1, BLOCK) # Fill(BLOCK),
         NEW h \in Headers(SubSeq(From(bytes, y.pos), 1, BLOCK)), IsLarge(h),
         NEW y2, DOMAIN y2 = LayerFields, y2.pc = "permit", y2.pos = y.pos + BLOCK,
         y2.size = h.size, y2.remaining = y.remaining,
         y2.entries = push_inline(y.entries, SubSeq(From(bytes, y.pos), 1, BLOCK))
  PROVE  LayerOk(bytes, y2, ts, objs)
<1> DEFINE rest == From(bytes, y.pos)
           ids == IdsOf(ts)
           w == WriterOf(y.entries, ids)
           w2 == WriterOf(y2.entries, ids)
           block == SubSeq(rest, 1, BLOCK)
           body == From(rest, BLOCK)
<1>1. /\ rest \in Seq(Byte) /\ y.remaining = 0 /\ Answers(y.entries, ids, Len(ts))
      /\ Sound(ts) => ComesTo(bytes, rest, w) /\ Aligned(rest)
  BY HeaderIsRead
<1>2. BLOCK \in Nat /\ BLOCK > 0 /\ Len(rest) \in Nat /\ Len(rest) >= BLOCK + 0
  BY <1>1, Blocks DEF HeaderFacts
<1>3. /\ block \in Seq(Byte) /\ Len(block) = BLOCK /\ block \o body = rest
      /\ body \in Seq(Byte) /\ Len(body) = Len(rest) - BLOCK
  BY <1>1, <1>2, FirstBlock
<1>4. h.size \in Nat /\ Stored(h.size) \in Nat
  BY <1>3, HeadersTyped
<1>5. /\ Answers(y2.entries, ids, Len(ts)) /\ w2 = write_inline(w, block)
      /\ Built(y2.entries, ids) = Built(y.entries, ids) \o block
  <2> DEFINE es == y.entries
  <2>1. Answers(es, ids, Len(ts)) /\ block \in Seq(Byte) /\ y2.entries = push_inline(es, block)
    BY <1>1, <1>3
  <2> HIDE DEF es, block, ids
  <2>2. /\ Answers(push_inline(es, block), ids, Len(ts))
        /\ WriterOf(push_inline(es, block), ids) = write_inline(WriterOf(es, ids), block)
        /\ Built(push_inline(es, block), ids) = Built(es, ids) \o block
    BY <2>1, PushedInline
  <2>3. QED BY <2>1, <2>2 DEF es
<1>6. Went(bytes, y, ts, BLOCK, y2, "permit")
  BY <1>4, <1>5 DEF Went
<1>7. LayerOk(bytes, y, ts, objs) /\ y.pc = "header"
  BY DEF HeaderFacts
<1>8. /\ LayerTyped(bytes, y2, ts) /\ Going(bytes, y2, ts, objs) /\ AllHeld(bytes, y2, ts)
      /\ From(bytes, y2.pos) = body /\ Len(rest) <= Len(bytes)
  <2>1. BLOCK \in Nat /\ BLOCK <= Len(From(bytes, y.pos))
    BY <1>2
  <2>2. QED BY <1>6, <1>7, <2>1, WentTyped
<1>9. InFile(bytes, y2, ts)
  <2>1. SUFFICES ASSUME Sound(ts)
                 PROVE  InFile(bytes, y2, ts)
    BY DEF InFile
  <2>2. /\ h \in Entry /\ block = HeaderBlock(h)
        /\ Len(rest) >= BLOCK + Stored(h.size) => Aligned(From(rest, BLOCK + Stored(h.size)))
    BY <1>1, <1>2, <2>1, RightHeader
  <2>3. w \in Writer
    BY <1>1, WriterTyped
  <2>4. Taken(y2, ts) = <<>> /\ <<>> \o From(bytes, y2.pos) = body
    BY <1>3, <1>8, ConcatEmptySeq DEF Taken
  <2>5. Len(body) + BLOCK <= Len(bytes)
    <3>1. Len(bytes) \in Nat
      BY <1>8 DEF LayerTyped
    <3> HIDE DEF body, rest
    <3>2. QED BY <1>2, <1>3, <1>8, <3>1
  <2>6. Len(body) >= Stored(h.size) => Aligned(From(body, Stored(h.size)))
    <3>1. SUFFICES ASSUME Len(body) >= Stored(h.size) PROVE Aligned(From(body, Stored(h.size)))
      OBVIOUS
    <3>2. Len(rest) >= BLOCK + Stored(h.size)
      <4> DEFINE k == Stored(h.size)
      <4>1. Len(body) >= k /\ k \in Nat
        BY <1>4, <3>1
      <4> HIDE DEF k, body, rest
      <4>2. Len(rest) >= BLOCK + k
        BY <1>2, <1>3, <4>1
      <4>3. QED BY <4>2 DEF k, rest
    <3>3. From(body, Stored(h.size)) = From(rest, BLOCK + Stored(h.size))
      BY <1>1, <1>4, <3>2, FirstBlock
    <3>4. QED BY <2>2, <3>2, <3>3
  <2>7. ComesTo(bytes, HeaderBlock(h) \o body, w)
    BY <1>1, <1>3, <2>1, <2>2
  <2>8. w2 = write_inline(w, HeaderBlock(h))
    BY <1>5, <2>2
  <2>9. y2.pc = "permit" /\ Len(<<>>) + y2.remaining = 0
    BY <1>1
  <2> HIDE DEF body, w, w2, rest, ids, block
  <2>10. QED BY <2>2, <2>3, <2>4, <2>5, <2>6, <2>7, <2>8, <2>9 DEF InFile, w2, ids
<1>10. QED BY <1>8, <1>9 DEF LayerOk, Between, WellStored

-------------------------------------------------------------------------------
(* A large file *)

\* The tasks that the entries refer to hold what they held.
EntriesKeep(entries, ts, ts2) ==
  \A k \in DOMAIN entries :
    entries[k].task # 0 => IdsOf(ts2)[entries[k].task] = IdsOf(ts)[entries[k].task]

\* Tasks that hold the same for the entries make the same writer and bytes.
LEMMA EntriesKept ==
  ASSUME NEW entries \in Seq(Part), NEW ts, NEW ts2, EntriesKeep(entries, ts, ts2)
  PROVE  /\ WriterOf(entries, IdsOf(ts2)) = WriterOf(entries, IdsOf(ts))
         /\ Built(entries, IdsOf(ts2)) = Built(entries, IdsOf(ts))
<1>1. \A k \in DOMAIN entries :
        entries[k].task # 0 => IdsOf(ts2)[entries[k].task] = IdsOf(ts)[entries[k].task]
  BY DEF EntriesKeep
<1>2. WriterOf(entries, IdsOf(ts2)) = WriterOf(entries, IdsOf(ts))
  BY <1>1, SameWriter
<1>3. Built(entries, IdsOf(ts2)) = Built(entries, IdsOf(ts))
  BY <1>1, SameBuilt
<1>4. QED BY <1>2, <1>3

\* A new task holds nothing.
LEMMA NewTaskIs == NewTask \in TaskSet /\ HeldOf(NewTask) = <<>>
<1>1. NewTask \in TaskSet /\ NewTask.queue = <<>> /\ NewTask.data = <<>>
  BY DEF NewTask, TaskSet
<1>2. HeldOf(NewTask) = NewTask.data
  BY <1>1, HeldTyped
<1>3. QED BY <1>1, <1>2

\* The permit: a task more, which holds nothing yet.
LEMMA AcquireKeeps ==
  ASSUME NEW bytes, NEW y, NEW ts, NEW objs, LayerOk(bytes, y, ts, objs), y.pc = "permit",
         NEW y2, DOMAIN y2 = LayerFields, y2.pc = "send", y2.pos = y.pos,
         y2.size = y.size, y2.remaining = y.size, y2.entries = y.entries
  PROVE  LayerOk(bytes, y2, Append(ts, NewTask), objs)
<1> DEFINE n == Len(ts)
           ts2 == Append(ts, NewTask)
           es == y.entries
<1>1. LayerTyped(bytes, y, ts) /\ Going(bytes, y, ts, objs) /\ AllHeld(bytes, y, ts) /\ InFile(bytes, y, ts)
  BY DEF LayerOk
<1>2. /\ ts \in Seq(TaskSet) /\ es \in Seq(Part) /\ y.size \in Nat
      /\ \A k \in DOMAIN es : es[k].task \in 0 .. n
  BY <1>1 DEF LayerTyped
<1>3. /\ n \in Nat /\ ts2 \in Seq(TaskSet) /\ Len(ts2) = n + 1 /\ ts2[n + 1] = NewTask
      /\ \A i \in 1 .. n : ts2[i] = ts[i]
  BY <1>2, NewTaskIs
<1>4. DOMAIN ts = 1 .. n /\ DOMAIN ts2 = 1 .. n + 1 /\ n + 1 \in 1 .. n + 1
      /\ \A i \in 1 .. n + 1 : i \in 1 .. n \/ i = n + 1
  BY <1>2, <1>3
<1>5. /\ \A i \in 1 .. n : IdsOf(ts)[i] = HeldOf(ts[i])
      /\ \A i \in 1 .. n + 1 : IdsOf(ts2)[i] = HeldOf(ts2[i])
  BY <1>2, <1>3, IdsTyped
<1> HIDE DEF ts2, n
<1>6. EntriesKeep(es, ts, ts2)
  <2>1. \A i \in 1 .. n : i \in 1 .. n + 1 /\ IdsOf(ts2)[i] = IdsOf(ts)[i]
    BY <1>3, <1>4, <1>5
  <2>2. \A k \in DOMAIN es : es[k].task # 0 => es[k].task \in 1 .. n
    BY <1>2, <1>3
  <2> HIDE DEF es
  <2>3. QED BY <2>1, <2>2 DEF EntriesKeep
<1>7. WriterOf(es, IdsOf(ts2)) = WriterOf(es, IdsOf(ts)) /\ Built(es, IdsOf(ts2)) = Built(es, IdsOf(ts))
  BY <1>2, <1>6, EntriesKept
<1>8. Sound(ts2) => Sound(ts)
  BY <1>3, <1>4 DEF Sound
<1>9. Taken(y2, ts2) = <<>> /\ Taken(y, ts) = <<>>
  BY <1>3, NewTaskIs DEF Taken
<1>10. LayerTyped(bytes, y2, ts2)
  <2>1. \A k \in DOMAIN y2.entries : y2.entries[k].task \in 0 .. Len(ts2)
    BY <1>2, <1>3
  <2>2. y2.pc \in PC /\ y2.remaining \in 0 .. y2.size
    BY <1>2 DEF PC
  <2>3. QED BY <1>1, <1>3, <2>1, <2>2 DEF LayerTyped
<1>11. Going(bytes, y2, ts2, objs)
  <2>1. ~NewTask.closed /\ NewTask.pc = "receive"
    BY DEF NewTask
  <2>2. Len(ts2) > 0 /\ ~ts2[Len(ts2)].closed
    BY <1>3, <2>1
  <2>3. \A k \in DOMAIN y2.entries : y2.entries[k].task # Len(ts2)
    BY <1>2, <1>3
  <2>4. \A i \in 1 .. n : ts[i].pc = "ok" => ts[i].closed /\ ts[i].queue = <<>> /\ ts[i].data \in objs
    BY <1>1, <1>4 DEF Going
  <2>5. \A i \in 1 .. n + 1 : ts2[i].pc = "ok" => ts2[i].closed /\ ts2[i].queue = <<>> /\ ts2[i].data \in objs
    BY <1>3, <1>4, <2>1, <2>4
  <2>6. QED BY <1>4, <2>2, <2>3, <2>5 DEF Going
<1>12. AllHeld(bytes, y2, ts2)
  <2>1. SUFFICES ASSUME Sound(ts2) PROVE SubSeq(bytes, 1, y2.pos) = Built(y2.entries, IdsOf(ts2)) \o Taken(y2, ts2)
    BY DEF AllHeld
  <2>2. SubSeq(bytes, 1, y.pos) = Built(y.entries, IdsOf(ts)) \o Taken(y, ts)
    BY <1>1, <1>8, <2>1 DEF AllHeld
  <2>3. QED BY <1>7, <1>9, <2>2
<1>13. InFile(bytes, y2, ts2)
  <2>1. SUFFICES ASSUME Sound(ts2) PROVE InFile(bytes, y2, ts2)
    BY DEF InFile
  <2>2. \E e \in Entry : \E w \in Writer :
          LET body == Taken(y, ts) \o From(bytes, y.pos)
          IN  /\ IsLarge(e) /\ y.size = e.size /\ Len(Taken(y, ts)) + y.remaining = (IF y.pc = "send" THEN e.size ELSE 0)
              /\ ComesTo(bytes, HeaderBlock(e) \o body, w)
              /\ Len(body) + BLOCK <= Len(bytes)
              /\ WriterOf(y.entries, IdsOf(ts)) = write_inline(w, HeaderBlock(e))
              /\ Len(body) >= Stored(e.size) => Aligned(From(body, Stored(e.size)))
    BY <1>1, <1>8, <2>1 DEF InFile
  <2> DEFINE body == <<>> \o From(bytes, y.pos)
  <2>3. PICK e \in Entry, w \in Writer :
              /\ IsLarge(e) /\ y.size = e.size
              /\ ComesTo(bytes, HeaderBlock(e) \o body, w)
              /\ Len(body) + BLOCK <= Len(bytes)
              /\ WriterOf(y.entries, IdsOf(ts)) = write_inline(w, HeaderBlock(e))
              /\ Len(body) >= Stored(e.size) => Aligned(From(body, Stored(e.size)))
    BY <1>9, <2>2
  <2>4. WriterOf(y2.entries, IdsOf(ts2)) = write_inline(w, HeaderBlock(e))
    BY <1>7, <2>3
  <2>5. Taken(y2, ts2) \o From(bytes, y2.pos) = body
    BY <1>9
  <2>6. Len(Taken(y2, ts2)) + y2.remaining = e.size
    BY <1>2, <1>9, <2>3
  <2> HIDE DEF body
  <2>7. QED BY <2>3, <2>4, <2>5, <2>6 DEF InFile
<1>14. QED BY <1>10, <1>11, <1>12, <1>13 DEF LayerOk, Between, WellStored, ts2

\* A chunk in the newest channel.
SentTo(ts, chunk) == [ts EXCEPT ![Len(ts)].queue = Append(@, chunk)]

\* A chunk is put into the channel of the newest task.
LEMMA SentIs ==
  ASSUME NEW ts \in Seq(TaskSet), Len(ts) > 0, NEW chunk \in Seq(Byte)
  PROVE  LET n   == Len(ts)
             ts2 == SentTo(ts, chunk)
         IN  /\ ts2 \in Seq(TaskSet) /\ Len(ts2) = n
             /\ ts2[n].pc = ts[n].pc /\ ts2[n].closed = ts[n].closed
             /\ HeldOf(ts2[n]) = HeldOf(ts[n]) \o chunk
             /\ \A i \in 1 .. n : i # n => ts2[i] = ts[i]
<1> DEFINE n == Len(ts)
           t == ts[n]
           q == Append(t.queue, chunk)
           u == [t EXCEPT !.queue = q]
           ts2 == SentTo(ts, chunk)
<1>1. \A x, y, z \in Seq(Byte) : (x \o y) \o z = x \o (y \o z)
  BY BytesAssociative
<1>2. n \in Nat /\ n \in 1 .. n /\ DOMAIN ts = 1 .. n /\ ts \in [1 .. n -> TaskSet] /\ t \in TaskSet
  OBVIOUS
<1>3. ts2 = [ts EXCEPT ![n] = u]
  BY DEF SentTo
<1> HIDE DEF ts2, n, t
<1>4. t.queue \in Seq(Seq(Byte)) /\ t.data \in Seq(Byte)
  BY <1>2 DEF TaskSet
<1>5. q \in Seq(Seq(Byte))
  BY <1>4
<1>6. FlattenSeq(q) = FlattenSeq(t.queue) \o chunk /\ FlattenSeq(t.queue) \in Seq(Byte)
  BY <1>4, FlattenedAppend
<1> HIDE DEF q
<1>7. u \in TaskSet /\ u.pc = t.pc /\ u.closed = t.closed /\ u.data = t.data /\ u.queue = q
  BY <1>2, <1>5 DEF TaskSet
<1> HIDE DEF u
<1>8. HeldOf(u) = HeldOf(t) \o chunk
  <2>1. HeldOf(u) = t.data \o FlattenSeq(q) /\ HeldOf(t) = t.data \o FlattenSeq(t.queue)
    BY <1>7 DEF HeldOf
  <2> DEFINE d == t.data
             f == FlattenSeq(t.queue)
  <2>2. d \in Seq(Byte) /\ f \in Seq(Byte) /\ HeldOf(u) = d \o (f \o chunk) /\ HeldOf(t) = d \o f
    BY <1>4, <1>6, <2>1
  <2> HIDE DEF d, f
  <2>3. (d \o f) \o chunk = d \o (f \o chunk)
    BY <1>1, <2>2
  <2>4. QED BY <2>2, <2>3
<1>9. ts2 \in [1 .. n -> TaskSet] /\ ts2[n] = u /\ \A i \in 1 .. n : i # n => ts2[i] = ts[i]
  BY <1>2, <1>3, <1>7
<1>10. ts2 \in Seq(TaskSet) /\ Len(ts2) = n
  BY <1>2, <1>9
<1>11. QED BY <1>7, <1>8, <1>9, <1>10 DEF ts2, n, t

\* Some bytes of the file, into the channel.
LEMMA SendKeeps ==
  ASSUME NEW bytes, NEW y, NEW ts, NEW objs, LayerOk(bytes, y, ts, objs), y.pc = "send",
         ts[Len(ts)].pc = "receive",
         NEW k \in Nat, k <= y.remaining, k <= Len(From(bytes, y.pos)),
         NEW y2, DOMAIN y2 = LayerFields, y2.pc = "send", y2.pos = y.pos + k,
         y2.size = y.size, y2.remaining = y.remaining - k, y2.entries = y.entries
  PROVE  LayerOk(bytes, y2, SentTo(ts, SubSeq(From(bytes, y.pos), 1, k)), objs)
<1> DEFINE n == Len(ts)
           p == y.pos
           rest == From(bytes, p)
           chunk == SubSeq(rest, 1, k)
           ts2 == SentTo(ts, chunk)
           es == y.entries
           held == Taken(y, ts)
<1>1. \A a, b, c \in Seq(Byte) : (a \o b) \o c = a \o (b \o c)
  BY BytesAssociative
<1>2. LayerTyped(bytes, y, ts) /\ Going(bytes, y, ts, objs) /\ AllHeld(bytes, y, ts) /\ InFile(bytes, y, ts)
  BY DEF LayerOk
<1>3. /\ ts \in Seq(TaskSet) /\ es \in Seq(Part) /\ y.size \in Nat /\ bytes \in Seq(Byte)
      /\ \A j \in DOMAIN es : es[j].task \in 0 .. n
      /\ p \in 0 .. Len(bytes) /\ y.remaining \in 0 .. y.size
  BY <1>2 DEF LayerTyped
<1>4. n \in Nat /\ n > 0 /\ n \in 1 .. n /\ ~ts[n].closed /\ \A j \in DOMAIN es : es[j].task # n
  BY <1>2, <1>3 DEF Going
<1> HIDE DEF p
<1>5. /\ rest \in Seq(Byte) /\ p + k \in 0 .. Len(bytes) /\ From(bytes, p + k) = From(rest, k)
      /\ SubSeq(bytes, 1, p + k) = SubSeq(bytes, 1, p) \o chunk
  BY <1>3, Advanced DEF p
<1>6. chunk \in Seq(Byte) /\ From(rest, k) \in Seq(Byte) /\ chunk \o From(rest, k) = rest
  <2>1. k \in 0 .. Len(rest)
    BY <1>5 DEF p
  <2>2. QED BY <1>5, <2>1, SubSeqFacts
<1> HIDE DEF rest, chunk
<1>7. /\ ts2 \in Seq(TaskSet) /\ Len(ts2) = n
      /\ ts2[n].pc = "receive" /\ ts2[n].closed = ts[n].closed
      /\ HeldOf(ts2[n]) = HeldOf(ts[n]) \o chunk
      /\ \A i \in 1 .. n : i # n => ts2[i] = ts[i]
  BY <1>3, <1>4, <1>6, SentIs
<1> HIDE DEF ts2, n
<1>8. DOMAIN ts = 1 .. n /\ DOMAIN ts2 = 1 .. n
  BY <1>3, <1>7 DEF n
<1>9. /\ \A i \in 1 .. n : IdsOf(ts)[i] = HeldOf(ts[i])
      /\ \A i \in 1 .. n : IdsOf(ts2)[i] = HeldOf(ts2[i])
  BY <1>3, <1>7, IdsTyped DEF n
<1>10. EntriesKeep(es, ts, ts2)
  <2>1. \A i \in 1 .. n : i # n => IdsOf(ts2)[i] = IdsOf(ts)[i]
    BY <1>7, <1>9
  <2>2. \A j \in DOMAIN es : es[j].task # 0 => es[j].task \in 1 .. n /\ es[j].task # n
    BY <1>3, <1>4
  <2> HIDE DEF es
  <2>3. QED BY <2>1, <2>2 DEF EntriesKeep
<1>11. WriterOf(es, IdsOf(ts2)) = WriterOf(es, IdsOf(ts)) /\ Built(es, IdsOf(ts2)) = Built(es, IdsOf(ts))
  BY <1>3, <1>10, EntriesKept
<1>12. Sound(ts2) => Sound(ts)
  <2>1. SUFFICES ASSUME Sound(ts2), NEW i \in 1 .. n PROVE ts[i].pc # "failed"
    BY <1>8 DEF Sound
  <2>2. CASE i = n
    BY <2>2 DEF n
  <2>3. CASE i # n
    BY <1>7, <1>8, <2>1, <2>3 DEF Sound
  <2>4. QED BY <2>2, <2>3
<1>13. held \in Seq(Byte) /\ Taken(y2, ts2) = held \o chunk
  <2>1. held \in Seq(Byte)
    BY <1>2, TakenIs
  <2>2. held = HeldOf(ts[n]) /\ Taken(y2, ts2) = HeldOf(ts2[n])
    BY <1>7 DEF Taken, n
  <2>3. QED BY <1>7, <2>1, <2>2
<1> HIDE DEF held
<1>14. LayerTyped(bytes, y2, ts2)
  <2>1. y2.remaining \in 0 .. y2.size
    BY <1>3
  <2>2. y2.pos \in 0 .. Len(bytes)
    BY <1>5 DEF p
  <2>3. QED BY <1>2, <1>7, <2>1, <2>2 DEF LayerTyped, PC, n
<1>15. Going(bytes, y2, ts2, objs)
  <2>1. \A i \in 1 .. n : ts[i].pc = "ok" => ts[i].closed /\ ts[i].queue = <<>> /\ ts[i].data \in objs
    BY <1>2, <1>8 DEF Going
  <2>2. \A i \in 1 .. n : ts2[i].pc = "ok" => ts2[i].closed /\ ts2[i].queue = <<>> /\ ts2[i].data \in objs
    BY <1>7, <2>1
  <2>3. \A j \in DOMAIN y2.entries : y2.entries[j].task # n
    BY <1>4
  <2>4. QED BY <1>4, <1>7, <1>8, <2>2, <2>3 DEF Going
<1>16. AllHeld(bytes, y2, ts2)
  <2>1. SUFFICES ASSUME Sound(ts2) PROVE SubSeq(bytes, 1, y2.pos) = Built(es, IdsOf(ts2)) \o Taken(y2, ts2)
    BY DEF AllHeld
  <2>2. SubSeq(bytes, 1, p) = Built(es, IdsOf(ts)) \o held
    BY <1>2, <1>12, <2>1 DEF AllHeld, held, p
  <2>3. Built(es, IdsOf(ts)) \in Seq(Byte)
    <3>1. Answers(es, IdsOf(ts), n)
      BY <1>2, EntriesAnswered DEF n
    <3>2. [task |-> 0, data |-> <<>>, size |-> 0] \in Part /\ 0 \in 0 .. n
      BY <1>4 DEF Part
    <3>3. QED BY <3>1, <3>2, EntryAppended
  <2> DEFINE b == Built(es, IdsOf(ts))
  <2>4. Built(es, IdsOf(ts2)) = b /\ b \in Seq(Byte) /\ SubSeq(bytes, 1, p) = b \o held
    BY <1>11, <2>2, <2>3
  <2> HIDE DEF b, es
  <2>5. (b \o held) \o chunk = b \o (held \o chunk)
    BY <1>1, <1>6, <1>13, <2>4
  <2>6. y2.pos = p + k
    BY DEF p
  <2>7. QED BY <1>5, <1>13, <2>4, <2>5, <2>6
<1>17. InFile(bytes, y2, ts2)
  <2>1. SUFFICES ASSUME Sound(ts2) PROVE InFile(bytes, y2, ts2)
    BY DEF InFile
  <2> DEFINE body == held \o rest
  <2>2. \E e \in Entry : \E w \in Writer :
              /\ IsLarge(e) /\ y.size = e.size /\ Len(held) + y.remaining = e.size
              /\ ComesTo(bytes, HeaderBlock(e) \o body, w)
              /\ Len(body) + BLOCK <= Len(bytes)
              /\ WriterOf(y.entries, IdsOf(ts)) = write_inline(w, HeaderBlock(e))
              /\ Len(body) >= Stored(e.size) => Aligned(From(body, Stored(e.size)))
    BY <1>2, <1>12, <2>1 DEF InFile, held, rest, p
  <2>3. PICK e \in Entry, w \in Writer :
              /\ IsLarge(e) /\ y.size = e.size /\ Len(held) + y.remaining = e.size
              /\ ComesTo(bytes, HeaderBlock(e) \o body, w)
              /\ Len(body) + BLOCK <= Len(bytes)
              /\ WriterOf(y.entries, IdsOf(ts)) = write_inline(w, HeaderBlock(e))
              /\ Len(body) >= Stored(e.size) => Aligned(From(body, Stored(e.size)))
    BY <2>2
  <2>4. WriterOf(y2.entries, IdsOf(ts2)) = write_inline(w, HeaderBlock(e))
    BY <1>11, <2>3
  <2>5. Taken(y2, ts2) \o From(bytes, y2.pos) = body
    <3>1. y2.pos = p + k
      BY DEF p
    <3>2. (held \o chunk) \o From(rest, k) = held \o (chunk \o From(rest, k))
      BY <1>1, <1>6, <1>13
    <3>3. QED BY <1>5, <1>6, <1>13, <3>1, <3>2
  <2>6. Len(Taken(y2, ts2)) + y2.remaining = e.size
    <3>1. Len(held \o chunk) = Len(held) + k
      <4>1. Len(chunk) = k
        <5>1. k \in 0 .. Len(rest)
          BY <1>5 DEF p, rest
        <5>2. QED BY <1>5, <5>1, SubSeqFacts DEF chunk
      <4>2. Len(held \o chunk) = Len(held) + Len(chunk)
        BY <1>6, <1>13
      <4>3. QED BY <4>1, <4>2
    <3>2. Len(held) \in Nat /\ y.remaining \in Nat
      BY <1>3, <1>13
    <3>3. QED BY <1>13, <2>3, <3>1, <3>2
  <2> HIDE DEF body
  <2>7. QED BY <2>3, <2>4, <2>5, <2>6 DEF InFile
<1>18. QED BY <1>14, <1>15, <1>16, <1>17 DEF LayerOk, Between, WellStored, ts2, chunk, rest, p

\* What was sent of a file and what is left to read, one after the other.
LEMMA TakenApart ==
  ASSUME NEW held \in Seq(Byte), NEW rest \in Seq(Byte), NEW k \in Nat, k <= Len(rest)
  PROVE  /\ held \o rest \in Seq(Byte) /\ Len(held \o rest) = Len(held) + Len(rest)
         /\ SubSeq(held \o rest, 1, Len(held)) = held
         /\ SubSeq(held \o rest, Len(held) + 1, Len(held) + k) = SubSeq(rest, 1, k)
         /\ From(held \o rest, Len(held) + k) = From(rest, k)
<1> DEFINE body == held \o rest
           n == Len(held)
           m == Len(rest)
<1>1. n \in Nat /\ m \in Nat /\ k <= m /\ body \in Seq(Byte) /\ Len(body) = n + m
      /\ DOMAIN held = 1 .. n /\ DOMAIN rest = 1 .. m
  OBVIOUS
<1>2. /\ \A i \in 1 .. n : body[i] = held[i]
      /\ \A i \in 1 .. m : body[n + i] = rest[i]
  OBVIOUS
<1>3. held \in Seq(Byte) /\ rest \in Seq(Byte) /\ Len(held) = n /\ Len(rest) = m
  OBVIOUS
<1> HIDE DEF body, n, m
<1>4. SubSeq(body, 1, n) = held
  <2>1. SubSeq(body, 1, n) \in Seq(Byte) /\ Len(SubSeq(body, 1, n)) = n
        /\ \A i \in 1 .. n : SubSeq(body, 1, n)[i] = body[i]
    BY <1>1
  <2> DEFINE s == SubSeq(body, 1, n)
  <2> HIDE DEF s
  <2>2. s \in Seq(Byte) /\ Len(s) = Len(held) /\ \A i \in 1 .. n : s[i] = held[i]
    BY <1>2, <1>3, <2>1 DEF s
  <2>3. s = held
    BY <1>3, <2>2
  <2>4. QED BY <2>3 DEF s
<1>5. SubSeq(body, n + 1, n + k) = SubSeq(rest, 1, k)
  <2> DEFINE s == SubSeq(body, n + 1, n + k)
             t == SubSeq(rest, 1, k)
  <2>1. s \in Seq(Byte) /\ Len(s) = k /\ \A i \in 1 .. k : s[i] = body[n + i]
    <3>1. s \in Seq(Byte) /\ Len(s) = k
      BY <1>1
    <3>2. s = [i \in 1 .. (n + k) - (n + 1) + 1 |-> body[(n + 1) + i - 1]]
      BY <1>1
    <3>3. (n + k) - (n + 1) + 1 = k /\ \A i \in 1 .. k : (n + 1) + i - 1 = n + i
      BY <1>1
    <3>4. QED BY <3>1, <3>2, <3>3
  <2>2. t \in Seq(Byte) /\ Len(t) = k /\ \A i \in 1 .. k : t[i] = rest[i]
    BY <1>1, <1>3
  <2> HIDE DEF s, t
  <2>3. \A i \in 1 .. k : i \in 1 .. m
    BY <1>1
  <2>4. \A i \in 1 .. k : s[i] = t[i]
    BY <1>2, <2>1, <2>2, <2>3
  <2>5. s = t
    BY <2>1, <2>2, <2>4
  <2>6. QED BY <2>5 DEF s, t
<1>6. From(body, n + k) = From(rest, k)
  <2> DEFINE s == From(body, n + k)
             t == From(rest, k)
  <2>1. s \in Seq(Byte) /\ Len(s) = m - k /\ \A i \in 1 .. m - k : s[i] = body[n + (k + i)]
    BY <1>1 DEF From
  <2>2. t \in Seq(Byte) /\ Len(t) = m - k /\ \A i \in 1 .. m - k : t[i] = rest[k + i]
    BY <1>1, <1>3 DEF From
  <2> HIDE DEF s, t
  <2>3. \A i \in 1 .. m - k : k + i \in 1 .. m
    BY <1>1
  <2>4. \A i \in 1 .. m - k : s[i] = t[i]
    BY <1>2, <2>1, <2>2, <2>3
  <2>5. s = t
    BY <2>1, <2>2, <2>4
  <2>6. QED BY <2>5 DEF s, t
<1>7. QED BY <1>1, <1>3, <1>4, <1>5, <1>6 DEF body, n

\* The end of the file: the reference, the padding, and on to the next header.
LEMMA SendEndsKeeps ==
  ASSUME NEW bytes, NEW y, NEW ts, NEW objs, LayerOk(bytes, y, ts, objs), y.pc = "send",
         y.remaining = 0 \/ ts[Len(ts)].pc # "receive",
         NEW k, k = Stored(y.size) - y.size, k <= Len(From(bytes, y.pos)),
         NEW y2, DOMAIN y2 = LayerFields, y2.pc = "header", y2.pos = y.pos + k,
         y2.size = 0, y2.remaining = 0,
         y2.entries = push_inline(push_external(y.entries, Len(ts), y.size), SubSeq(From(bytes, y.pos), 1, k))
  PROVE  LayerOk(bytes, y2, Dropped(ts), objs)
<1> DEFINE n == Len(ts)
           p == y.pos
           rest == From(bytes, p)
           padding == SubSeq(rest, 1, k)
           ts2 == Dropped(ts)
           ids == IdsOf(ts)
           es == y.entries
           es1 == push_external(es, n, y.size)
           held == Taken(y, ts)
           rest2 == From(rest, k)
<1>1. \A a, b, c \in Seq(Byte) : (a \o b) \o c = a \o (b \o c)
  BY BytesAssociative
<1>2. LayerTyped(bytes, y, ts) /\ Going(bytes, y, ts, objs) /\ AllHeld(bytes, y, ts) /\ InFile(bytes, y, ts)
  BY DEF LayerOk
<1>3. /\ ts \in Seq(TaskSet) /\ es \in Seq(Part) /\ y.size \in Nat /\ bytes \in Seq(Byte)
      /\ p \in 0 .. Len(bytes) /\ y.remaining \in 0 .. y.size
  BY <1>2 DEF LayerTyped
<1>4. n \in Nat /\ n \in 1 .. n /\ ~ts[n].closed
  BY <1>2, <1>3 DEF Going
<1>5. k \in Nat /\ Stored(y.size) = y.size + k
  <2>1. Stored(y.size) \in Nat /\ Stored(y.size) >= y.size
    BY <1>3, StoredSize
  <2>2. QED BY <1>3, <2>1
<1> HIDE DEF p
<1>6. /\ rest \in Seq(Byte) /\ p + k \in 0 .. Len(bytes) /\ From(bytes, p + k) = rest2
      /\ SubSeq(bytes, 1, p + k) = SubSeq(bytes, 1, p) \o padding
      /\ k <= Len(rest)
  BY <1>3, <1>5, Advanced DEF p
<1>7. padding \in Seq(Byte) /\ rest2 \in Seq(Byte)
  <2>1. k \in 0 .. Len(rest)
    BY <1>5, <1>6
  <2>2. QED BY <1>6, <2>1, SubSeqFacts
<1>8. y2.pos = p + k /\ y2.entries = push_inline(es1, padding)
  BY DEF p
<1> HIDE DEF rest, padding, rest2
<1>9. /\ ts2 \in Seq(TaskSet) /\ Len(ts2) = n
      /\ \A i \in 1 .. n : /\ ts2[i].pc = ts[i].pc /\ ts2[i].queue = ts[i].queue
                           /\ ts2[i].data = ts[i].data
                           /\ ts[i].closed => ts2[i].closed
      /\ Sound(ts2) <=> Sound(ts)
      /\ IdsOf(ts2) = ids
  BY <1>3, DroppedIs
<1>10. Answers(es, ids, n) /\ ids \in [1 .. n -> Seq(Byte)] /\ DOMAIN ts = 1 .. n
  BY <1>2, <1>3, EntriesAnswered, IdsTyped
<1>11. held = ids[n] /\ held \in Seq(Byte)
  BY <1>2, TakenIs
<1> HIDE DEF ids, n, ts2, held
<1>12. /\ Answers(es1, ids, n)
       /\ WriterOf(es1, ids) = write_reference(add_external_size(WriterOf(es, ids), y.size), held)
       /\ Built(es1, ids) = Built(es, ids) \o held
  <2> DEFINE size == y.size
  <2>1. n \in 1 .. n /\ size \in Nat /\ es1 = push_external(es, n, size)
    BY <1>3, <1>4
  <2> HIDE DEF es, size, es1
  <2>2. /\ Answers(push_external(es, n, size), ids, n)
        /\ WriterOf(push_external(es, n, size), ids)
             = write_reference(add_external_size(WriterOf(es, ids), size), ids[n])
        /\ Built(push_external(es, n, size), ids) = Built(es, ids) \o ids[n]
    BY <1>10, <2>1, PushedExternal
  <2>3. QED BY <1>11, <2>1, <2>2 DEF size
<1> HIDE DEF es1
<1>13. /\ Answers(y2.entries, ids, n)
       /\ WriterOf(y2.entries, ids) = write_inline(WriterOf(es1, ids), padding)
       /\ Built(y2.entries, ids) = Built(es1, ids) \o padding
  <2>1. /\ Answers(push_inline(es1, padding), ids, n)
        /\ WriterOf(push_inline(es1, padding), ids) = write_inline(WriterOf(es1, ids), padding)
        /\ Built(push_inline(es1, padding), ids) = Built(es1, ids) \o padding
    BY <1>7, <1>12, PushedInline
  <2>2. QED BY <1>8, <2>1
<1>14. LayerTyped(bytes, y2, ts2)
  <2>1. y2.entries \in Seq(Part) /\ \A j \in DOMAIN y2.entries : y2.entries[j].task \in 0 .. n
    BY <1>13 DEF Answers
  <2>2. y2.pos \in 0 .. Len(bytes) /\ y2.remaining \in 0 .. y2.size /\ y2.size \in Nat /\ y2.pc \in PC
    BY <1>6, <1>8 DEF PC
  <2>3. QED BY <1>3, <1>9, <2>1, <2>2 DEF LayerTyped
<1>15. Going(bytes, y2, ts2, objs)
  <2>1. \A i \in 1 .. n : ts[i].pc = "ok" => ts[i].closed /\ ts[i].queue = <<>> /\ ts[i].data \in objs
    BY <1>2, <1>10 DEF Going
  <2>2. \A i \in 1 .. n : ts2[i].pc = "ok" => ts2[i].closed /\ ts2[i].queue = <<>> /\ ts2[i].data \in objs
    BY <1>9, <2>1
  <2>3. DOMAIN ts2 = 1 .. n
    BY <1>9
  <2>4. QED BY <2>2, <2>3 DEF Going
<1>16. Taken(y2, ts2) = <<>>
  BY DEF Taken
<1>17. AllHeld(bytes, y2, ts2)
  <2>1. SUFFICES ASSUME Sound(ts2) PROVE SubSeq(bytes, 1, y2.pos) = Built(y2.entries, ids) \o <<>>
    BY <1>9, <1>16 DEF AllHeld
  <2>2. SubSeq(bytes, 1, p) = Built(es, ids) \o held
    BY <1>2, <1>9, <2>1 DEF AllHeld, held, p, ids
  <2>3. SubSeq(bytes, 1, p + k) = Built(y2.entries, ids)
    BY <1>6, <1>12, <1>13, <2>2
  <2>4. SubSeq(bytes, 1, p + k) \in Seq(Byte)
    BY <1>3, <1>6, SubSeqFacts
  <2> DEFINE b == Built(y2.entries, ids)
  <2>5. b \in Seq(Byte) /\ SubSeq(bytes, 1, p + k) = b
    BY <2>3, <2>4
  <2> HIDE DEF b
  <2>6. b \o <<>> = b
    BY <2>5, ConcatEmptySeq
  <2>7. QED BY <1>8, <2>5, <2>6 DEF b
<1>18. Between(bytes, y2, ts2)
  <2>1. SUFFICES ASSUME Sound(ts) PROVE ComesTo(bytes, rest2, WriterOf(y2.entries, ids)) /\ Aligned(rest2)
    BY <1>6, <1>8, <1>9 DEF Between
  <2>2. y.remaining = 0
    <3>1. ts[n].pc \in {"receive", "ok", "failed"}
      <4>1. ts[n] \in TaskSet
        BY <1>3, <1>4, <1>10
      <4>2. QED BY <4>1 DEF TaskSet
    <3>2. ts[n].pc # "failed" /\ ts[n].pc # "ok"
      BY <1>2, <1>4, <1>10, <2>1 DEF Sound, Going
    <3>3. QED BY <3>1, <3>2 DEF n
  <2> DEFINE body == held \o rest
  <2>3. \E e \in Entry : \E w \in Writer :
              /\ IsLarge(e) /\ y.size = e.size /\ Len(held) + y.remaining = e.size
              /\ ComesTo(bytes, HeaderBlock(e) \o body, w)
              /\ Len(body) + BLOCK <= Len(bytes)
              /\ WriterOf(y.entries, IdsOf(ts)) = write_inline(w, HeaderBlock(e))
              /\ Len(body) >= Stored(e.size) => Aligned(From(body, Stored(e.size)))
    BY <1>2, <2>1 DEF InFile, held, rest, p
  <2>4. PICK e \in Entry, w \in Writer :
              /\ IsLarge(e) /\ y.size = e.size /\ Len(held) + y.remaining = e.size
              /\ ComesTo(bytes, HeaderBlock(e) \o body, w)
              /\ Len(body) + BLOCK <= Len(bytes)
              /\ WriterOf(es, ids) = write_inline(w, HeaderBlock(e))
              /\ Len(body) >= Stored(e.size) => Aligned(From(body, Stored(e.size)))
    BY <2>3 DEF ids
  <2> DEFINE size == e.size
             block == HeaderBlock(e)
             all == block \o body
             v == write_inline(w, block)
  <2>5. size \in Nat /\ size = y.size /\ Len(held) = size /\ Stored(size) = size + k
    <3>1. size = y.size /\ size \in Nat
      BY <1>3, <2>4
    <3>2. Len(held) \in Nat /\ Len(held) + y.remaining = size
      BY <1>11, <2>4
    <3> HIDE DEF size
    <3>3. Len(held) = size
      BY <2>2, <3>1, <3>2
    <3>4. QED BY <1>5, <3>1, <3>3
  <2>6. /\ body \in Seq(Byte) /\ Len(body) = Len(held) + Len(rest)
        /\ SubSeq(body, 1, size) = held /\ SubSeq(body, size + 1, size + k) = padding
        /\ From(body, size + k) = rest2
    <3>1. /\ body \in Seq(Byte) /\ Len(body) = Len(held) + Len(rest)
          /\ SubSeq(body, 1, Len(held)) = held /\ SubSeq(body, Len(held) + 1, Len(held) + k) = SubSeq(rest, 1, k)
          /\ From(body, Len(held) + k) = From(rest, k)
      BY <1>5, <1>6, <1>11, TakenApart
    <3> HIDE DEF body, size
    <3>2. QED BY <2>5, <3>1 DEF padding, rest2
  <2>7. Len(body) >= size + k /\ Aligned(rest2)
    <3>1. Len(held) \in Nat /\ Len(rest) \in Nat
      BY <1>6, <1>11
    <3> HIDE DEF body, size
    <3>2. Len(body) >= size + k
      BY <1>5, <1>6, <2>5, <2>6, <3>1
    <3>3. Len(body) >= Stored(size) => Aligned(From(body, Stored(size)))
      BY <2>4 DEF size, body
    <3>4. QED BY <2>5, <2>6, <3>2, <3>3
  <2> HIDE DEF body
  <2>8. /\ block \in Seq(Byte) /\ Len(block) = BLOCK /\ all \in Seq(Byte) /\ Len(all) = BLOCK + Len(body)
        /\ SubSeq(all, 1, BLOCK) = block /\ From(all, BLOCK) = body
    <3>1. block \in Seq(Byte) /\ Len(block) = BLOCK
      BY HeaderIs
    <3> HIDE DEF block
    <3>2. 0 \in Nat /\ 0 <= Len(body) /\ BLOCK \in Nat
      BY <2>6, Blocks
    <3>3. /\ block \o body \in Seq(Byte) /\ Len(block \o body) = Len(block) + Len(body)
          /\ SubSeq(block \o body, 1, Len(block)) = block
          /\ From(block \o body, Len(block) + 0) = From(body, 0)
      BY <2>6, <3>1, <3>2, TakenApart
    <3>4. From(body, 0) = body
      BY <2>6 DEF From
    <3>5. Len(block) + 0 = BLOCK
      BY <3>1, <3>2
    <3>6. QED BY <3>1, <3>3, <3>4, <3>5
  <2>9. SplitEntry(At(all, w)) =
          At(From(body, Stored(size)),
             write_inline(write_external(v, SubSeq(body, 1, size)), SubSeq(body, size + 1, Stored(size))))
    <3>1. Len(all) >= BLOCK + Stored(e.size) /\ SubSeq(all, 1, BLOCK) = HeaderBlock(e)
      <4>1. BLOCK \in Nat /\ Len(body) \in Nat
        BY <2>6, Blocks
      <4>2. Stored(e.size) = size + k
        BY <2>5
      <4> HIDE DEF all, size
      <4>3. Len(all) >= BLOCK + Stored(e.size)
        BY <1>5, <2>5, <2>7, <2>8, <4>1, <4>2
      <4>4. QED BY <2>8, <4>3
    <3>2. IsLarge(e) /\ all \in Seq(Byte) /\ From(all, BLOCK) = body
      BY <2>4, <2>8
    <3> HIDE DEF all, body
    <3>3. LET v0    == write_inline(w, HeaderBlock(e))
              body0 == From(all, BLOCK)
          IN  SplitEntry(At(all, w)) =
                At(From(body0, Stored(e.size)),
                   IF IsLarge(e)
                   THEN write_inline(write_external(v0, SubSeq(body0, 1, e.size)),
                                     SubSeq(body0, e.size + 1, Stored(e.size)))
                   ELSE write_inline(v0, SubSeq(body0, 1, Stored(e.size))))
      BY <3>1, <3>2, TurnOfEntry
    <3>4. QED BY <3>2, <3>3
  <2>10. write_inline(write_external(v, held), padding) = WriterOf(y2.entries, ids)
    <3>1. write_external(v, held) = write_reference(add_external_size(v, size), held)
      BY <2>5 DEF write_external
    <3>2. QED BY <1>12, <1>13, <2>4, <2>5, <3>1
  <2>11. SplitEntry(At(all, w)) = At(rest2, WriterOf(y2.entries, ids))
    <3> HIDE DEF size, v, all
    <3>1. QED BY <2>5, <2>6, <2>9, <2>10
  <2>12. Len(rest2) < Len(all) /\ Len(all) <= Len(bytes)
    <3>1. Len(rest2) = Len(rest) - k /\ Len(rest) \in Nat
      <4>1. k \in 0 .. Len(rest)
        BY <1>5, <1>6
      <4>2. Len(From(rest, k)) = Len(rest) - k
        <5>1. \A s \in Seq(Byte) : \A j \in 0 .. Len(s) : Len(From(s, j)) = Len(s) - j
          BY SubSeqFacts
        <5>2. QED BY <1>6, <4>1, <5>1
      <4>3. QED BY <1>6, <4>2 DEF rest2
    <3>2. BLOCK \in Nat /\ BLOCK > 0 /\ Len(held) \in Nat /\ Len(bytes) \in Nat
      BY <1>3, <1>11, Blocks
    <3>3. Len(body) + BLOCK <= Len(bytes)
      BY <2>4 DEF body
    <3>4. Len(body) = Len(held) + Len(rest) /\ Len(all) = BLOCK + Len(body) /\ k \in Nat
      BY <1>5, <2>6, <2>8
    <3> HIDE DEF all
    <3>5. Len(all) = BLOCK + (Len(held) + Len(rest)) /\ Len(all) <= Len(bytes)
      BY <3>1, <3>2, <3>3, <3>4
    <3>6. QED BY <3>1, <3>2, <3>4, <3>5
  <2>13. ComesTo(bytes, all, w)
    BY <2>4 DEF body
  <2> DEFINE w2 == WriterOf(y2.entries, ids)
  <2> HIDE DEF all, w2
  <2>14. SplitEntry([rest |-> all, writer |-> w, failed |-> FALSE]) = [rest |-> rest2, writer |-> w2, failed |-> FALSE]
    BY <2>11 DEF At, w2
  <2>15. ComesTo(bytes, rest2, w2)
    BY <1>3, <1>7, <2>8, <2>12, <2>13, <2>14, SplitTurns
  <2>16. QED BY <2>7, <2>15 DEF w2
<1>19. QED BY <1>14, <1>15, <1>17, <1>18 DEF LayerOk, InFile, WellStored, ts2

-------------------------------------------------------------------------------
(* The tasks have answered *)

\* finish stores what split writes, and what it refers to is there: all tasks have answered.
LEMMA FinishKeeps ==
  ASSUME NEW bytes, NEW y, NEW ts, NEW objs, LayerOk(bytes, y, ts, objs), y.pc = "finish",
         \A i \in DOMAIN ts : ts[i].pc = "ok",
         NEW y2, DOMAIN y2 = LayerFields, y2.pc = "stored", y2.pos = y.pos,
         y2.size = y.size, y2.remaining = y.remaining, y2.entries = y.entries,
         y2.file = Replay(y.entries, [i \in DOMAIN ts |-> ts[i].data])
  PROVE  LayerOk(bytes, y2, ts, objs)
<1> DEFINE n == Len(ts)
           ids == IdsOf(ts)
           w == WriterOf(y.entries, ids)
<1>1. LayerTyped(bytes, y, ts) /\ Going(bytes, y, ts, objs) /\ AllHeld(bytes, y, ts) /\ Between(bytes, y, ts)
  BY DEF LayerOk
<1>2. ts \in Seq(TaskSet) /\ bytes \in Seq(Byte)
  BY <1>1 DEF LayerTyped
<1>3. /\ n \in Nat /\ DOMAIN ts = 1 .. n /\ ids \in [1 .. n -> Seq(Byte)]
      /\ \A i \in 1 .. n : ts[i] \in TaskSet /\ ids[i] = HeldOf(ts[i])
  BY <1>2, IdsTyped
<1>4. \A i \in 1 .. n : ids[i] = ts[i].data /\ ts[i].data \in objs
  BY <1>1, <1>3, HeldTyped DEF Going
<1>5. ids = [i \in DOMAIN ts |-> ts[i].data]
  BY <1>3, <1>4
<1>6. Sound(ts)
  BY DEF Sound
<1> HIDE DEF ids
<1>7. Replay(y.entries, ids) = done(w)
  BY DEF Replay, WriterOf, ReplayEntry
<1>8. Answers(y.entries, ids, n)
  BY <1>1, EntriesAnswered DEF ids
<1>9. /\ w \in Writer
      /\ \A id \in ToSet(w.object_refs) : \E k \in DOMAIN y.entries : y.entries[k].task # 0 /\ id = ids[y.entries[k].task]
  <2> DEFINE es == y.entries
  <2>1. Answers(es, ids, n)
    BY <1>8
  <2> HIDE DEF es, n
  <2>2. /\ WriterOf(es, ids) \in Writer
        /\ \A id \in ToSet(WriterOf(es, ids).object_refs) : \E k \in DOMAIN es : es[k].task # 0 /\ id = ids[es[k].task]
    BY <2>1, WriterTyped
  <2>3. QED BY <2>2 DEF es
<1>10. split(bytes) = [failed |-> FALSE, file |-> done(w)]
  <2>1. ComesTo(bytes, <<>>, w)
    BY <1>1, <1>6 DEF Between, Going, ids
  <2> HIDE DEF w
  <2>2. QED BY <1>2, <2>1, SplitEnds
<1> HIDE DEF w
<1>11. ToSet(done(w).object_refs) \subseteq objs
  <2>1. done(w).object_refs = w.object_refs
    BY <1>9, Flushed DEF done
  <2>2. \A k \in DOMAIN y.entries : y.entries[k].task # 0 => ids[y.entries[k].task] \in objs
    <3>1. \A k \in DOMAIN y.entries : y.entries[k].task # 0 => y.entries[k].task \in 1 .. n
      BY <1>3, <1>8 DEF Answers
    <3>2. QED BY <1>4, <3>1
  <2>3. QED BY <1>9, <2>1, <2>2
<1>12. WellStored(bytes, y2, objs)
  <2>1. y2.file = done(w)
    BY <1>5, <1>7
  <2>2. QED BY <1>10, <1>11, <2>1 DEF WellStored
<1>13. LayerTyped(bytes, y2, ts)
  BY <1>1 DEF LayerTyped, PC
<1>14. Going(bytes, y2, ts, objs)
  BY <1>1 DEF Going
<1>15. AllHeld(bytes, y2, ts)
  BY <1>1 DEF AllHeld, Taken
<1>16. QED BY <1>12, <1>13, <1>14, <1>15 DEF LayerOk, Between, InFile

-------------------------------------------------------------------------------
(* The inductive invariant *)

Shape ==
  /\ archive \in Imports /\ DOMAIN layer = Layer /\ DOMAIN tasks = Layer
  /\ permits \in Nat

LayersOk == \A l \in Layer : LayerOk(Input(l), layer[l], tasks[l], objects)

\* Every permit that is not there is with a task that receives.
Counted == IsFiniteSet(Receivers) /\ WritersBounded

IInv == Shape /\ LayersOk /\ Counted

\* An archive, cut or not, is a beginning of entries.
LEMMA ArchiveIs ==
  ASSUME NEW a, IsArchive(a)
  PROVE  ArchiveBytes(a) \in Seq(Byte) /\ Aligned(ArchiveBytes(a))
<1> DEFINE entries == a.entries
           whole == BytesOf(entries)
           m == Len(whole) - a.cut
<1>1. entries \in Seq(Entry) /\ WholeBytes(a) = whole /\ a.cut \in 0 .. Len(whole)
  BY DEF IsArchive, WholeBytes, BytesOf
<1>2. whole \in Seq(Byte)
  BY <1>1, BytesTyped
<1>3. m \in 0 .. Len(whole) /\ ArchiveBytes(a) = SubSeq(whole, 1, m)
  BY <1>1, <1>2 DEF ArchiveBytes
<1> HIDE DEF m
<1>4. SubSeq(whole, 1, m) \in Seq(Byte)
  BY <1>2, <1>3, SubSeqFacts
<1>5. Aligned(SubSeq(whole, 1, m))
  BY <1>1, <1>3 DEF Aligned
<1>6. QED BY <1>3, <1>4, <1>5

\* What is imported are archives.
LEMMA ImportsAreArchives ==
  ASSUME NEW import \in Imports, NEW l \in Layer
  PROVE  IsArchive(import[l])
<1> DEFINE a == import[l]
<1>1. a.entries \in Seq([type : Fields(a, "type"), name : Fields(a, "name"), size : Nat]) /\ a.cut \in 0 .. Len(WholeBytes(a))
  BY ArchivesAreEntries
<1>2. Fields(a, "type") \subseteq Texts("type") /\ Fields(a, "name") \subseteq Texts("name")
  <2>1. \A field : Fields(a, field) \subseteq UNION {Fields(import[k], field) : k \in Layer}
    OBVIOUS
  <2>2. \A field : UNION {Fields(import[k], field) : k \in Layer}
                    \subseteq UNION {UNION {Fields(i[k], field) : k \in Layer} : i \in Imports}
    OBVIOUS
  <2> HIDE DEF a
  <2>3. \A field : Fields(a, field) \subseteq Texts(field)
    BY <2>1, <2>2 DEF Texts
  <2>4. QED BY <2>3
<1> HIDE DEF a
<1>3. [type : Fields(a, "type"), name : Fields(a, "name"), size : Nat] \subseteq Entry
  BY <1>2 DEF Entry
<1>4. a.entries \in Seq(Entry)
  <2> DEFINE S == [type : Fields(a, "type"), name : Fields(a, "name"), size : Nat]
             es == a.entries
  <2>1. es \in Seq(S) /\ S \subseteq Entry
    BY <1>1, <1>3
  <2> HIDE DEF S, es
  <2>2. Len(es) \in Nat /\ es \in [1 .. Len(es) -> S]
    BY <2>1
  <2>3. es \in [1 .. Len(es) -> Entry]
    BY <2>1, <2>2
  <2>4. es \in Seq(Entry)
    BY <2>2, <2>3
  <2>5. QED BY <2>4 DEF es
<1>5. QED BY <1>1, <1>4 DEF IsArchive, a

\* Nothing is written from no entries.
LEMMA NothingYet ==
  ASSUME NEW ids
  PROVE  WriterOf(<<>>, ids) = NewWriter /\ Built(<<>>, ids) = <<>>
<1>1. DOMAIN <<>> = 1 .. 0
  OBVIOUS
<1>2. PICK f : Replays(f, <<>>, ids, 0)
  BY <1>1, ReplaySteps
<1>3. WriterOf(<<>>, ids) = NewWriter
  BY <1>2 DEF Replays
<1>4. [k \in DOMAIN <<>> |-> Piece(<<>>[k], ids)] = <<>>
  OBVIOUS
<1>5. FlattenSeq(<<>>) = <<>>
  BY DEF FlattenSeq
<1>6. QED BY <1>3, <1>4, <1>5 DEF Built

\* An import begins well.
LEMMA BeginsOk ==
  ASSUME NEW bytes \in Seq(Byte), Aligned(bytes), NEW objs,
         NEW y, DOMAIN y = LayerFields, y.pc = "header", y.pos = 0, y.entries = <<>>, y.size = 0, y.remaining = 0
  PROVE  LayerOk(bytes, y, <<>>, objs)
<1>1. Len(bytes) \in Nat /\ <<>> \in Seq(TaskSet) /\ <<>> \in Seq(Part) /\ DOMAIN <<>> = {}
  OBVIOUS
<1>2. LayerTyped(bytes, y, <<>>)
  BY <1>1 DEF LayerTyped, PC
<1>3. Going(bytes, y, <<>>, objs)
  BY <1>1 DEF Going
<1>4. WriterOf(<<>>, IdsOf(<<>>)) = NewWriter /\ Built(<<>>, IdsOf(<<>>)) = <<>>
  BY NothingYet
<1>5. AllHeld(bytes, y, <<>>)
  <2>1. SubSeq(bytes, 1, 0) = <<>> /\ <<>> \o <<>> = <<>> /\ Taken(y, <<>>) = <<>>
    BY DEF Taken
  <2>2. QED BY <1>4, <2>1 DEF AllHeld
<1>6. Between(bytes, y, <<>>)
  <2>1. From(bytes, 0) = bytes
    BY DEF From
  <2>2. ComesTo(bytes, bytes, NewWriter)
    BY SplitBegins
  <2>3. QED BY <1>4, <2>1, <2>2 DEF Between
<1>7. QED BY <1>2, <1>3, <1>5, <1>6 DEF LayerOk, InFile, WellStored

\* The invariant holds at the start.
LEMMA Initial == Init => IInv
<1>1. SUFFICES ASSUME Init PROVE IInv
  OBVIOUS
<1>2. Shape
  BY <1>1, Blocks DEF Init, Shape
<1>3. LayersOk
  <2>1. SUFFICES ASSUME NEW l \in Layer PROVE LayerOk(Input(l), layer[l], tasks[l], objects)
    BY DEF LayersOk
  <2>2. Input(l) \in Seq(Byte) /\ Aligned(Input(l))
    BY <1>1, ImportsAreArchives, ArchiveIs DEF Init, Input
  <2> DEFINE y == layer[l]
  <2>3. /\ DOMAIN y = LayerFields /\ y.pc = "header" /\ y.pos = 0 /\ y.entries = <<>> /\ y.size = 0
        /\ y.remaining = 0 /\ tasks[l] = <<>>
    BY <1>1 DEF Init, LayerFields
  <2> HIDE DEF y
  <2>4. LayerOk(Input(l), y, <<>>, objects)
    BY <2>2, <2>3, BeginsOk
  <2>5. QED BY <2>3, <2>4 DEF y
<1>4. Counted
  <2>1. Receivers = {}
    BY <1>1 DEF Init, Receivers
  <2>2. IsFiniteSet(Receivers) /\ Cardinality(Receivers) = 0
    BY <2>1, FS_EmptySet
  <2>3. QED BY <1>1, <2>2, Blocks DEF Init, Counted, WritersBounded
<1>5. QED BY <1>2, <1>3, <1>4 DEF IInv

-------------------------------------------------------------------------------
(* One step of one import *)

\* The step is one of l; the others are where they were.
StepOf(l) ==
  /\ archive' = archive /\ DOMAIN layer' = Layer /\ DOMAIN tasks' = Layer
  /\ objects \subseteq objects' /\ permits' \in Nat
  /\ \A k \in Layer : k # l => layer'[k] = layer[k] /\ tasks'[k] = tasks[k]

SamePcs(ts, ts2) == DOMAIN ts2 = DOMAIN ts /\ \A i \in DOMAIN ts : ts2[i].pc = ts[i].pc

\* A step of one import leaves the others as they are.
LEMMA LayersStep ==
  ASSUME IInv, NEW l \in Layer, StepOf(l), LayerOk(Input(l), layer'[l], tasks'[l], objects')
  PROVE  LayersOk'
<1>1. \A k \in Layer : Input(k)' = Input(k)
  BY DEF StepOf, Input
<1>2. SUFFICES ASSUME NEW k \in Layer PROVE LayerOk(Input(k), layer'[k], tasks'[k], objects')
  BY <1>1 DEF LayersOk
<1>3. CASE k = l
  BY <1>3
<1>4. CASE k # l
  <2>1. layer'[k] = layer[k] /\ tasks'[k] = tasks[k] /\ objects \subseteq objects'
    BY <1>4 DEF StepOf
  <2> DEFINE y == layer[k]
             ts == tasks[k]
             bytes == Input(k)
  <2>2. LayerOk(bytes, y, ts, objects)
    BY DEF IInv, LayersOk
  <2> HIDE DEF y, ts, bytes
  <2>3. TasksGoOn(ts, ts, objects, objects')
    <3>1. ts \in Seq(TaskSet) /\ DOMAIN ts = 1 .. Len(ts)
      BY <2>2 DEF LayerOk, LayerTyped
    <3>2. \A i \in 1 .. Len(ts) : ts[i].pc = "ok" => ts[i].closed /\ ts[i].queue = <<>> /\ ts[i].data \in objects'
      BY <2>1, <2>2, <3>1 DEF LayerOk, Going
    <3>3. QED BY <2>1, <3>1, <3>2 DEF TasksGoOn
  <2>4. LayerOk(bytes, y, ts, objects')
    BY <2>2, <2>3, TasksMoved
  <2>5. QED BY <2>1, <2>4 DEF y, ts, bytes
<1>5. QED BY <1>3, <1>4

\* A step that neither ends nor begins a task leaves the permits as they are.
LEMMA SameReceivers ==
  ASSUME IInv, NEW l \in Layer, StepOf(l), permits' = permits, SamePcs(tasks[l], tasks'[l])
  PROVE  Counted'
<1>1. \A k \in Layer : DOMAIN tasks'[k] = DOMAIN tasks[k] /\ \A i \in DOMAIN tasks[k] : tasks'[k][i].pc = tasks[k][i].pc
  BY DEF StepOf, SamePcs
<1>2. Receivers' = Receivers
  BY <1>1 DEF Receivers
<1>3. QED BY <1>2 DEF IInv, Counted, WritersBounded

\* All that a step has to show of the import that takes it.
LEMMA StepKeeps ==
  ASSUME IInv, NEW l \in Layer, StepOf(l), LayerOk(Input(l), layer'[l], tasks'[l], objects'),
         permits' = permits, SamePcs(tasks[l], tasks'[l])
  PROVE  IInv'
<1>1. Shape'
  BY DEF IInv, Shape, StepOf
<1>2. QED BY <1>1, LayersStep, SameReceivers DEF IInv

\* What the invariant says of one import.
LEMMA LayerFacts ==
  ASSUME IInv, NEW l \in Layer
  PROVE  /\ LayerOk(Input(l), layer[l], tasks[l], objects)
         /\ DOMAIN layer[l] = LayerFields /\ tasks[l] \in Seq(TaskSet) /\ permits \in Nat
         /\ DOMAIN layer = Layer /\ DOMAIN tasks = Layer
         /\ layer[l].pc # "send" => layer[l].remaining = 0
BY DEF IInv, Shape, LayersOk, LayerOk, LayerTyped, Going

\* Giving up keeps the invariant.
LEMMA BailStep ==
  ASSUME IInv, NEW l \in Layer, Bail(l)
  PROVE  IInv'
<1> DEFINE y == layer[l]
           ts == tasks[l]
           y2 == layer'[l]
<1>1. /\ LayerOk(Input(l), y, ts, objects) /\ DOMAIN y = LayerFields /\ ts \in Seq(TaskSet) /\ permits \in Nat
      /\ DOMAIN layer = Layer /\ DOMAIN tasks = Layer
  BY LayerFacts
<1>2. /\ DOMAIN y2 = LayerFields /\ y2.pc = "error" /\ y2.size = 0 /\ y2.remaining = 0
      /\ y2.pos = y.pos /\ y2.entries = y.entries /\ DOMAIN layer' = Layer
      /\ \A k \in Layer : k # l => layer'[k] = layer[k]
  BY <1>1 DEF Bail, LayerFields
<1>3. /\ tasks'[l] = Dropped(ts) /\ DOMAIN tasks' = Layer
      /\ \A k \in Layer : k # l => tasks'[k] = tasks[k]
  <2>1. CASE tasks[l] = <<>>
    BY <1>1, <2>1 DEF Bail, DropSender, Dropped
  <2>2. CASE tasks[l] # <<>>
    <3>1. tasks' = [tasks EXCEPT ![l] = [tasks[l] EXCEPT ![Len(tasks[l])].closed = TRUE]]
      BY <1>1, <2>2 DEF Bail, DropSender, Newest
    <3>2. QED BY <1>1, <2>2, <3>1 DEF Dropped
  <2>3. QED BY <2>1, <2>2
<1>4. StepOf(l)
  BY <1>1, <1>2, <1>3 DEF StepOf, Bail
<1>5. SamePcs(ts, Dropped(ts))
  BY <1>1, DroppedIs DEF SamePcs
<1>6. LayerOk(Input(l), y2, Dropped(ts), objects)
  <2> HIDE DEF y, ts, y2
  <2>1. QED BY <1>1, <1>2, BailKeeps
<1>7. QED BY <1>3, <1>4, <1>5, <1>6, StepKeeps DEF Bail

\* A step that does not touch the tasks.
LEMMA LayerStep ==
  ASSUME IInv, NEW l \in Layer, UNCHANGED <<archive, tasks, permits, objects>>,
         DOMAIN layer' = Layer, \A k \in Layer : k # l => layer'[k] = layer[k],
         LayerOk(Input(l), layer'[l], tasks[l], objects)
  PROVE  IInv'
<1>1. StepOf(l)
  BY LayerFacts DEF StepOf
<1>2. SamePcs(tasks[l], tasks'[l])
  BY DEF SamePcs
<1>3. QED BY <1>1, <1>2, StepKeeps

\* So does every step that reads a block, ...
LEMMA ReadSteps ==
  ASSUME IInv, NEW l \in Layer, Read(l)
  PROVE  IInv'
<1> DEFINE y == layer[l]
           ts == tasks[l]
           y2 == layer'[l]
           bytes == Input(l)
<1>1. /\ LayerOk(bytes, y, ts, objects) /\ DOMAIN y = LayerFields /\ ts \in Seq(TaskSet) /\ permits \in Nat
      /\ DOMAIN layer = Layer /\ DOMAIN tasks = Layer
  BY LayerFacts
<1>2. Rest(l) = From(bytes, y.pos)
  BY DEF Rest
<1>3. CASE ReadEnd(l)
  <2>1. /\ DOMAIN y2 = LayerFields /\ y2.pc = "finish" /\ y2.size = y.size /\ y2.remaining = y.remaining
        /\ y2.pos = y.pos /\ y2.entries = y.entries /\ DOMAIN layer' = Layer
        /\ \A k \in Layer : k # l => layer'[k] = layer[k]
    BY <1>1, <1>3 DEF ReadEnd, LayerFields
  <2>2. y.pc = "header" /\ From(bytes, y.pos) = <<>>
    BY <1>2, <1>3 DEF ReadEnd
  <2>3. LayerOk(bytes, y2, ts, objects)
    <3> HIDE DEF y, ts, y2, bytes
    <3>1. QED BY <1>1, <2>1, <2>2, EndKeeps
  <2>4. QED BY <1>3, <2>1, <2>3, LayerStep DEF ReadEnd
<1>4. CASE ReadPartialHeader(l) \/ ReadGarbage(l) \/ StreamFails(l)
  BY <1>4, BailStep DEF ReadPartialHeader, ReadGarbage, StreamFails
<1>5. CASE ReadZeros(l)
  <2>1. /\ DOMAIN y2 = LayerFields /\ y2.pc = y.pc /\ y2.size = y.size /\ y2.remaining = y.remaining
        /\ y2.pos = y.pos + BLOCK /\ y2.entries = push_inline(y.entries, Fill(BLOCK)) /\ DOMAIN layer' = Layer
        /\ \A k \in Layer : k # l => layer'[k] = layer[k]
    BY <1>1, <1>5 DEF ReadZeros, LayerFields
  <2>2. y.pc = "header" /\ HeaderFacts(bytes, y, ts, objects) /\ SubSeq(From(bytes, y.pos), 1, BLOCK) = Fill(BLOCK)
    BY <1>1, <1>2, <1>5 DEF ReadZeros, HasBlock, Block, HeaderFacts
  <2>3. LayerOk(bytes, y2, ts, objects)
    <3> HIDE DEF y, ts, y2, bytes
    <3>1. QED BY <2>1, <2>2, ZerosKeep
  <2>4. QED BY <1>5, <2>1, <2>3, LayerStep DEF ReadZeros
<1>6. CASE ReadInline(l)
  <2>1. /\ y.pc = "header" /\ HeaderFacts(bytes, y, ts, objects) /\ Block(l) = SubSeq(From(bytes, y.pos), 1, BLOCK)
        /\ SubSeq(From(bytes, y.pos), 1, BLOCK) # Fill(BLOCK)
    BY <1>1, <1>2, <1>6 DEF ReadInline, HasHeader, HasBlock, Block, HeaderFacts
  <2>2. PICK h \in Headers(Block(l)) :
          LET n == BLOCK + Stored(h.size)
          IN /\ ~IsLarge(h)
             /\ IF Len(Rest(l)) < n THEN Bail(l)
                ELSE /\ layer' = [layer EXCEPT
                           ![l].pos = @ + n,
                           ![l].entries = push_inline(push_inline(@, Block(l)), SubSeq(Rest(l), BLOCK + 1, n))]
                     /\ UNCHANGED <<archive, tasks, permits, objects>>
    BY <1>6 DEF ReadInline
  <2> DEFINE n == BLOCK + Stored(h.size)
  <2>3. CASE Len(Rest(l)) < n
    <3>1. Bail(l)
      BY <2>2, <2>3
    <3>2. QED BY <3>1, BailStep
  <2>4. CASE ~(Len(Rest(l)) < n)
    <3>1. /\ layer' = [layer EXCEPT
                         ![l].pos = @ + n,
                         ![l].entries = push_inline(push_inline(@, Block(l)), SubSeq(Rest(l), BLOCK + 1, n))]
          /\ UNCHANGED <<archive, tasks, permits, objects>>
      BY <2>2, <2>4
    <3>2. Len(From(bytes, y.pos)) >= n
      <4>1. From(bytes, y.pos) \in Seq(Byte)
        BY <2>1, HeaderIsRead
      <4>2. Len(From(bytes, y.pos)) \in Nat
        BY <4>1
      <4>3. n \in Nat
        <5>1. Block(l) \in Seq(Byte) /\ Len(Block(l)) = BLOCK
          <6>1. BLOCK \in Nat /\ BLOCK <= Len(From(bytes, y.pos))
            BY <2>1, <4>2, Blocks DEF HeaderFacts
          <6>2. 0 \in Nat /\ Len(From(bytes, y.pos)) >= BLOCK + 0
            BY <4>2, <6>1
          <6>3. QED BY <2>1, <4>1, <6>2, FirstBlock
        <5>2. Stored(h.size) \in Nat
          BY <5>1, HeadersTyped
        <5>3. QED BY <5>2, Blocks
      <4> HIDE DEF n
      <4>4. QED BY <1>2, <2>4, <4>2, <4>3
    <3>3. /\ DOMAIN y2 = LayerFields /\ y2.pc = y.pc /\ y2.size = y.size /\ y2.remaining = y.remaining
          /\ y2.pos = y.pos + n
          /\ y2.entries = push_inline(push_inline(y.entries, Block(l)), SubSeq(Rest(l), BLOCK + 1, n))
          /\ DOMAIN layer' = Layer /\ \A k \in Layer : k # l => layer'[k] = layer[k]
      <4> HIDE DEF n
      <4>1. QED BY <1>1, <3>1 DEF LayerFields
    <3>4. LayerOk(bytes, y2, ts, objects)
      <4> HIDE DEF y, ts, y2, bytes
      <4>1. h \in Headers(SubSeq(From(bytes, y.pos), 1, BLOCK)) /\ ~IsLarge(h)
        BY <2>1, <2>2
      <4>2. QED BY <1>2, <2>1, <3>2, <3>3, <4>1, InlineKeeps
    <3>5. QED BY <3>1, <3>3, <3>4, LayerStep
  <2>5. QED BY <2>3, <2>4
<1>7. CASE ReadLarge(l)
  <2>1. /\ y.pc = "header" /\ HeaderFacts(bytes, y, ts, objects) /\ Block(l) = SubSeq(From(bytes, y.pos), 1, BLOCK)
        /\ SubSeq(From(bytes, y.pos), 1, BLOCK) # Fill(BLOCK)
    BY <1>1, <1>2, <1>7 DEF ReadLarge, HasHeader, HasBlock, Block, HeaderFacts
  <2>2. PICK h \in Headers(Block(l)) :
          /\ IsLarge(h)
          /\ layer' = [layer EXCEPT ![l].pc = "permit", ![l].pos = @ + BLOCK, ![l].size = h.size,
                                    ![l].entries = push_inline(@, Block(l))]
    BY <1>7 DEF ReadLarge
  <2>3. /\ DOMAIN y2 = LayerFields /\ y2.pc = "permit" /\ y2.size = h.size /\ y2.remaining = y.remaining
        /\ y2.pos = y.pos + BLOCK /\ y2.entries = push_inline(y.entries, Block(l))
        /\ DOMAIN layer' = Layer /\ \A k \in Layer : k # l => layer'[k] = layer[k]
    BY <1>1, <2>2 DEF LayerFields
  <2>4. LayerOk(bytes, y2, ts, objects)
    <3> HIDE DEF y, ts, y2, bytes
    <3>1. QED BY <2>1, <2>2, <2>3, LargeKeeps
  <2>5. QED BY <1>7, <2>3, <2>4, LayerStep DEF ReadLarge
<1>8. QED BY <1>3, <1>4, <1>5, <1>6, <1>7 DEF Read

\* Which tasks receive.
ReceiverIs(k, i) == k \in Layer /\ i \in DOMAIN tasks[k] /\ tasks[k][i].pc = "receive"

\* Receivers, one by one.
LEMMA ReceiversAre == \A t : t \in Receivers <=> \E k, i : t = <<k, i>> /\ ReceiverIs(k, i)
BY DEF Receivers, ReceiverIs

\* ... a permit taken, for one receiver more, ...
LEMMA AcquireStep ==
  ASSUME IInv, NEW l \in Layer, Acquire(l)
  PROVE  IInv'
<1> DEFINE y == layer[l]
           ts == tasks[l]
           y2 == layer'[l]
           bytes == Input(l)
           n == Len(ts)
<1>1. /\ LayerOk(bytes, y, ts, objects) /\ DOMAIN y = LayerFields /\ ts \in Seq(TaskSet) /\ permits \in Nat
      /\ DOMAIN layer = Layer /\ DOMAIN tasks = Layer
  BY LayerFacts
<1>2. /\ DOMAIN y2 = LayerFields /\ y2.pc = "send" /\ y2.size = y.size /\ y2.remaining = y.size
      /\ y2.pos = y.pos /\ y2.entries = y.entries /\ DOMAIN layer' = Layer
      /\ \A k \in Layer : k # l => layer'[k] = layer[k]
  BY <1>1 DEF Acquire, LayerFields
<1>3. /\ tasks'[l] = Append(ts, NewTask) /\ DOMAIN tasks' = Layer
      /\ \A k \in Layer : k # l => tasks'[k] = tasks[k]
  BY <1>1 DEF Acquire
<1>4. y.pc = "permit" /\ permits' = permits - 1 /\ permits' \in Nat /\ archive' = archive /\ objects' = objects
  BY <1>1 DEF Acquire
<1>5. StepOf(l)
  BY <1>2, <1>3, <1>4 DEF StepOf
<1>6. LayersOk'
  <2>1. LayerOk(bytes, y2, Append(ts, NewTask), objects)
    <3> HIDE DEF y, ts, y2, bytes
    <3>1. QED BY <1>1, <1>2, <1>4, AcquireKeeps
  <2>2. QED BY <1>3, <1>4, <1>5, <2>1, LayersStep
<1>7. PICK m : m = n + 1
  OBVIOUS
<1>8. /\ DOMAIN ts = 1 .. n /\ DOMAIN tasks'[l] = 1 .. m /\ tasks'[l][m].pc = "receive"
      /\ \A i \in 1 .. n : tasks'[l][i] = ts[i] /\ i \in 1 .. m
      /\ \A i \in 1 .. m : i \in 1 .. n \/ i = m
      /\ m \in 1 .. m /\ m \notin 1 .. n
  <2>1. NewTask \in TaskSet /\ NewTask.pc = "receive"
    BY NewTaskIs DEF NewTask
  <2>2. n \in Nat /\ DOMAIN ts = 1 .. n /\ DOMAIN tasks'[l] = 1 .. n + 1 /\ tasks'[l][n + 1].pc = "receive"
        /\ \A i \in 1 .. n : tasks'[l][i] = ts[i]
    <3> HIDE DEF y2
    <3>1. QED BY <1>1, <1>3, <2>1
  <2> HIDE DEF n
  <2>3. QED BY <1>7, <2>2
<1>9. ASSUME NEW k, NEW i, ReceiverIs(k, i) PROVE ReceiverIs(k, i)'
  <2>1. CASE k = l
    BY <1>3, <1>8, <1>9, <2>1 DEF ReceiverIs
  <2>2. CASE k # l
    BY <1>3, <1>9, <2>2 DEF ReceiverIs
  <2>3. QED BY <2>1, <2>2
<1>10. ASSUME NEW k, NEW i, ReceiverIs(k, i)' PROVE ReceiverIs(k, i) \/ (k = l /\ i = m)
  <2>1. CASE k = l
    BY <1>3, <1>8, <1>10, <2>1 DEF ReceiverIs
  <2>2. CASE k # l
    BY <1>3, <1>10, <2>2 DEF ReceiverIs
  <2>3. QED BY <2>1, <2>2
<1>11. ReceiverIs(l, m)' /\ ~ReceiverIs(l, m)
  BY <1>8 DEF ReceiverIs
<1>12. \A t : t \in Receivers' <=> \E k, i : t = <<k, i>> /\ ReceiverIs(k, i)'
  BY DEF Receivers, ReceiverIs
<1>13. Receivers' = Receivers \cup {<<l, m>>} /\ <<l, m>> \notin Receivers
  <2>1. ASSUME NEW t \in Receivers' PROVE t \in Receivers \/ t = <<l, m>>
    <3>1. PICK k, i : t = <<k, i>> /\ ReceiverIs(k, i)'
      BY <1>12, <2>1
    <3>2. QED BY <1>10, <3>1, ReceiversAre
  <2>2. ASSUME NEW t \in Receivers PROVE t \in Receivers'
    <3>1. PICK k, i : t = <<k, i>> /\ ReceiverIs(k, i)
      BY <2>2, ReceiversAre
    <3>2. QED BY <1>9, <1>12, <3>1
  <2>3. <<l, m>> \in Receivers'
    BY <1>11, <1>12
  <2>4. <<l, m>> \notin Receivers
    BY <1>11, ReceiversAre
  <2>5. QED BY <2>1, <2>2, <2>3, <2>4
<1>14. Counted'
  <2>1. IsFiniteSet(Receivers) /\ Cardinality(Receivers) + permits = Permits
    BY DEF IInv, Counted, WritersBounded
  <2>2. IsFiniteSet(Receivers') /\ Cardinality(Receivers') = Cardinality(Receivers) + 1
    BY <1>13, <2>1, FS_AddElement
  <2>3. Cardinality(Receivers) \in Nat
    BY <2>1, FS_CardinalityType
  <2>4. Cardinality(Receivers') + permits' = Permits
    BY <1>1, <1>4, <2>1, <2>2, <2>3
  <2>5. QED BY <2>2, <2>4 DEF Counted, WritersBounded
<1>15. Shape'
  BY <1>5 DEF IInv, Shape, StepOf
<1>16. QED BY <1>6, <1>15, <1>14 DEF IInv

\* ... a chunk sent, ...
LEMMA SendStep ==
  ASSUME IInv, NEW l \in Layer, Send(l)
  PROVE  IInv'
<1> DEFINE y == layer[l]
           ts == tasks[l]
           y2 == layer'[l]
           bytes == Input(l)
           n == Len(ts)
<1>1. /\ LayerOk(bytes, y, ts, objects) /\ DOMAIN y = LayerFields /\ ts \in Seq(TaskSet) /\ permits \in Nat
      /\ DOMAIN layer = Layer /\ DOMAIN tasks = Layer
  BY LayerFacts
<1>2. Rest(l) = From(bytes, y.pos) /\ Newest(l) = n /\ y.pc = "send" /\ ts[n].pc = "receive"
      /\ y.remaining > 0
  BY DEF Rest, Newest, Send
<1>3. Len(Rest(l)) \in Nat /\ y.remaining \in Nat
  <2>1. bytes \in Seq(Byte) /\ y.pos \in 0 .. Len(bytes) /\ y.remaining \in 0 .. y.size /\ y.size \in Nat
    BY <1>1 DEF LayerOk, LayerTyped
  <2>2. From(bytes, y.pos) \in Seq(Byte)
    BY <2>1, SubSeqFacts
  <2>3. QED BY <1>2, <2>1, <2>2
<1>4. PICK m \in 1 .. Len(Rest(l)) :
        LET size == IF m < layer[l].remaining THEN m ELSE layer[l].remaining
        IN  /\ tasks' = [tasks EXCEPT ![l][Newest(l)].queue = Append(@, SubSeq(Rest(l), 1, size))]
            /\ layer' = [layer EXCEPT ![l].pos = @ + size, ![l].remaining = @ - size]
  BY DEF Send
<1> DEFINE k == IF m < y.remaining THEN m ELSE y.remaining
           chunk == SubSeq(Rest(l), 1, k)
<1>5. k \in Nat /\ k <= y.remaining /\ k <= Len(From(bytes, y.pos))
  <2>1. CASE m < y.remaining
    BY <1>2, <1>3, <2>1
  <2>2. CASE ~(m < y.remaining)
    BY <1>2, <1>3, <2>2
  <2>3. QED BY <2>1, <2>2
<1>6. /\ tasks' = [tasks EXCEPT ![l][Newest(l)].queue = Append(@, chunk)]
      /\ layer' = [layer EXCEPT ![l].pos = @ + k, ![l].remaining = @ - k]
  BY <1>4
<1> HIDE DEF k, chunk
<1>7. /\ DOMAIN y2 = LayerFields /\ y2.pc = "send" /\ y2.size = y.size /\ y2.remaining = y.remaining - k
      /\ y2.pos = y.pos + k /\ y2.entries = y.entries /\ DOMAIN layer' = Layer
      /\ \A j \in Layer : j # l => layer'[j] = layer[j]
  BY <1>1, <1>2, <1>6 DEF LayerFields
<1>8. /\ tasks'[l] = SentTo(ts, chunk) /\ DOMAIN tasks' = Layer
      /\ \A j \in Layer : j # l => tasks'[j] = tasks[j]
  BY <1>1, <1>2, <1>6 DEF SentTo
<1>9. archive' = archive /\ objects' = objects /\ permits' = permits
  BY DEF Send
<1>10. StepOf(l)
  BY <1>1, <1>7, <1>8, <1>9 DEF StepOf
<1>11. LayerOk(bytes, y2, SentTo(ts, chunk), objects)
  <2> HIDE DEF y, ts, y2, bytes
  <2>1. QED BY <1>1, <1>2, <1>5, <1>7, SendKeeps DEF chunk, n
<1>12. SamePcs(ts, SentTo(ts, chunk))
  <2>1. Len(ts) > 0 /\ chunk \in Seq(Byte)
    <3>1. bytes \in Seq(Byte) /\ y.pos \in 0 .. Len(bytes) /\ Len(ts) > 0
      BY <1>1, <1>2 DEF LayerOk, LayerTyped, Going
    <3>2. Rest(l) \in Seq(Byte)
      BY <1>2, <3>1, SubSeqFacts
    <3>3. k \in 0 .. Len(Rest(l))
      BY <1>2, <1>3, <1>5
    <3>4. QED BY <3>1, <3>2, <3>3, SubSeqFacts DEF chunk
  <2> DEFINE ts2 == SentTo(ts, chunk)
  <2>2. /\ ts2 \in Seq(TaskSet) /\ Len(ts2) = n /\ ts2[n].pc = ts[n].pc
        /\ \A i \in 1 .. n : i # n => ts2[i] = ts[i]
    BY <1>1, <2>1, SentIs
  <2>3. DOMAIN ts = 1 .. n /\ DOMAIN ts2 = 1 .. n
    BY <1>1, <2>2
  <2> HIDE DEF ts2
  <2>4. \A i \in 1 .. n : ts2[i].pc = ts[i].pc
    BY <2>2
  <2>5. QED BY <2>3, <2>4 DEF SamePcs, ts2
<1>13. QED BY <1>8, <1>9, <1>10, <1>11, <1>12, StepKeeps

\* ... the end of a file, ...
LEMMA SendEndsStep ==
  ASSUME IInv, NEW l \in Layer, SendEnds(l)
  PROVE  IInv'
<1> DEFINE y == layer[l]
           ts == tasks[l]
           y2 == layer'[l]
           bytes == Input(l)
           n == Len(ts)
           k == Stored(y.size) - y.size
<1>1. /\ LayerOk(bytes, y, ts, objects) /\ DOMAIN y = LayerFields /\ ts \in Seq(TaskSet) /\ permits \in Nat
      /\ DOMAIN layer = Layer /\ DOMAIN tasks = Layer
  BY LayerFacts
<1>2. Rest(l) = From(bytes, y.pos) /\ Newest(l) = n /\ y.pc = "send"
      /\ (y.remaining = 0 \/ ts[n].pc # "receive")
  BY DEF Rest, Newest, SendEnds
<1>3. CASE Len(Rest(l)) < k
  <2>1. Bail(l)
    BY <1>3 DEF SendEnds
  <2>2. QED BY <2>1, BailStep
<1>4. CASE ~(Len(Rest(l)) < k)
  <2>1. /\ layer' = [layer EXCEPT
              ![l].pc = "header", ![l].size = 0, ![l].remaining = 0,
              ![l].pos = @ + k,
              ![l].entries = push_inline(push_external(@, Newest(l), layer[l].size), SubSeq(Rest(l), 1, k))]
        /\ DropSender(l) /\ UNCHANGED <<archive, permits, objects>>
    BY <1>4 DEF SendEnds
  <2>2. k <= Len(From(bytes, y.pos))
    <3>1. bytes \in Seq(Byte) /\ y.pos \in 0 .. Len(bytes) /\ y.size \in Nat
      BY <1>1 DEF LayerOk, LayerTyped
    <3>2. From(bytes, y.pos) \in Seq(Byte)
      BY <3>1, SubSeqFacts
    <3>3. k \in Int /\ Len(Rest(l)) \in Nat
      <4>1. Stored(y.size) \in Nat
        BY <3>1, StoredSize
      <4>2. Stored(y.size) - y.size \in Int
        BY <3>1, <4>1
      <4>3. QED BY <1>2, <3>2, <4>2
    <3> HIDE DEF k
    <3>4. QED BY <1>2, <1>4, <3>3
  <2> HIDE DEF k
  <2>3. /\ DOMAIN y2 = LayerFields /\ y2.pc = "header" /\ y2.size = 0 /\ y2.remaining = 0
        /\ y2.pos = y.pos + k
        /\ y2.entries = push_inline(push_external(y.entries, n, y.size), SubSeq(Rest(l), 1, k))
        /\ DOMAIN layer' = Layer /\ \A j \in Layer : j # l => layer'[j] = layer[j]
    BY <1>1, <1>2, <2>1 DEF LayerFields
  <2>4. /\ tasks'[l] = Dropped(ts) /\ DOMAIN tasks' = Layer
        /\ \A j \in Layer : j # l => tasks'[j] = tasks[j]
    <3>1. CASE tasks[l] = <<>>
      BY <1>1, <2>1, <3>1 DEF DropSender, Dropped
    <3>2. CASE tasks[l] # <<>>
      <4>1. tasks' = [tasks EXCEPT ![l] = [tasks[l] EXCEPT ![Len(tasks[l])].closed = TRUE]]
        BY <1>1, <2>1, <3>2 DEF DropSender, Newest
      <4>2. QED BY <1>1, <3>2, <4>1 DEF Dropped
    <3>3. QED BY <3>1, <3>2
  <2>5. StepOf(l)
    BY <1>1, <2>1, <2>3, <2>4 DEF StepOf
  <2>6. SamePcs(ts, Dropped(ts))
    BY <1>1, DroppedIs DEF SamePcs
  <2>7. LayerOk(bytes, y2, Dropped(ts), objects)
    <3>1. k = Stored(y.size) - y.size
      BY DEF k
    <3> HIDE DEF y, ts, y2, bytes
    <3>2. QED BY <1>1, <1>2, <2>2, <2>3, <3>1, SendEndsKeeps DEF n
  <2>8. QED BY <2>1, <2>4, <2>5, <2>6, <2>7, StepKeeps
<1>5. QED BY <1>3, <1>4

\* All steps of a file that is being sent.
LEMMA StreamSteps ==
  ASSUME IInv, NEW l \in Layer, Stream(l)
  PROVE  IInv'
BY AcquireStep, SendStep, SendEndsStep, BailStep DEF Stream, UnexpectedEof

\* Every step of finish keeps the invariant.
LEMMA AwaitSteps ==
  ASSUME IInv, NEW l \in Layer, Await(l)
  PROVE  IInv'
<1>1. CASE AwaitFailed(l) \/ StoreFailed(l)
  BY <1>1, BailStep DEF AwaitFailed, StoreFailed
<1>2. CASE finish(l)
  <2> DEFINE y == layer[l]
             ts == tasks[l]
             y2 == layer'[l]
             bytes == Input(l)
  <2>1. /\ LayerOk(bytes, y, ts, objects) /\ DOMAIN y = LayerFields /\ DOMAIN layer = Layer
    BY LayerFacts
  <2>2. /\ DOMAIN y2 = LayerFields /\ y2.pc = "stored" /\ y2.size = y.size /\ y2.remaining = y.remaining
        /\ y2.pos = y.pos /\ y2.entries = y.entries /\ DOMAIN layer' = Layer
        /\ y2.file = Replay(y.entries, [i \in DOMAIN ts |-> ts[i].data])
        /\ \A k \in Layer : k # l => layer'[k] = layer[k]
    BY <1>2, <2>1 DEF finish, LayerFields
  <2>3. y.pc = "finish" /\ \A i \in DOMAIN ts : ts[i].pc = "ok"
    BY <1>2 DEF finish
  <2>4. LayerOk(bytes, y2, ts, objects)
    <3> HIDE DEF y, ts, y2, bytes
    <3>1. QED BY <2>1, <2>2, <2>3, FinishKeeps
  <2>5. QED BY <1>2, <2>2, <2>4, LayerStep DEF finish
<1>3. QED BY <1>1, <1>2 DEF Await

-------------------------------------------------------------------------------
(* One step of one task *)

Changed(ts, i, u) == [ts EXCEPT ![i] = u]

\* One task is changed.
LEMMA TaskChanged ==
  ASSUME NEW ts \in Seq(TaskSet), NEW i \in DOMAIN ts, NEW u \in TaskSet
  PROVE  /\ Changed(ts, i, u) \in Seq(TaskSet) /\ Len(Changed(ts, i, u)) = Len(ts)
         /\ DOMAIN Changed(ts, i, u) = DOMAIN ts
         /\ Changed(ts, i, u)[i] = u
         /\ \A j \in DOMAIN ts : j # i => Changed(ts, i, u)[j] = ts[j]
<1> DEFINE n == Len(ts)
           ts2 == Changed(ts, i, u)
<1>1. n \in Nat /\ DOMAIN ts = 1 .. n /\ ts \in [1 .. n -> TaskSet]
  OBVIOUS
<1>2. ts2 = [ts EXCEPT ![i] = u]
  BY DEF Changed
<1> HIDE DEF ts2, n
<1>3. ts2 \in [1 .. n -> TaskSet] /\ ts2[i] = u /\ \A j \in 1 .. n : j # i => ts2[j] = ts[j]
  BY <1>1, <1>2
<1>4. ts2 \in Seq(TaskSet) /\ Len(ts2) = n /\ DOMAIN ts2 = 1 .. n
  BY <1>1, <1>3
<1>5. QED BY <1>1, <1>3, <1>4 DEF ts2, n

\* A task that goes on with what it was sent, is done with it, or has failed.
LEMMA TaskGoesOn ==
  ASSUME NEW bytes, NEW y, NEW ts, NEW objs, LayerOk(bytes, y, ts, objs),
         NEW i \in DOMAIN ts, NEW u \in TaskSet, NEW objs2, objs \subseteq objs2,
         ts[i].pc # "failed", u.closed = ts[i].closed,
         u.pc # "failed" => HeldOf(u) = HeldOf(ts[i]),
         u.pc = "ok" => u.closed /\ u.queue = <<>> /\ u.data \in objs2
  PROVE  LayerOk(bytes, y, Changed(ts, i, u), objs2)
<1> DEFINE n == Len(ts)
           ts2 == Changed(ts, i, u)
<1>1. ts \in Seq(TaskSet) /\ n \in Nat /\ DOMAIN ts = 1 .. n
  BY DEF LayerOk, LayerTyped
<1>2. /\ ts2 \in Seq(TaskSet) /\ Len(ts2) = n /\ DOMAIN ts2 = 1 .. n
      /\ ts2[i] = u /\ \A j \in 1 .. n : j # i => ts2[j] = ts[j]
  <2>1. /\ Changed(ts, i, u) \in Seq(TaskSet) /\ Len(Changed(ts, i, u)) = Len(ts)
        /\ DOMAIN Changed(ts, i, u) = DOMAIN ts
        /\ Changed(ts, i, u)[i] = u
        /\ \A j \in DOMAIN ts : j # i => Changed(ts, i, u)[j] = ts[j]
    BY <1>1, TaskChanged
  <2>2. QED BY <1>1, <2>1
<1> HIDE DEF ts2, n
<1>3. ASSUME Sound(ts2) PROVE Sound(ts) /\ IdsOf(ts2) = IdsOf(ts)
  <2>1. u.pc # "failed"
    BY <1>1, <1>2, <1>3 DEF Sound
  <2>2. Sound(ts)
    BY <1>1, <1>2, <1>3 DEF Sound
  <2>3. \A j \in 1 .. n : HeldOf(ts2[j]) = HeldOf(ts[j])
    BY <1>2, <2>1
  <2>4. IdsOf(ts2) = [j \in 1 .. n |-> HeldOf(ts2[j])] /\ IdsOf(ts) = [j \in 1 .. n |-> HeldOf(ts[j])]
    BY <1>1, <1>2 DEF IdsOf
  <2>5. QED BY <2>2, <2>3, <2>4
<1>4. \A j \in 1 .. n : ts2[j].closed = ts[j].closed
  BY <1>2
<1>5. \A j \in 1 .. n : ts[j].pc = "ok" => ts[j].closed /\ ts[j].queue = <<>> /\ ts[j].data \in objs
  BY <1>1 DEF LayerOk, Going
<1>6. \A j \in 1 .. n : ts2[j].pc = "ok" => ts2[j].closed /\ ts2[j].queue = <<>> /\ ts2[j].data \in objs2
  BY <1>2, <1>5
<1>7. TasksGoOn(ts, ts2, objs, objs2)
  BY <1>2, <1>3, <1>4, <1>6 DEF TasksGoOn, n
<1>8. QED BY <1>7, TasksMoved DEF ts2

\* What the invariant says of one task.
LEMMA TaskFacts ==
  ASSUME IInv, NEW l \in Layer, NEW i \in DOMAIN tasks[l]
  PROVE  /\ tasks[l][i] \in TaskSet /\ HeldOf(tasks[l][i]) \in Seq(Byte)
         /\ DOMAIN tasks[l][i] = {"pc", "queue", "closed", "data"}
<1>1. tasks[l] \in Seq(TaskSet)
  BY LayerFacts
<1>2. tasks[l][i] \in TaskSet
  BY <1>1
<1>3. QED BY <1>2, HeldTyped DEF TaskSet

\* A chunk received keeps the invariant, ...
LEMMA ReceiveStep ==
  ASSUME IInv, NEW l \in Layer, NEW i \in DOMAIN tasks[l], Receive(l, i)
  PROVE  IInv'
<1> DEFINE ts == tasks[l]
           t == ts[i]
           d == t.data
           q == t.queue
           u == [t EXCEPT !.data = d \o Head(q), !.queue = Tail(q)]
<1>1. \A a, b, c \in Seq(Byte) : (a \o b) \o c = a \o (b \o c)
  BY BytesAssociative
<1>2. /\ LayerOk(Input(l), layer[l], ts, objects) /\ ts \in Seq(TaskSet)
      /\ DOMAIN layer = Layer /\ DOMAIN tasks = Layer /\ permits \in Nat
  BY LayerFacts
<1>3. t \in TaskSet /\ DOMAIN t = {"pc", "queue", "closed", "data"} /\ t.pc = "receive" /\ q # <<>>
  BY TaskFacts DEF Receive
<1>4. d \in Seq(Byte) /\ q \in Seq(Seq(Byte))
  BY <1>3 DEF TaskSet
<1>5. tasks' = [tasks EXCEPT ![l][i] = u]
  <2>1. tasks' = [tasks EXCEPT ![l][i].data = @ \o Head(q), ![l][i].queue = Tail(@)]
    BY DEF Receive
  <2>2. QED BY <1>2, <1>3, <2>1
<1> HIDE DEF d, q
<1>6. Head(q) \in Seq(Byte) /\ Tail(q) \in Seq(Seq(Byte))
  BY <1>3, <1>4
<1>7. u \in TaskSet /\ u.pc = "receive" /\ u.closed = t.closed /\ u.data = d \o Head(q) /\ u.queue = Tail(q)
  <2>1. d \o Head(q) \in Seq(Byte)
    BY <1>4, <1>6
  <2> HIDE DEF t
  <2>2. QED BY <1>3, <1>6, <2>1 DEF TaskSet
<1>8. HeldOf(u) = HeldOf(t)
  <2>1. FlattenSeq(q) = Head(q) \o FlattenSeq(Tail(q))
    BY <1>3, <1>4, FlattenedHead
  <2>2. FlattenSeq(Tail(q)) \in Seq(Byte)
    <3>1. <<>> \in Seq(Byte)
      OBVIOUS
    <3>2. QED BY <1>6, <3>1, FlattenedAppend
  <2>3. HeldOf(u) = (d \o Head(q)) \o FlattenSeq(Tail(q)) /\ HeldOf(t) = d \o FlattenSeq(q)
    <3> HIDE DEF u
    <3>1. QED BY <1>7 DEF HeldOf, d, q
  <2> DEFINE h == Head(q)
             f == FlattenSeq(Tail(q))
  <2>4. h \in Seq(Byte) /\ f \in Seq(Byte) /\ HeldOf(u) = (d \o h) \o f /\ HeldOf(t) = d \o (h \o f)
    BY <1>6, <2>1, <2>2, <2>3
  <2> HIDE DEF h, f, u, t
  <2>5. (d \o h) \o f = d \o (h \o f)
    BY <1>1, <1>4, <2>4
  <2>6. QED BY <2>4, <2>5
<1> HIDE DEF u
<1>9. tasks'[l] = Changed(ts, i, u) /\ DOMAIN tasks' = Layer /\ \A k \in Layer : k # l => tasks'[k] = tasks[k]
  BY <1>2, <1>5 DEF Changed
<1>10. StepOf(l) /\ layer' = layer /\ objects' = objects /\ permits' = permits
  BY <1>2, <1>9 DEF Receive, StepOf
<1>11. LayerOk(Input(l), layer[l], Changed(ts, i, u), objects)
  <2> DEFINE y == layer[l]
             bytes == Input(l)
  <2>1. LayerOk(bytes, y, ts, objects) /\ i \in DOMAIN ts /\ t = ts[i]
    BY <1>2
  <2> HIDE DEF y, bytes, ts, t
  <2>2. LayerOk(bytes, y, Changed(ts, i, u), objects)
    BY <1>3, <1>7, <1>8, <2>1, TaskGoesOn
  <2>3. QED BY <2>2 DEF y, bytes
<1>12. SamePcs(ts, Changed(ts, i, u))
  <2> HIDE DEF t
  <2>1. /\ DOMAIN Changed(ts, i, u) = DOMAIN ts /\ Changed(ts, i, u)[i] = u
        /\ \A j \in DOMAIN ts : j # i => Changed(ts, i, u)[j] = ts[j]
    BY <1>2, <1>7, TaskChanged
  <2>2. u.pc = ts[i].pc
    BY <1>3, <1>7 DEF t
  <2> HIDE DEF ts
  <2>3. \A j \in DOMAIN ts : Changed(ts, i, u)[j].pc = ts[j].pc
    BY <2>1, <2>2
  <2>4. QED BY <2>1, <2>3 DEF SamePcs
<1>13. QED BY <1>9, <1>10, <1>11, <1>12, StepKeeps

\* A task that no longer receives gives its permit back.
LEMMA TaskEnds ==
  ASSUME IInv, NEW l \in Layer, NEW i \in DOMAIN tasks[l], tasks[l][i].pc = "receive",
         NEW u \in TaskSet, u.pc # "receive",
         DOMAIN tasks' = Layer, tasks'[l] = Changed(tasks[l], i, u),
         \A k \in Layer : k # l => tasks'[k] = tasks[k],
         permits' = permits + 1
  PROVE  Counted'
<1> DEFINE ts == tasks[l]
<1>1. /\ ts \in Seq(TaskSet) /\ permits \in Nat
  BY LayerFacts
<1>2. /\ DOMAIN tasks'[l] = DOMAIN ts /\ tasks'[l][i] = u
      /\ \A j \in DOMAIN ts : j # i => tasks'[l][j] = ts[j]
  BY <1>1, TaskChanged
<1>3. ASSUME NEW k, NEW j, ReceiverIs(k, j)' PROVE ReceiverIs(k, j) /\ <<k, j>> # <<l, i>>
  <2>1. CASE k = l /\ j = i
    BY <1>2, <1>3, <2>1 DEF ReceiverIs
  <2>2. CASE k = l /\ j # i
    BY <1>2, <1>3, <2>2 DEF ReceiverIs
  <2>3. CASE k # l
    BY <1>3, <2>3 DEF ReceiverIs
  <2>4. QED BY <2>1, <2>2, <2>3
<1>4. ASSUME NEW k, NEW j, ReceiverIs(k, j), <<k, j>> # <<l, i>> PROVE ReceiverIs(k, j)'
  <2>1. CASE k = l
    <3>1. j # i
      BY <1>4, <2>1
    <3>2. QED BY <1>2, <1>4, <2>1, <3>1 DEF ReceiverIs
  <2>2. CASE k # l
    BY <1>4, <2>2 DEF ReceiverIs
  <2>3. QED BY <2>1, <2>2
<1>5. \A t : t \in Receivers' <=> \E k, j : t = <<k, j>> /\ ReceiverIs(k, j)'
  BY DEF Receivers, ReceiverIs
<1>6. Receivers' = Receivers \ {<<l, i>>} /\ <<l, i>> \in Receivers
  <2>1. ASSUME NEW t \in Receivers' PROVE t \in Receivers /\ t # <<l, i>>
    <3>1. PICK k, j : t = <<k, j>> /\ ReceiverIs(k, j)'
      BY <1>5, <2>1
    <3>2. QED BY <1>3, <3>1, ReceiversAre
  <2>2. ASSUME NEW t \in Receivers, t # <<l, i>> PROVE t \in Receivers'
    <3>1. PICK k, j : t = <<k, j>> /\ ReceiverIs(k, j)
      BY <2>2, ReceiversAre
    <3>2. QED BY <1>4, <1>5, <2>2, <3>1
  <2>3. <<l, i>> \in Receivers
    <3>1. ReceiverIs(l, i)
      BY DEF ReceiverIs
    <3>2. QED BY <3>1, ReceiversAre
  <2>4. QED BY <2>1, <2>2, <2>3
<1>7. IsFiniteSet(Receivers) /\ Cardinality(Receivers) + permits = Permits
  BY DEF IInv, Counted, WritersBounded
<1>8. IsFiniteSet(Receivers') /\ Cardinality(Receivers') = Cardinality(Receivers) - 1
  BY <1>6, <1>7, FS_RemoveElement
<1>9. Cardinality(Receivers) \in Nat
  BY <1>7, FS_CardinalityType
<1>10. Cardinality(Receivers') + permits' = Permits
  BY <1>1, <1>7, <1>8, <1>9
<1>11. QED BY <1>8, <1>10 DEF Counted, WritersBounded

\* ... an object stored, ...
LEMMA FinalizeStep ==
  ASSUME IInv, NEW l \in Layer, NEW i \in DOMAIN tasks[l], Finalize(l, i)
  PROVE  IInv'
<1> DEFINE ts == tasks[l]
           t == ts[i]
           u == [t EXCEPT !.pc = "ok"]
<1>1. /\ LayerOk(Input(l), layer[l], ts, objects) /\ ts \in Seq(TaskSet)
      /\ DOMAIN layer = Layer /\ DOMAIN tasks = Layer /\ permits \in Nat
  BY LayerFacts
<1>2. /\ t \in TaskSet /\ DOMAIN t = {"pc", "queue", "closed", "data"} /\ t.pc = "receive"
      /\ t.queue = <<>> /\ t.closed
  BY TaskFacts DEF Finalize
<1>3. tasks' = [tasks EXCEPT ![l][i] = u] /\ objects' = objects \cup {t.data} /\ permits' = permits + 1
      /\ layer' = layer /\ archive' = archive
  BY DEF Finalize
<1>4. u \in TaskSet /\ u.pc = "ok" /\ u.closed = t.closed /\ u.queue = t.queue /\ u.data = t.data
  <2> HIDE DEF t
  <2>1. QED BY <1>2 DEF TaskSet
<1> HIDE DEF u
<1>5. HeldOf(u) = HeldOf(t) /\ u.data \in objects'
  BY <1>3, <1>4 DEF HeldOf
<1>6. tasks'[l] = Changed(ts, i, u) /\ DOMAIN tasks' = Layer /\ \A k \in Layer : k # l => tasks'[k] = tasks[k]
  BY <1>1, <1>3 DEF Changed
<1>7. StepOf(l)
  BY <1>1, <1>3, <1>6 DEF StepOf
<1>8. LayerOk(Input(l), layer[l], Changed(ts, i, u), objects')
  <2> DEFINE y == layer[l]
             bytes == Input(l)
             objs == objects
             objs2 == objects'
  <2>1. LayerOk(bytes, y, ts, objs) /\ i \in DOMAIN ts /\ t = ts[i] /\ objs \subseteq objs2
    BY <1>1, <1>3
  <2>2. u.data \in objs2
    BY <1>5
  <2> HIDE DEF y, bytes, ts, t, objs, objs2
  <2>3. LayerOk(bytes, y, Changed(ts, i, u), objs2)
    BY <1>2, <1>4, <1>5, <2>1, <2>2, TaskGoesOn
  <2>4. QED BY <2>3 DEF y, bytes, objs2
<1>9. LayersOk'
  BY <1>3, <1>6, <1>7, <1>8, LayersStep
<1>10. Counted'
  BY <1>2, <1>3, <1>4, <1>6, TaskEnds
<1>11. Shape'
  BY <1>7 DEF IInv, Shape, StepOf
<1>12. QED BY <1>9, <1>10, <1>11 DEF IInv

\* ... and a task that fails.
LEMMA FailureStep ==
  ASSUME IInv, NEW l \in Layer, NEW i \in DOMAIN tasks[l], TaskFails(l, i)
  PROVE  IInv'
<1> DEFINE ts == tasks[l]
           t == ts[i]
           u == [t EXCEPT !.pc = "failed", !.queue = <<>>, !.data = <<>>]
<1>1. /\ LayerOk(Input(l), layer[l], ts, objects) /\ ts \in Seq(TaskSet)
      /\ DOMAIN layer = Layer /\ DOMAIN tasks = Layer /\ permits \in Nat
  BY LayerFacts
<1>2. t \in TaskSet /\ DOMAIN t = {"pc", "queue", "closed", "data"} /\ t.pc = "receive"
  BY TaskFacts DEF TaskFails
<1>3. tasks' = [tasks EXCEPT ![l][i] = u] /\ objects' = objects /\ permits' = permits + 1
      /\ layer' = layer /\ archive' = archive
  <2>1. tasks' = [tasks EXCEPT ![l][i].pc = "failed", ![l][i].queue = <<>>, ![l][i].data = <<>>]
    BY DEF TaskFails
  <2>2. tasks' = [tasks EXCEPT ![l][i] = u]
    BY <1>1, <1>2, <2>1
  <2>3. QED BY <2>2 DEF TaskFails
<1>4. u \in TaskSet /\ u.pc = "failed" /\ u.closed = t.closed
  <2> HIDE DEF t
  <2>1. <<>> \in Seq(Byte) /\ <<>> \in Seq(Seq(Byte))
    OBVIOUS
  <2>2. QED BY <1>2, <2>1 DEF TaskSet
<1> HIDE DEF u
<1>5. tasks'[l] = Changed(ts, i, u) /\ DOMAIN tasks' = Layer /\ \A k \in Layer : k # l => tasks'[k] = tasks[k]
  BY <1>1, <1>3 DEF Changed
<1>6. StepOf(l)
  BY <1>1, <1>3, <1>5 DEF StepOf
<1>7. LayerOk(Input(l), layer[l], Changed(ts, i, u), objects)
  <2> DEFINE y == layer[l]
             bytes == Input(l)
             objs == objects
  <2>1. LayerOk(bytes, y, ts, objs) /\ i \in DOMAIN ts /\ t = ts[i] /\ objs \subseteq objs
    BY <1>1
  <2> HIDE DEF y, bytes, ts, t, objs
  <2>2. LayerOk(bytes, y, Changed(ts, i, u), objs)
    BY <1>2, <1>4, <2>1, TaskGoesOn
  <2>3. QED BY <2>2 DEF y, bytes, objs
<1>8. LayersOk'
  BY <1>3, <1>5, <1>6, <1>7, LayersStep
<1>9. Counted'
  BY <1>2, <1>3, <1>4, <1>5, TaskEnds
<1>10. Shape'
  BY <1>6 DEF IInv, Shape, StepOf
<1>11. QED BY <1>8, <1>9, <1>10 DEF IInv

\* Every step keeps the invariant.
LEMMA Steps == IInv /\ [Next]_vars => IInv'
<1>1. SUFFICES ASSUME IInv, [Next]_vars PROVE IInv'
  OBVIOUS
<1>2. CASE \E l \in Layer : Async(l)
  BY <1>1, <1>2, ReadSteps, StreamSteps, AwaitSteps DEF Async
<1>3. CASE \E l \in Layer : \E i \in DOMAIN tasks[l] : Task(l, i)
  BY <1>1, <1>3, ReceiveStep, FinalizeStep, FailureStep DEF Task
<1>4. CASE UNCHANGED vars
  <2>1. \A l \in Layer : Input(l)' = Input(l)
    BY <1>4 DEF vars, Input
  <2>2. Receivers' = Receivers
    BY <1>4 DEF vars, Receivers
  <2>3. Shape' /\ Counted'
    BY <1>1, <1>4, <2>2 DEF vars, IInv, Shape, Counted, WritersBounded
  <2>4. LayersOk'
    BY <1>1, <1>4, <2>1 DEF vars, IInv, LayersOk
  <2>5. QED BY <2>3, <2>4 DEF IInv
<1>5. QED BY <1>1, <1>2, <1>3, <1>4 DEF Next

\* However the chunks fall and the tasks run, and whatever fails, the invariant holds: an
\* import whose tasks are sound holds every byte it has read and is where split would be.
THEOREM Invariance == Spec => []IInv
BY Initial, Steps, PTL DEF Spec

\* The invariant says what ResultIsSplit does.
LEMMA FindsSplit == IInv => ResultIsSplit
<1>1. SUFFICES ASSUME IInv PROVE ResultIsSplit
  OBVIOUS
<1>2. ASSUME NEW l \in Layer
      PROVE  /\ layer[l].pc \in PC /\ layer[l].pos \in 0 .. Len(Input(l)) /\ layer[l].remaining \in 0 .. layer[l].size
             /\ \A i \in DOMAIN tasks[l] : tasks[l][i].pc \in {"receive", "ok", "failed"}
             /\ \A e \in ToSet(layer[l].entries) : e.task \in 0 .. Len(tasks[l])
  <2> DEFINE y == layer[l]
             ts == tasks[l]
             bytes == Input(l)
  <2>1. LayerTyped(bytes, y, ts)
    BY <1>1 DEF IInv, LayersOk, LayerOk
  <2>2. \A i \in DOMAIN ts : ts[i] \in TaskSet
    BY <2>1 DEF LayerTyped
  <2>3. \A i \in DOMAIN ts : ts[i].pc \in {"receive", "ok", "failed"}
    BY <2>2 DEF TaskSet
  <2>4. \A e \in ToSet(y.entries) : e.task \in 0 .. Len(ts)
    BY <2>1 DEF LayerTyped, ToSet
  <2>5. QED BY <2>1, <2>3, <2>4 DEF LayerTyped
<1>3. WritersBounded /\ permits \in 0 .. Permits
  <2>1. IsFiniteSet(Receivers) /\ WritersBounded /\ permits \in Nat
    BY <1>1 DEF IInv, Counted, Shape
  <2>2. Cardinality(Receivers) \in Nat
    BY <2>1, FS_CardinalityType
  <2>3. QED BY <2>1, <2>2, Blocks DEF WritersBounded
<1>4. TypeOK
  BY <1>1, <1>2, <1>3 DEF TypeOK, IInv, Shape
<1>5. ASSUME NEW l \in Layer, layer[l].pc = "stored"
      PROVE  /\ ~split(Input(l)).failed /\ layer[l].file = split(Input(l)).file
             /\ ToSet(layer[l].file.object_refs) \subseteq objects
  <2>1. WellStored(Input(l), layer[l], objects)
    BY <1>1 DEF IInv, LayersOk, LayerOk
  <2>2. QED BY <1>5, <2>1 DEF WellStored
<1>6. RefsStored
  BY <1>5 DEF RefsStored
<1>7. QED BY <1>4, <1>5, <1>6 DEF ResultIsSplit

\* What split_async stores is what split writes for the same archive, split accepts that
\* archive, what the stream refers to is stored, and no more objects are written at a time
\* than the semaphore has permits: for any archives, block size and channel capacity.
THEOREM SplitResult == Spec => []ResultIsSplit
BY Invariance, FindsSplit, PTL

\* The invariant says what NothingLostInFlight does.
LEMMA HoldsAll == IInv => NothingLostInFlight
<1>1. SUFFICES ASSUME IInv, NEW l \in Layer, layer[l].pc # "error",
                      \A i \in DOMAIN tasks[l] : tasks[l][i].pc # "failed"
               PROVE  LET entries == layer[l].entries
                          built   == FlattenSeq([k \in DOMAIN entries |->
                                       IF entries[k].task = 0 THEN entries[k].data ELSE Held(l, entries[k].task)])
                      IN SubSeq(Input(l), 1, layer[l].pos) =
                           built \o IF layer[l].pc = "send" THEN Held(l, Newest(l)) ELSE <<>>
  BY DEF NothingLostInFlight
<1> DEFINE y == layer[l]
           ts == tasks[l]
           es == y.entries
           held == [k \in DOMAIN es |-> IF es[k].task = 0 THEN es[k].data ELSE Held(l, es[k].task)]
<1>2. LayerTyped(Input(l), y, ts) /\ AllHeld(Input(l), y, ts)
  BY <1>1 DEF IInv, LayersOk, LayerOk
<1>3. SubSeq(Input(l), 1, y.pos) = Built(es, IdsOf(ts)) \o Taken(y, ts)
  BY <1>1, <1>2 DEF AllHeld, Sound
<1>4. Taken(y, ts) = IF y.pc = "send" THEN Held(l, Newest(l)) ELSE <<>>
  BY DEF Taken, Held, HeldOf, Newest
<1>5. \A k \in DOMAIN es : Piece(es[k], IdsOf(ts)) = held[k]
  <2>1. ts \in Seq(TaskSet) /\ \A k \in DOMAIN es : es[k].task \in 0 .. Len(ts)
    BY <1>2 DEF LayerTyped
  <2>2. Len(ts) \in Nat /\ \A i \in 1 .. Len(ts) : IdsOf(ts)[i] = HeldOf(ts[i])
    BY <2>1, IdsTyped
  <2>3. \A k \in DOMAIN es : es[k].task # 0 => es[k].task \in 1 .. Len(ts)
    BY <2>1, <2>2
  <2>4. \A k \in DOMAIN es : es[k].task # 0 => IdsOf(ts)[es[k].task] = Held(l, es[k].task)
    BY <2>2, <2>3 DEF Held, HeldOf
  <2>5. QED BY <2>4 DEF Piece
<1>6. [k \in DOMAIN es |-> Piece(es[k], IdsOf(ts))] = held
  BY <1>5
<1>7. Built(es, IdsOf(ts)) = FlattenSeq(held)
  BY <1>6 DEF Built
<1>8. QED BY <1>3, <1>4, <1>7

\* While no task has failed, every byte that was read is in exactly one place, the builder,
\* a channel or a task, and in order.
THEOREM NothingLost == Spec => []NothingLostInFlight
BY Invariance, HoldsAll, PTL

-------------------------------------------------------------------------------
(* What a writer has written, read back *)

\* What a chunk stands for.
Spells(c, refs) == IF c.n < 0 THEN c.data ELSE refs[c.n + 1]
SpelledBy(chunks, refs) == FlattenSeq([i \in DOMAIN chunks |-> Spells(chunks[i], refs)])
Spelled(w) == SpelledBy(w.chunks, w.object_refs) \o w.inline_buffer

\* The references are in the table.
Refers(chunks, refs) ==
  /\ chunks \in Seq(Chunk) /\ refs \in Seq(Seq(Byte))
  /\ \A i \in DOMAIN chunks : chunks[i].n < Len(refs)

\* What a chunk stands for is bytes.
LEMMA SpellsTyped ==
  ASSUME NEW refs \in Seq(Seq(Byte)), NEW c \in Chunk, c.n < Len(refs)
  PROVE  Spells(c, refs) \in Seq(Byte)
<1>1. c.n \in Int /\ c.data \in Seq(Byte)
  BY DEF Chunk
<1>2. CASE c.n < 0
  BY <1>1, <1>2 DEF Spells
<1>3. CASE ~(c.n < 0)
  <2>1. c.n + 1 \in 1 .. Len(refs)
    BY <1>1, <1>3
  <2>2. refs[c.n + 1] \in Seq(Byte)
    BY <2>1
  <2>3. QED BY <1>3, <2>2 DEF Spells
<1>4. QED BY <1>2, <1>3

\* One chunk more is its bytes more.
LEMMA ChunkAdded ==
  ASSUME NEW chunks, NEW refs, Refers(chunks, refs), NEW c \in Chunk, c.n < Len(refs)
  PROVE  /\ SpelledBy(chunks, refs) \in Seq(Byte)
         /\ Refers(Append(chunks, c), refs)
         /\ SpelledBy(Append(chunks, c), refs) = SpelledBy(chunks, refs) \o Spells(c, refs)
<1> DEFINE m == Len(chunks)
           more == Append(chunks, c)
           seqs == [k \in DOMAIN chunks |-> Spells(chunks[k], refs)]
           longer == [k \in DOMAIN more |-> Spells(more[k], refs)]
           p == Spells(c, refs)
<1>1. chunks \in Seq(Chunk) /\ refs \in Seq(Seq(Byte))
  BY DEF Refers
<1>2. /\ m \in Nat /\ DOMAIN chunks = 1 .. m /\ DOMAIN more = 1 .. m + 1 /\ more \in Seq(Chunk)
      /\ more[m + 1] = c /\ \A k \in 1 .. m : more[k] = chunks[k]
      /\ \A k \in 1 .. m + 1 : k = m + 1 \/ k \in 1 .. m
  BY <1>1
<1>3. \A k \in 1 .. m : Spells(chunks[k], refs) \in Seq(Byte)
  <2>1. \A k \in 1 .. m : chunks[k] \in Chunk /\ chunks[k].n < Len(refs)
    BY <1>1, <1>2 DEF Refers
  <2>2. QED BY <1>1, <2>1, SpellsTyped
<1>4. seqs \in Seq(Seq(Byte)) /\ \A k \in 1 .. m : seqs[k] = Spells(chunks[k], refs)
  BY <1>2, <1>3
<1>5. /\ DOMAIN longer = 1 .. m + 1 /\ longer[m + 1] = p
      /\ \A k \in 1 .. m : longer[k] = Spells(chunks[k], refs)
      /\ longer = [k \in DOMAIN longer |-> longer[k]]
  BY <1>2
<1> DEFINE app == Append(seqs, p)
<1>6. p \in Seq(Byte)
  BY <1>1, SpellsTyped
<1>7. Len(seqs) = m
  BY <1>2
<1> HIDE DEF seqs, longer, more, p, m
<1>8. /\ app \in Seq(Seq(Byte)) /\ DOMAIN app = 1 .. m + 1 /\ app[m + 1] = p
      /\ \A k \in 1 .. m : app[k] = seqs[k]
  BY <1>2, <1>4, <1>6, <1>7
<1> HIDE DEF app
<1>9. app = [k \in DOMAIN app |-> app[k]]
  BY <1>8
<1>10. \A k \in 1 .. m + 1 : app[k] = longer[k]
  BY <1>2, <1>4, <1>5, <1>8
<1>11. app = longer
  BY <1>5, <1>8, <1>9, <1>10
<1>12. FlattenSeq(seqs) \in Seq(Byte) /\ FlattenSeq(Append(seqs, p)) = FlattenSeq(seqs) \o p
  BY <1>4, <1>6, FlattenedAppend
<1>13. SpelledBy(chunks, refs) = FlattenSeq(seqs) /\ SpelledBy(more, refs) = FlattenSeq(longer)
  BY DEF SpelledBy, seqs, longer
<1>14. Refers(more, refs)
  <2>1. \A k \in 1 .. m : more[k].n < Len(refs)
    BY <1>2 DEF Refers
  <2>2. \A k \in 1 .. m + 1 : more[k].n < Len(refs)
    BY <1>2, <2>1
  <2>3. QED BY <1>1, <1>2, <2>2 DEF Refers
<1>15. QED BY <1>11, <1>12, <1>13, <1>14 DEF app, more, p

\* More references change nothing of what was written.
LEMMA RefsAdded ==
  ASSUME NEW chunks, NEW refs, Refers(chunks, refs),
         NEW refs2 \in Seq(Seq(Byte)), Len(refs) <= Len(refs2), \A i \in 1 .. Len(refs) : refs2[i] = refs[i]
  PROVE  Refers(chunks, refs2) /\ SpelledBy(chunks, refs2) = SpelledBy(chunks, refs)
<1>1. /\ chunks \in Seq(Chunk) /\ refs \in Seq(Seq(Byte)) /\ Len(refs) \in Nat /\ Len(refs2) \in Nat
      /\ \A i \in DOMAIN chunks : chunks[i].n < Len(refs)
  BY DEF Refers
<1>2. \A i \in DOMAIN chunks : chunks[i] \in Chunk
  BY <1>1
<1>3. \A i \in DOMAIN chunks : chunks[i].n \in Int
  BY <1>2 DEF Chunk
<1>4. \A i \in DOMAIN chunks : chunks[i].n < Len(refs2)
  BY <1>1, <1>3
<1>5. ASSUME NEW i \in DOMAIN chunks PROVE Spells(chunks[i], refs2) = Spells(chunks[i], refs)
  <2> DEFINE n == chunks[i].n
  <2>1. n \in Int /\ n < Len(refs)
    BY <1>1, <1>3
  <2>2. ~(n < 0) => n + 1 \in 1 .. Len(refs)
    BY <1>1, <2>1
  <2>3. ~(n < 0) => refs2[n + 1] = refs[n + 1]
    BY <2>2
  <2>4. QED BY <2>3 DEF Spells
<1>6. [i \in DOMAIN chunks |-> Spells(chunks[i], refs2)] = [i \in DOMAIN chunks |-> Spells(chunks[i], refs)]
  BY <1>5
<1>7. QED BY <1>1, <1>4, <1>6 DEF Refers, SpelledBy

Good(w) == w \in Writer /\ Refers(w.chunks, w.object_refs)

\* What a writer stands for is bytes.
LEMMA SpelledTyped ==
  ASSUME NEW w, Good(w)
  PROVE  /\ SpelledBy(w.chunks, w.object_refs) \in Seq(Byte) /\ Spelled(w) \in Seq(Byte)
         /\ w.inline_buffer \in Seq(Byte) /\ w.total_size \in Nat
         /\ w.chunks \in Seq(Chunk) /\ w.object_refs \in Seq(Seq(Byte))
         /\ DOMAIN w = {"chunks", "inline_buffer", "object_refs", "total_size"}
<1>1. /\ w.inline_buffer \in Seq(Byte) /\ w.total_size \in Nat
      /\ w.chunks \in Seq(Chunk) /\ w.object_refs \in Seq(Seq(Byte))
      /\ DOMAIN w = {"chunks", "inline_buffer", "object_refs", "total_size"}
  BY DEF Good, Writer
<1>2. SpelledBy(w.chunks, w.object_refs) \in Seq(Byte)
  <2> DEFINE c == [n |-> -1, data |-> <<>>]
  <2>1. c \in Chunk /\ c.n < 0
    BY DEF Chunk
  <2>2. Len(w.object_refs) \in Nat
    BY <1>1
  <2> HIDE DEF c
  <2>3. c.n < Len(w.object_refs)
    <3>1. c.n \in Int
      BY <2>1 DEF Chunk
    <3>2. QED BY <2>1, <2>2, <3>1
  <2>4. Refers(w.chunks, w.object_refs)
    BY DEF Good
  <2>5. QED BY <2>1, <2>3, <2>4, ChunkAdded
<1>3. QED BY <1>1, <1>2 DEF Spelled

\* write_inline adds its bytes and their number, ...
LEMMA InlineSpelled ==
  ASSUME NEW w, Good(w), NEW a \in Seq(Byte)
  PROVE  LET v == write_inline(w, a)
         IN  Good(v) /\ Spelled(v) = Spelled(w) \o a /\ v.total_size = w.total_size + Len(a)
<1> DEFINE v == write_inline(w, a)
           b == SpelledBy(w.chunks, w.object_refs)
           c == w.inline_buffer
<1>1. \A x, y, z \in Seq(Byte) : (x \o y) \o z = x \o (y \o z)
  BY BytesAssociative
<1>2. b \in Seq(Byte) /\ c \in Seq(Byte) /\ w \in Writer
  BY SpelledTyped DEF Good
<1>3. v = [chunks |-> w.chunks, inline_buffer |-> w.inline_buffer \o a,
           object_refs |-> w.object_refs, total_size |-> w.total_size + Len(a)]
  BY <1>2, InlineIs
<1>4. v \in Writer
  BY <1>2, InlineWritten
<1> HIDE DEF v
<1>5. /\ v.chunks = w.chunks /\ v.object_refs = w.object_refs /\ v.inline_buffer = c \o a
      /\ v.total_size = w.total_size + Len(a)
  BY <1>3
<1>6. Good(v)
  BY <1>4, <1>5 DEF Good
<1>7. Spelled(v) = b \o (c \o a) /\ Spelled(w) = b \o c
  BY <1>5 DEF Spelled
<1> HIDE DEF b, c
<1>8. (b \o c) \o a = b \o (c \o a)
  BY <1>1, <1>2
<1>9. Good(v) /\ Spelled(v) = Spelled(w) \o a /\ v.total_size = w.total_size + Len(a)
  BY <1>5, <1>6, <1>7, <1>8
<1>10. QED BY <1>9 DEF v

\* ... flush_inline nothing, ...
LEMMA FlushSpelled ==
  ASSUME NEW w, Good(w)
  PROVE  LET v == flush_inline(w)
         IN  /\ Good(v) /\ Spelled(v) = Spelled(w) /\ v.inline_buffer = <<>>
             /\ v.total_size = w.total_size /\ v.object_refs = w.object_refs
<1> DEFINE v == flush_inline(w)
           c == [n |-> -Len(w.inline_buffer), data |-> w.inline_buffer]
<1>1. /\ SpelledBy(w.chunks, w.object_refs) \in Seq(Byte) /\ Spelled(w) \in Seq(Byte)
      /\ w.inline_buffer \in Seq(Byte) /\ w.total_size \in Nat
      /\ w.chunks \in Seq(Chunk) /\ w.object_refs \in Seq(Seq(Byte))
      /\ DOMAIN w = {"chunks", "inline_buffer", "object_refs", "total_size"}
  BY SpelledTyped
<1>2. CASE w.inline_buffer = <<>>
  BY <1>2 DEF flush_inline
<1>3. CASE w.inline_buffer # <<>>
  <2>1. c \in Chunk /\ c.n < 0 /\ c.data = w.inline_buffer
    <3>1. Len(w.inline_buffer) \in Nat \ {0}
      BY <1>1, <1>3
    <3>2. QED BY <1>1, <3>1 DEF Chunk
  <2>2. v = [w EXCEPT !.chunks = Append(@, c), !.inline_buffer = <<>>]
    BY <1>3 DEF flush_inline
  <2>3. v \in Writer
    <3>1. w \in Writer
      BY DEF Good
    <3>2. QED BY <3>1, Flushed
  <2> HIDE DEF c, v
  <2>4. /\ v.chunks = Append(w.chunks, c) /\ v.inline_buffer = <<>> /\ v.object_refs = w.object_refs
        /\ v.total_size = w.total_size
    BY <1>1, <2>2
  <2>5. c.n < Len(w.object_refs)
    <3>1. c.n \in Int /\ Len(w.object_refs) \in Nat
      BY <1>1, <2>1 DEF Chunk
    <3>2. QED BY <2>1, <3>1
  <2>6. /\ Refers(v.chunks, v.object_refs)
        /\ SpelledBy(v.chunks, v.object_refs) = SpelledBy(w.chunks, w.object_refs) \o Spells(c, w.object_refs)
    <3>1. Refers(w.chunks, w.object_refs)
      BY DEF Good
    <3> DEFINE chunks == w.chunks
               refs == w.object_refs
    <3>2. Refers(chunks, refs) /\ c \in Chunk /\ c.n < Len(refs)
      BY <2>1, <2>5, <3>1
    <3> HIDE DEF chunks, refs
    <3>3. Refers(Append(chunks, c), refs) /\ SpelledBy(Append(chunks, c), refs) = SpelledBy(chunks, refs) \o Spells(c, refs)
      BY <3>2, ChunkAdded
    <3>4. QED BY <2>4, <3>3 DEF chunks, refs
  <2>7. Spells(c, w.object_refs) = w.inline_buffer
    BY <2>1 DEF Spells
  <2>8. Spelled(v) = Spelled(w) \o <<>>
    BY <2>4, <2>6, <2>7 DEF Spelled
  <2>9. Spelled(w) \o <<>> = Spelled(w)
    BY <1>1, ConcatEmptySeq
  <2>10. QED BY <2>3, <2>4, <2>6, <2>8, <2>9 DEF Good, v
<1>4. QED BY <1>2, <1>3

\* ... and write_external its bytes and their number, though they are in an object.
LEMMA ExternalSpelled ==
  ASSUME NEW w, Good(w), NEW id \in Seq(Byte)
  PROVE  LET t == write_external(w, id)
         IN  Good(t) /\ Spelled(t) = Spelled(w) \o id /\ t.total_size = w.total_size + Len(id)
<1> DEFINE u == add_external_size(w, Len(id))
           v == flush_inline(u)
           refs == Ensure(v.object_refs, id)
           c == [n |-> IndexOf(refs, id), data |-> <<>>]
           t == write_external(w, id)
           chunks == Append(v.chunks, c)
<1>1. /\ SpelledBy(w.chunks, w.object_refs) \in Seq(Byte) /\ Spelled(w) \in Seq(Byte)
      /\ w.inline_buffer \in Seq(Byte) /\ w.total_size \in Nat
      /\ w.chunks \in Seq(Chunk) /\ w.object_refs \in Seq(Seq(Byte))
      /\ DOMAIN w = {"chunks", "inline_buffer", "object_refs", "total_size"} /\ w \in Writer
  BY SpelledTyped DEF Good
<1>2. /\ u \in Writer /\ u.chunks = w.chunks /\ u.object_refs = w.object_refs /\ u.inline_buffer = w.inline_buffer
      /\ u.total_size = w.total_size + Len(id)
  <2> DEFINE size == Len(id)
  <2>1. size \in Nat
    OBVIOUS
  <2>2. u = [w EXCEPT !.total_size = @ + size]
    BY DEF add_external_size
  <2> HIDE DEF u, size
  <2>3. u.total_size = w.total_size + size
    BY <1>1, <2>2
  <2>4. u.chunks = w.chunks /\ u.object_refs = w.object_refs /\ u.inline_buffer = w.inline_buffer
    BY <1>1, <2>2
  <2>5. u = [w EXCEPT !.total_size = w.total_size + size]
    BY <1>1, <2>2
  <2>6. w.total_size + size \in Nat
    BY <1>1, <2>1
  <2>7. u \in Writer
    BY <1>1, <2>5, <2>6 DEF Writer
  <2>8. QED BY <2>3, <2>4, <2>7 DEF size
<1>3. t = [v EXCEPT !.object_refs = refs, !.chunks = Append(@, c)]
  BY DEF write_external, write_reference
<1> HIDE DEF u
<1>4. Good(u) /\ Spelled(u) = Spelled(w)
  BY <1>2 DEF Good, Spelled
<1>5. /\ Good(v) /\ Spelled(v) = Spelled(u) /\ v.inline_buffer = <<>> /\ v.total_size = u.total_size
  BY <1>4, FlushSpelled
<1> HIDE DEF v, t
<1>6. /\ SpelledBy(v.chunks, v.object_refs) \in Seq(Byte)
      /\ v.inline_buffer \in Seq(Byte) /\ v.total_size \in Nat
      /\ v.chunks \in Seq(Chunk) /\ v.object_refs \in Seq(Seq(Byte))
      /\ DOMAIN v = {"chunks", "inline_buffer", "object_refs", "total_size"} /\ v \in Writer
  BY <1>5, SpelledTyped DEF Good
<1>7. /\ refs \in Seq(Seq(Byte)) /\ IndexOf(refs, id) \in 0 .. Len(refs) - 1 /\ refs[IndexOf(refs, id) + 1] = id
      /\ Len(v.object_refs) <= Len(refs) /\ \A i \in 1 .. Len(v.object_refs) : refs[i] = v.object_refs[i]
  BY <1>6, Ensured
<1>8. c \in Chunk /\ c.n \in Nat /\ c.n < Len(refs) /\ refs[c.n + 1] = id /\ Len(refs) \in Nat
  <2>1. IndexOf(refs, id) \in Nat /\ IndexOf(refs, id) < Len(refs) /\ Len(refs) \in Nat
    BY <1>7
  <2>2. QED BY <1>7, <2>1 DEF Chunk
<1> HIDE DEF refs, c
<1>9. Refers(v.chunks, refs) /\ SpelledBy(v.chunks, refs) = SpelledBy(v.chunks, v.object_refs)
  <2>1. Refers(v.chunks, v.object_refs)
    BY <1>5 DEF Good
  <2>2. QED BY <1>7, <2>1, RefsAdded
<1>10. Refers(chunks, refs) /\ SpelledBy(chunks, refs) = SpelledBy(v.chunks, refs) \o Spells(c, refs)
  BY <1>8, <1>9, ChunkAdded
<1>11. Spells(c, refs) = id
  BY <1>8 DEF Spells
<1>12. chunks \in Seq(Chunk)
  BY <1>6, <1>8
<1> HIDE DEF chunks
<1>13. /\ t.chunks = chunks /\ t.object_refs = refs /\ t.inline_buffer = <<>> /\ t.total_size = v.total_size
       /\ t = [chunks |-> chunks, inline_buffer |-> v.inline_buffer, object_refs |-> refs, total_size |-> v.total_size]
  <2>1. t = [v EXCEPT !.object_refs = refs, !.chunks = chunks]
    BY <1>3 DEF chunks
  <2>2. v = [chunks |-> v.chunks, inline_buffer |-> v.inline_buffer, object_refs |-> v.object_refs, total_size |-> v.total_size]
    BY <1>6 DEF Writer
  <2>3. QED BY <1>5, <1>6, <2>1, <2>2
<1>14. t \in Writer
  BY <1>6, <1>7, <1>12, <1>13 DEF Writer
<1>15. Good(t)
  BY <1>10, <1>13, <1>14 DEF Good
<1>16. Spelled(t) = Spelled(w) \o id
  <2> DEFINE b == SpelledBy(v.chunks, v.object_refs)
  <2>1. b \in Seq(Byte) /\ Spelled(t) = (b \o id) \o <<>> /\ Spelled(v) = b \o <<>>
    BY <1>5, <1>6, <1>9, <1>10, <1>11, <1>13 DEF Spelled
  <2> HIDE DEF b
  <2>2. b \o id \in Seq(Byte)
    BY <2>1
  <2>3. (b \o id) \o <<>> = b \o id /\ b \o <<>> = b
    BY <2>1, <2>2, ConcatEmptySeq
  <2>4. QED BY <1>4, <1>5, <2>1, <2>3
<1>17. QED BY <1>2, <1>5, <1>13, <1>15, <1>16 DEF t

-------------------------------------------------------------------------------
(* Every turn of split keeps what was read *)

\* Some bytes are moved from what is unread to what is written.
KeepsAll(w, rest, w2, rest2) ==
  /\ Good(w2) /\ rest2 \in Seq(Byte)
  /\ Spelled(w2) \o rest2 = Spelled(w) \o rest
  /\ w2.total_size + Len(rest2) = w.total_size + Len(rest)

\* Sequences one after the other.
LEMMA Reassociated ==
  ASSUME NEW s \in Seq(Byte), NEW a \in Seq(Byte), NEW r \in Seq(Byte)
  PROVE  /\ (s \o a) \o r = s \o (a \o r)
         /\ Len(a \o r) = Len(a) + Len(r) /\ Len(a) \in Nat /\ Len(r) \in Nat
<1>1. (s \o a) \o r = s \o (a \o r)
  BY ConcatAssociative
<1>2. Len(a \o r) = Len(a) + Len(r) /\ Len(a) \in Nat /\ Len(r) \in Nat
  OBVIOUS
<1>3. QED BY <1>1, <1>2

\* Bytes that are written are moved.
LEMMA WrittenKeepsAll ==
  ASSUME NEW w, Good(w), NEW a \in Seq(Byte), NEW r \in Seq(Byte),
         NEW v, Good(v), Spelled(v) = Spelled(w) \o a, v.total_size = w.total_size + Len(a)
  PROVE  KeepsAll(w, a \o r, v, r)
<1> DEFINE s == Spelled(w)
           t == w.total_size
           ar == a \o r
<1>1. s \in Seq(Byte) /\ t \in Nat
  BY SpelledTyped
<1> HIDE DEF s, t
<1>2. (s \o a) \o r = s \o ar /\ Len(ar) = Len(a) + Len(r) /\ Len(a) \in Nat /\ Len(r) \in Nat
  BY <1>1, Reassociated
<1>3. Spelled(v) \o r = s \o ar
  BY <1>2 DEF s
<1> HIDE DEF ar
<1>4. v.total_size + Len(r) = t + Len(ar)
  <2>1. v.total_size = t + Len(a)
    BY DEF t
  <2>2. QED BY <1>1, <1>2, <2>1
<1>5. KeepsAll(w, ar, v, r)
  BY <1>3, <1>4 DEF KeepsAll, s, t
<1>6. QED BY <1>5 DEF ar

\* Bytes that are written inline are moved, ...
LEMMA InlineKeepsAll ==
  ASSUME NEW w, Good(w), NEW a \in Seq(Byte), NEW r \in Seq(Byte)
  PROVE  KeepsAll(w, a \o r, write_inline(w, a), r)
<1> DEFINE v == write_inline(w, a)
<1>1. Good(v) /\ Spelled(v) = Spelled(w) \o a /\ v.total_size = w.total_size + Len(a)
  BY InlineSpelled
<1> HIDE DEF v
<1>2. KeepsAll(w, a \o r, v, r)
  BY <1>1, WrittenKeepsAll
<1>3. QED BY <1>2 DEF v

\* ... and those that are written as an object.
LEMMA ExternalKeepsAll ==
  ASSUME NEW w, Good(w), NEW a \in Seq(Byte), NEW r \in Seq(Byte)
  PROVE  KeepsAll(w, a \o r, write_external(w, a), r)
<1> DEFINE v == write_external(w, a)
<1>1. Good(v) /\ Spelled(v) = Spelled(w) \o a /\ v.total_size = w.total_size + Len(a)
  BY ExternalSpelled
<1> HIDE DEF v
<1>2. KeepsAll(w, a \o r, v, r)
  BY <1>1, WrittenKeepsAll
<1>3. QED BY <1>2 DEF v

\* The parts of an entry that is there as a whole.
LEMMA EntryParts ==
  ASSUME NEW rest \in Seq(Byte), NEW e \in Entry, Len(rest) >= BLOCK + Stored(e.size)
  PROVE  LET body == From(rest, BLOCK)
             n == Stored(e.size)
         IN  /\ rest = SubSeq(rest, 1, BLOCK) \o body
             /\ body = SubSeq(body, 1, n) \o From(body, n)
             /\ body = SubSeq(body, 1, e.size) \o (SubSeq(body, e.size + 1, n) \o From(body, n))
             /\ SubSeq(body, 1, n) \in Seq(Byte) /\ SubSeq(body, 1, e.size) \in Seq(Byte)
             /\ SubSeq(body, e.size + 1, n) \in Seq(Byte)
             /\ body \in Seq(Byte) /\ From(body, n) \in Seq(Byte) /\ Len(From(body, n)) < Len(rest)
<1> DEFINE n == Stored(e.size)
           m == e.size
           body == From(rest, BLOCK)
           after == From(body, m)
           rest2 == From(body, n)
<1>1. m \in Nat /\ n \in Nat /\ m <= n
  <2>1. m \in Nat
    BY DEF Entry
  <2> HIDE DEF m
  <2>2. QED BY <2>1, StoredSize DEF m
<1>2. BLOCK \in Nat /\ BLOCK > 0 /\ Len(rest) \in Nat /\ Len(rest) >= BLOCK + n
  BY Blocks
<1> HIDE DEF m, n
<1>3. BLOCK \in 0 .. Len(rest)
  BY <1>1, <1>2
<1>4. body \in Seq(Byte) /\ Len(body) = Len(rest) - BLOCK /\ rest = SubSeq(rest, 1, BLOCK) \o body
  BY <1>3, SubSeqFacts
<1> HIDE DEF body
<1>5. n \in 0 .. Len(body) /\ m \in 0 .. Len(body) /\ n - m \in 0 .. Len(body) - m
  BY <1>1, <1>2, <1>4
<1>6. /\ SubSeq(body, 1, n) \in Seq(Byte) /\ rest2 \in Seq(Byte) /\ Len(rest2) = Len(body) - n
      /\ body = SubSeq(body, 1, n) \o rest2
  BY <1>4, <1>5, SubSeqFacts
<1>7. /\ SubSeq(body, 1, m) \in Seq(Byte) /\ after \in Seq(Byte) /\ Len(after) = Len(body) - m
      /\ body = SubSeq(body, 1, m) \o after
  BY <1>4, <1>5, SubSeqFacts
<1>8. From(after, n - m) = rest2 /\ SubSeq(after, 1, n - m) = SubSeq(body, m + 1, n)
  <2>1. n - m \in Nat /\ m + (n - m) = n /\ n <= Len(body)
    BY <1>1, <1>5
  <2> DEFINE k == n - m
  <2>2. From(after, k) = From(body, m + k) /\ SubSeq(after, 1, k) = SubSeq(body, m + 1, m + k)
    <3> HIDE DEF k
    <3>1. k \in Nat /\ m + k <= Len(body)
      BY <2>1 DEF k
    <3>2. QED BY <1>1, <1>4, <3>1, FromFrom
  <2>3. QED BY <2>1, <2>2
<1> HIDE DEF after, rest2
<1>9. after = SubSeq(body, m + 1, n) \o rest2 /\ SubSeq(body, m + 1, n) \in Seq(Byte)
  <2>1. n - m \in 0 .. Len(after)
    BY <1>5, <1>7
  <2>2. /\ SubSeq(after, 1, n - m) \in Seq(Byte)
        /\ after = SubSeq(after, 1, n - m) \o From(after, n - m)
    BY <1>7, <2>1, SubSeqFacts
  <2>3. QED BY <1>8, <2>2
<1>10. Len(rest2) < Len(rest)
  BY <1>1, <1>2, <1>4, <1>6
<1>11. /\ rest = SubSeq(rest, 1, BLOCK) \o body /\ body = SubSeq(body, 1, n) \o rest2
       /\ body = SubSeq(body, 1, m) \o (SubSeq(body, m + 1, n) \o rest2)
  <2> DEFINE p == SubSeq(body, m + 1, n)
             b == SubSeq(body, 1, m)
  <2>1. after = p \o rest2 /\ body = b \o after
    BY <1>7, <1>9
  <2> HIDE DEF p, b
  <2>2. body = b \o (p \o rest2)
    BY <2>1
  <2>3. QED BY <1>4, <1>6, <2>2 DEF p, b
<1>12. QED BY <1>4, <1>6, <1>7, <1>9, <1>10, <1>11 DEF m, n, body, rest2

\* A turn of split moves a block of zeros, ...
LEMMA ZerosMoved ==
  ASSUME NEW rest \in Seq(Byte), NEW w, Good(w), Len(rest) >= BLOCK, SubSeq(rest, 1, BLOCK) = Fill(BLOCK)
  PROVE  /\ KeepsAll(w, rest, write_inline(w, Fill(BLOCK)), From(rest, BLOCK))
         /\ Len(From(rest, BLOCK)) < Len(rest)
<1> DEFINE a == Fill(BLOCK)
           rest2 == From(rest, BLOCK)
<1>1. BLOCK \in Nat /\ BLOCK > 0 /\ BLOCK \in 0 .. Len(rest) /\ Len(rest) \in Nat
  BY Blocks
<1>2. a \in Seq(Byte)
  BY <1>1, FillIs
<1>3. rest2 \in Seq(Byte) /\ Len(rest2) = Len(rest) - BLOCK /\ rest = a \o rest2
  BY <1>1, SubSeqFacts
<1> HIDE DEF a, rest2
<1>4. KeepsAll(w, a \o rest2, write_inline(w, a), rest2)
  BY <1>2, <1>3, InlineKeepsAll
<1>5. Len(rest2) < Len(rest)
  <2> DEFINE k == Len(rest2)
  <2>1. k = Len(rest) - BLOCK
    BY <1>3
  <2> HIDE DEF k
  <2>2. k < Len(rest)
    BY <1>1, <2>1
  <2>3. QED BY <2>2 DEF k
<1>6. KeepsAll(w, rest, write_inline(w, a), rest2)
  BY <1>3, <1>4
<1>7. QED BY <1>5, <1>6 DEF a, rest2

\* ... an entry that is stored inline, ...
LEMMA InlineMoved ==
  ASSUME NEW rest \in Seq(Byte), NEW w, Good(w), NEW e \in Entry, Len(rest) >= BLOCK + Stored(e.size),
         SubSeq(rest, 1, BLOCK) = HeaderBlock(e)
  PROVE  LET body == From(rest, BLOCK)
         IN  KeepsAll(w, rest, write_inline(write_inline(w, HeaderBlock(e)), SubSeq(body, 1, Stored(e.size))),
                      From(body, Stored(e.size)))
<1> DEFINE n == Stored(e.size)
           a == HeaderBlock(e)
           body == From(rest, BLOCK)
           b == SubSeq(body, 1, n)
           rest2 == From(body, n)
           v == write_inline(w, a)
           u == write_inline(v, b)
<1>1. /\ rest = a \o body /\ body = b \o rest2 /\ b \in Seq(Byte)
      /\ body \in Seq(Byte) /\ rest2 \in Seq(Byte)
  BY EntryParts
<1>2. a \in Seq(Byte)
  BY HeaderIs
<1> HIDE DEF n, a, b, body, rest2
<1>3. KeepsAll(w, a \o body, v, body)
  BY <1>1, <1>2, InlineKeepsAll
<1> HIDE DEF v
<1>4. KeepsAll(v, b \o rest2, u, rest2)
  <2>1. Good(v)
    BY <1>3 DEF KeepsAll
  <2>2. QED BY <1>1, <2>1, InlineKeepsAll
<1> HIDE DEF u
<1>5. KeepsAll(w, rest, v, body) /\ KeepsAll(v, body, u, rest2)
  BY <1>1, <1>3, <1>4
<1>6. KeepsAll(w, rest, u, rest2)
  BY <1>5 DEF KeepsAll
<1>7. QED BY <1>6 DEF u, v, a, b, rest2, body, n

\* ... and a large file with its header and padding.
LEMMA LargeMoved ==
  ASSUME NEW rest \in Seq(Byte), NEW w, Good(w), NEW e \in Entry, Len(rest) >= BLOCK + Stored(e.size),
         SubSeq(rest, 1, BLOCK) = HeaderBlock(e)
  PROVE  LET body == From(rest, BLOCK)
         IN  KeepsAll(w, rest,
               write_inline(write_external(write_inline(w, HeaderBlock(e)), SubSeq(body, 1, e.size)),
                            SubSeq(body, e.size + 1, Stored(e.size))),
               From(body, Stored(e.size)))
<1> DEFINE n == Stored(e.size)
           a == HeaderBlock(e)
           body == From(rest, BLOCK)
           b == SubSeq(body, 1, e.size)
           p == SubSeq(body, e.size + 1, n)
           rest2 == From(body, n)
           v == write_inline(w, a)
           x == write_external(v, b)
           u == write_inline(x, p)
<1>1. /\ rest = a \o body /\ body = b \o (p \o rest2) /\ b \in Seq(Byte) /\ p \in Seq(Byte)
      /\ body \in Seq(Byte) /\ rest2 \in Seq(Byte)
  BY EntryParts
<1>2. a \in Seq(Byte)
  BY HeaderIs
<1> HIDE DEF n, a, b, p, body, rest2
<1>3. KeepsAll(w, a \o body, v, body)
  BY <1>1, <1>2, InlineKeepsAll
<1> HIDE DEF v
<1> DEFINE after == p \o rest2
<1>4. after \in Seq(Byte)
  BY <1>1
<1> HIDE DEF after
<1>5. KeepsAll(v, b \o after, x, after)
  <2>1. Good(v)
    BY <1>3 DEF KeepsAll
  <2>2. QED BY <1>1, <1>4, <2>1, ExternalKeepsAll
<1> HIDE DEF x
<1>6. KeepsAll(x, p \o rest2, u, rest2)
  <2>1. Good(x)
    BY <1>5 DEF KeepsAll
  <2>2. QED BY <1>1, <2>1, InlineKeepsAll
<1> HIDE DEF u
<1>7. KeepsAll(w, rest, v, body) /\ KeepsAll(v, body, x, after) /\ KeepsAll(x, after, u, rest2)
  BY <1>1, <1>3, <1>5, <1>6 DEF after
<1>8. KeepsAll(w, rest, u, rest2)
  BY <1>7 DEF KeepsAll
<1>9. QED BY <1>8 DEF u, x, v, a, b, p, rest2, body, n

\* One turn before the end fails, or moves on.
LEMMA TurnMoved ==
  ASSUME NEW rest \in Seq(Byte), rest # <<>>, NEW w, Good(w)
  PROVE  \/ SplitEntry(At(rest, w)).failed
         \/ \E rest2, w2 : /\ SplitEntry(At(rest, w)) = At(rest2, w2)
                            /\ KeepsAll(w, rest, w2, rest2) /\ Len(rest2) < Len(rest)
<1> DEFINE s == At(rest, w)
           block == SubSeq(rest, 1, BLOCK)
           body == From(rest, BLOCK)
<1>1. s.rest = rest /\ s.writer = w /\ s.failed = FALSE /\ [s EXCEPT !.failed = TRUE].failed
  BY DEF At
<1>2. BLOCK \in Nat /\ BLOCK > 0 /\ Len(rest) \in Nat
  BY Blocks
<1>3. CASE Len(rest) < BLOCK
  <2>1. SplitEntry(s) = [s EXCEPT !.failed = TRUE]
    <3> HIDE DEF s
    <3>1. QED BY <1>1, <1>3 DEF SplitEntry
  <2>2. QED BY <1>1, <2>1
<1>4. CASE Len(rest) >= BLOCK /\ block = Fill(BLOCK)
  <2>1. SplitEntry(s) = At(body, write_inline(w, Fill(BLOCK)))
    BY <1>4, TurnOfZeros
  <2>2. KeepsAll(w, rest, write_inline(w, Fill(BLOCK)), body) /\ Len(body) < Len(rest)
    BY <1>4, ZerosMoved
  <2>3. QED BY <2>1, <2>2
<1>5. CASE Len(rest) >= BLOCK /\ block # Fill(BLOCK) /\ ~IsHeader(block)
  <2>1. SplitEntry(s) = [s EXCEPT !.failed = TRUE]
    <3>1. ~(Len(rest) < BLOCK)
      BY <1>2, <1>5
    <3> HIDE DEF s
    <3>2. QED BY <1>1, <1>5, <3>1 DEF SplitEntry
  <2>2. QED BY <1>1, <2>1
<1>6. CASE Len(rest) >= BLOCK /\ block # Fill(BLOCK) /\ IsHeader(block)
  <2>1. PICK e \in Entry : block = HeaderBlock(e)
    <3>1. block \in Seq(Byte) /\ Len(block) = BLOCK
      BY <1>2, <1>6, SubSeqFacts
    <3> HIDE DEF block
    <3>2. block[1] \in Byte
      BY <1>2, <3>1
    <3>3. block[1][2] \in Texts("type") /\ block[1][3] \in Texts("name") /\ block[1][4] \in Nat
      BY <3>2 DEF Byte
    <3>4. PICK e \in [type : {block[1][2]}, name : {block[1][3]}, size : {block[1][4]}] : block = HeaderBlock(e)
      BY <1>6 DEF IsHeader
    <3>5. e \in Entry
      BY <3>3, <3>4 DEF Entry
    <3>6. QED BY <3>4, <3>5
  <2> DEFINE n == Stored(e.size)
  <2>2. Headers(block) = {e} /\ n \in Nat /\ Len(body) = Len(rest) - BLOCK
    <3>1. Headers(block) = {e}
      BY <2>1, HeaderIs
    <3>2. n \in Nat
      BY StoredSize DEF Entry
    <3>3. BLOCK \in 0 .. Len(rest)
      BY <1>2, <1>6
    <3>4. Len(body) = Len(rest) - BLOCK
      BY <3>3, SubSeqFacts
    <3>5. QED BY <3>1, <3>2, <3>4
  <2>3. CASE Len(rest) < BLOCK + n
    <3>1. Len(body) < n /\ ~(Len(rest) < BLOCK)
      BY <1>2, <1>6, <2>2, <2>3
    <3> DEFINE h == CHOOSE x \in Headers(block) : TRUE
    <3>2. h = e
      BY <2>2
    <3>3. Len(body) < Stored(h.size)
      BY <3>1, <3>2
    <3>4. SplitEntry(s) = [s EXCEPT !.failed = TRUE]
      <4> DEFINE block0 == SubSeq(s.rest, 1, BLOCK)
                 body0 == From(s.rest, BLOCK)
                 h0 == CHOOSE x \in Headers(block0) : TRUE
                 w0 == write_inline(s.writer, block0)
                 stored == Stored(h0.size)
                 u0 == IF IsLarge(h0)
                       THEN write_inline(write_external(w0, SubSeq(body0, 1, h0.size)),
                                         SubSeq(body0, h0.size + 1, stored))
                       ELSE write_inline(w0, SubSeq(body0, 1, stored))
      <4>1. SplitEntry(s) =
              IF s.failed \/ s.rest = <<>> THEN s
              ELSE IF Len(s.rest) < BLOCK THEN [s EXCEPT !.failed = TRUE]
              ELSE IF block0 = Fill(BLOCK) THEN Moved(s, From(body0, 0), w0)
              ELSE IF ~IsHeader(block0) \/ Len(body0) < stored THEN [s EXCEPT !.failed = TRUE]
              ELSE Moved(s, From(body0, stored), u0)
        BY DEF SplitEntry, Moved
      <4>2. block0 = block /\ body0 = body
        BY <1>1
      <4> HIDE DEF body0, s, block, body, w0, u0
      <4>3. stored = Stored(h.size)
        BY <4>2
      <4> HIDE DEF block0, stored, h
      <4>4. QED BY <1>1, <1>6, <3>1, <3>3, <4>1, <4>2, <4>3
    <3>5. QED BY <1>1, <3>4
  <2>4. CASE Len(rest) >= BLOCK + n
    <3> DEFINE v == write_inline(w, HeaderBlock(e))
               large == write_inline(write_external(v, SubSeq(body, 1, e.size)), SubSeq(body, e.size + 1, n))
               small == write_inline(v, SubSeq(body, 1, n))
               rest2 == From(body, n)
    <3>1. SplitEntry(s) = At(rest2, IF IsLarge(e) THEN large ELSE small)
      BY <2>1, <2>4, TurnOfEntry
    <3>2. KeepsAll(w, rest, large, rest2)
      BY <2>1, <2>4, LargeMoved
    <3>3. KeepsAll(w, rest, small, rest2)
      BY <2>1, <2>4, InlineMoved
    <3>4. Len(rest2) < Len(rest)
      BY <2>4, EntryParts
    <3> HIDE DEF rest2, large, small, s
    <3>5. CASE IsLarge(e)
      BY <3>1, <3>2, <3>4, <3>5 DEF s
    <3>6. CASE ~IsLarge(e)
      BY <3>1, <3>3, <3>4, <3>6 DEF s
    <3>7. QED BY <3>5, <3>6
  <2>5. Len(rest) < BLOCK + n \/ Len(rest) >= BLOCK + n
    BY <1>2, <2>2
  <2>6. QED BY <2>3, <2>4, <2>5
<1>7. QED BY <1>2, <1>3, <1>4, <1>5, <1>6

\* What split has come to after i turns.
Faithful(s, bytes, i) ==
  \/ s.failed
  \/ \E rest \in Seq(Byte) : \E w :
       /\ s = At(rest, w) /\ Good(w) /\ Spelled(w) \o rest = bytes
       /\ w.total_size + Len(rest) = Len(bytes)
       /\ rest = <<>> \/ Len(rest) <= Len(bytes) - i

\* At the start everything is unread.
LEMMA StartFaithful ==
  ASSUME NEW bytes \in Seq(Byte)
  PROVE  Faithful(StartOf(bytes), bytes, 0)
<1> DEFINE w == NewWriter
<1>1. /\ w \in Writer /\ w.chunks = <<>> /\ w.object_refs = <<>> /\ w.inline_buffer = <<>>
      /\ w.total_size = 0
  BY NewWriterIs DEF NewWriter
<1> HIDE DEF w
<1>2. Good(w)
  BY <1>1 DEF Good, Refers
<1>3. Spelled(w) = <<>>
  <2> DEFINE none == [i \in DOMAIN w.chunks |-> Spells(w.chunks[i], w.object_refs)]
  <2>1. none = <<>>
    BY <1>1
  <2>2. SpelledBy(w.chunks, w.object_refs) = FlattenSeq(none)
    BY DEF SpelledBy
  <2> HIDE DEF none
  <2>3. FlattenSeq(none) = <<>>
    BY <2>1 DEF FlattenSeq
  <2>4. QED BY <1>1, <2>2, <2>3 DEF Spelled
<1>4. Spelled(w) \o bytes = bytes
  BY <1>3, ConcatEmptySeq
<1>5. StartOf(bytes) = At(bytes, w) /\ w.total_size + Len(bytes) = Len(bytes) /\ Len(bytes) <= Len(bytes) - 0
  BY <1>1 DEF StartOf, At, w
<1>6. QED BY <1>2, <1>4, <1>5 DEF Faithful

\* A turn keeps what was read.
LEMMA TurnFaithful ==
  ASSUME NEW bytes \in Seq(Byte), NEW s, NEW i \in Nat \ {0}, Faithful(s, bytes, i - 1)
  PROVE  Faithful(SplitEntry(s), bytes, i)
<1>1. CASE s.failed
  <2>1. SplitEntry(s) = s
    BY <1>1 DEF SplitEntry
  <2>2. QED BY <1>1, <2>1 DEF Faithful
<1>2. CASE ~s.failed
  <2>1. PICK rest \in Seq(Byte) : \E w :
          /\ s = At(rest, w) /\ Good(w) /\ Spelled(w) \o rest = bytes
          /\ w.total_size + Len(rest) = Len(bytes)
          /\ rest = <<>> \/ Len(rest) <= Len(bytes) - (i - 1)
    BY <1>2 DEF Faithful
  <2>2. PICK w :
          /\ s = At(rest, w) /\ Good(w) /\ Spelled(w) \o rest = bytes
          /\ w.total_size + Len(rest) = Len(bytes)
          /\ rest = <<>> \/ Len(rest) <= Len(bytes) - (i - 1)
    BY <2>1
  <2>3. CASE rest = <<>>
    <3>1. s.rest = <<>>
      BY <2>2, <2>3 DEF At
    <3>2. SplitEntry(s) = s
      BY <3>1 DEF SplitEntry
    <3>3. QED BY <2>2, <2>3, <3>2 DEF Faithful
  <2>4. CASE rest # <<>>
    <3>1. CASE SplitEntry(s).failed
      BY <3>1 DEF Faithful
    <3>2. CASE ~SplitEntry(s).failed
      <4>1. PICK rest2, w2 : /\ SplitEntry(s) = At(rest2, w2)
                             /\ KeepsAll(w, rest, w2, rest2) /\ Len(rest2) < Len(rest)
        BY <2>2, <2>4, <3>2, TurnMoved
      <4>2. /\ rest2 \in Seq(Byte) /\ Good(w2) /\ Spelled(w2) \o rest2 = bytes
            /\ w2.total_size + Len(rest2) = Len(bytes) /\ Len(rest2) < Len(rest)
        BY <2>2, <4>1 DEF KeepsAll
      <4>3. Len(rest) \in Nat /\ Len(rest2) \in Nat /\ Len(bytes) \in Nat
        BY <4>2
      <4>4. Len(rest2) <= Len(bytes) - i
        BY <2>2, <2>4, <4>2, <4>3
      <4>5. QED BY <4>1, <4>2, <4>4 DEF Faithful
    <3>3. QED BY <3>1, <3>2
  <2>5. QED BY <2>3, <2>4
<1>3. QED BY <1>1, <1>2

\* cat of a file gives what its writer stands for.
LEMMA MergedIs ==
  ASSUME NEW w, Good(w)
  PROVE  Merged(done(w)) = Spelled(w) /\ done(w).total_size = w.total_size
<1> DEFINE v == flush_inline(w)
           f == done(w)
<1>1. Good(v) /\ Spelled(v) = Spelled(w) /\ v.inline_buffer = <<>> /\ v.total_size = w.total_size
  BY FlushSpelled
<1>2. f = [object_refs |-> v.object_refs, chunks |-> v.chunks, total_size |-> v.total_size]
  BY DEF done
<1> HIDE DEF v, f
<1>3. SpelledBy(v.chunks, v.object_refs) \in Seq(Byte)
  BY <1>1, SpelledTyped
<1>4. f.object_refs = v.object_refs /\ f.chunks = v.chunks /\ f.total_size = v.total_size
  BY <1>2
<1>5. Merged(f) = SpelledBy(f.chunks, f.object_refs)
  BY DEF Merged, SpelledBy, Spells
<1>6. Spelled(v) = SpelledBy(v.chunks, v.object_refs)
  <2> DEFINE b == SpelledBy(v.chunks, v.object_refs)
  <2>1. Spelled(v) = b \o <<>>
    BY <1>1 DEF Spelled
  <2> HIDE DEF b
  <2>2. QED BY <1>3, <2>1, ConcatEmptySeq DEF b
<1>7. QED BY <1>1, <1>4, <1>5, <1>6 DEF f

\* split loses nothing: if it accepts some bytes, whatever they are, then what it
\* writes merges to these bytes again and its header tells their number.
THEOREM SplitMerges ==
  ASSUME NEW bytes \in Seq(Byte), ~split(bytes).failed
  PROVE  Merged(split(bytes).file) = bytes /\ split(bytes).file.total_size = Len(bytes)
<1> DEFINE n == Len(bytes)
<1>1. n \in Nat
  OBVIOUS
<1>2. PICK turn : Turns(turn, bytes, n)
  BY <1>1, TurnSteps
<1> DEFINE G == {i \in 0 .. n : Faithful(turn[i], bytes, i)}
<1>3. 0 \in G
  BY <1>1, <1>2, StartFaithful DEF Turns
<1>4. ASSUME NEW i \in 1 .. n, i - 1 \in G PROVE i \in G
  <2>1. turn[i] = SplitEntry(turn[i - 1]) /\ Faithful(turn[i - 1], bytes, i - 1)
    BY <1>2, <1>4 DEF Turns
  <2>2. i \in Nat \ {0} /\ i \in 0 .. n
    BY <1>1
  <2>3. Faithful(SplitEntry(turn[i - 1]), bytes, i)
    BY <2>1, <2>2, TurnFaithful
  <2>4. QED BY <2>1, <2>2, <2>3
<1>5. 0 .. n \subseteq G
  <2> HIDE DEF G, n
  <2>1. QED BY <1>1, <1>3, <1>4, IndexInduction
<1>6. Faithful(turn[n], bytes, n)
  BY <1>1, <1>5
<1> HIDE DEF G, n
<1>7. split(bytes) = [failed |-> turn[n].failed, file |-> done(turn[n].writer)]
  BY <1>2 DEF Turns
<1>8. ~turn[n].failed /\ split(bytes).file = done(turn[n].writer)
  BY <1>7
<1>9. PICK rest \in Seq(Byte) : \E w :
        /\ turn[n] = At(rest, w) /\ Good(w) /\ Spelled(w) \o rest = bytes
        /\ w.total_size + Len(rest) = Len(bytes)
        /\ rest = <<>> \/ Len(rest) <= Len(bytes) - n
  BY <1>6, <1>8 DEF Faithful
<1>10. PICK w :
        /\ turn[n] = At(rest, w) /\ Good(w) /\ Spelled(w) \o rest = bytes
        /\ w.total_size + Len(rest) = Len(bytes)
        /\ rest = <<>> \/ Len(rest) <= Len(bytes) - n
  BY <1>9
<1>11. rest = <<>>
  BY <1>1, <1>10 DEF n
<1>12. Spelled(w) \in Seq(Byte) /\ w.total_size \in Nat
  BY <1>10, SpelledTyped
<1>13. Spelled(w) = bytes /\ w.total_size = Len(bytes)
  <2>1. Spelled(w) \o <<>> = Spelled(w)
    BY <1>12, ConcatEmptySeq
  <2>2. QED BY <1>10, <1>11, <1>12, <2>1
<1>14. turn[n].writer = w
  BY <1>10 DEF At
<1>15. QED BY <1>8, <1>10, <1>13, <1>14, MergedIs

\* The invariant says what StoredMerge does.
LEMMA FindsBytes == IInv => StoredMerge
<1>1. SUFFICES ASSUME IInv, NEW l \in Layer, layer[l].pc = "stored" PROVE MergesBack(l)
  BY DEF StoredMerge
<1>2. LayerTyped(Input(l), layer[l], tasks[l]) /\ WellStored(Input(l), layer[l], objects)
  BY <1>1 DEF IInv, LayersOk, LayerOk
<1>3. Input(l) \in Seq(Byte) /\ ~split(Input(l)).failed /\ layer[l].file = split(Input(l)).file
  BY <1>1, <1>2 DEF LayerTyped, WellStored
<1>4. QED BY <1>3, SplitMerges DEF MergesBack

\* Every stream that an import stores merges to the archive that it has read.
THEOREM StoredStreamsMerge == Spec => []StoredMerge
BY Invariance, FindsBytes, PTL

-------------------------------------------------------------------------------
(* Reading back: what a writer had written, and a reader of the file has read *)

\* s is the beginning of t.
Begins(s, t) == Len(s) <= Len(t) /\ \A i \in 1 .. Len(s) : t[i] = s[i]

IsFile(f) == f.chunks \in Seq(Chunk) /\ f.object_refs \in Seq(Seq(Byte))

\* What a writer has written is the beginning of a file; what it holds, that of its next chunk.
WrittenInto(w, f) ==
  /\ Begins(w.chunks, f.chunks) /\ Begins(w.object_refs, f.object_refs)
  /\ w.inline_buffer # <<>> =>
       /\ Len(w.chunks) < Len(f.chunks)
       /\ f.chunks[Len(w.chunks) + 1].n = -Len(f.chunks[Len(w.chunks) + 1].data)
       /\ Begins(w.inline_buffer, f.chunks[Len(w.chunks) + 1].data)

ReaderAt(f, next, bytes) == [file |-> f, next |-> next, inline_bytes |-> bytes]

\* A reader of a file has read what a writer had written.
Reads(r, w, f) ==
  IF w.inline_buffer = <<>> THEN r = ReaderAt(f, Len(w.chunks) + 1, 0)
  ELSE r = ReaderAt(f, Len(w.chunks) + 2, Len(f.chunks[Len(w.chunks) + 1].data) - Len(w.inline_buffer))

\* What begins with more begins with less.
LEMMA BeginsShorter ==
  ASSUME NEW X, NEW s \in Seq(X), NEW a \in Seq(X), NEW t \in Seq(X), Begins(s \o a, t)
  PROVE  /\ Begins(s, t) /\ Len(s) + Len(a) <= Len(t)
         /\ \A i \in 1 .. Len(a) : t[Len(s) + i] = a[i]
<1> DEFINE c == s \o a
<1>1. /\ Len(s) \in Nat /\ Len(a) \in Nat /\ Len(t) \in Nat /\ Len(c) = Len(s) + Len(a)
      /\ \A i \in 1 .. Len(s) : c[i] = s[i]
      /\ \A i \in 1 .. Len(a) : c[Len(s) + i] = a[i]
  OBVIOUS
<1>2. Len(c) <= Len(t) /\ \A i \in 1 .. Len(c) : t[i] = c[i]
  BY DEF Begins
<1> HIDE DEF c
<1>3. /\ \A i \in 1 .. Len(s) : i \in 1 .. Len(c)
      /\ \A i \in 1 .. Len(a) : Len(s) + i \in 1 .. Len(c)
  BY <1>1
<1>4. Len(s) <= Len(t) /\ Len(s) + Len(a) <= Len(t)
  BY <1>1, <1>2
<1>5. /\ \A i \in 1 .. Len(s) : t[i] = s[i]
      /\ \A i \in 1 .. Len(a) : t[Len(s) + i] = a[i]
  BY <1>1, <1>2, <1>3
<1>6. QED BY <1>4, <1>5 DEF Begins

\* The same for one element.
LEMMA BeginsLess ==
  ASSUME NEW X, NEW s \in Seq(X), NEW x \in X, NEW t \in Seq(X), Begins(Append(s, x), t)
  PROVE  /\ Begins(s, t) /\ Len(s) < Len(t) /\ t[Len(s) + 1] = x
<1> DEFINE c == Append(s, x)
<1>1. /\ Len(s) \in Nat /\ Len(t) \in Nat /\ Len(c) = Len(s) + 1 /\ c[Len(s) + 1] = x
      /\ \A i \in 1 .. Len(s) : c[i] = s[i]
  OBVIOUS
<1>2. Len(c) <= Len(t) /\ \A i \in 1 .. Len(c) : t[i] = c[i]
  BY DEF Begins
<1> HIDE DEF c
<1>3. Len(s) + 1 \in 1 .. Len(c) /\ \A i \in 1 .. Len(s) : i \in 1 .. Len(c)
  BY <1>1
<1>4. Len(s) <= Len(t) /\ Len(s) < Len(t)
  BY <1>1, <1>2
<1>5. t[Len(s) + 1] = x /\ \A i \in 1 .. Len(s) : t[i] = s[i]
  BY <1>1, <1>2, <1>3
<1>6. QED BY <1>4, <1>5 DEF Begins

\* A writer that wrote inline bytes into a file had written less of it before.
LEMMA InlineInto ==
  ASSUME NEW f, IsFile(f), NEW w \in Writer, NEW a \in Seq(Byte), WrittenInto(write_inline(w, a), f)
  PROVE  /\ WrittenInto(w, f)
         /\ a # <<>> => /\ Len(w.chunks) < Len(f.chunks)
                        /\ f.chunks[Len(w.chunks) + 1].n = -Len(f.chunks[Len(w.chunks) + 1].data)
                        /\ Len(w.inline_buffer) + Len(a) <= Len(f.chunks[Len(w.chunks) + 1].data)
                        /\ \A i \in 1 .. Len(a) :
                             f.chunks[Len(w.chunks) + 1].data[Len(w.inline_buffer) + i] = a[i]
<1> DEFINE v == write_inline(w, a)
           k == Len(w.chunks) + 1
           data == f.chunks[k].data
           buf == w.inline_buffer
<1>1. v.chunks = w.chunks /\ v.inline_buffer = buf \o a /\ v.object_refs = w.object_refs
  <2>1. v = [chunks |-> w.chunks, inline_buffer |-> buf \o a, object_refs |-> w.object_refs,
             total_size |-> w.total_size + Len(a)]
    BY InlineIs
  <2> HIDE DEF v
  <2>2. QED BY <2>1
<1> HIDE DEF v
<1>2. /\ Begins(w.chunks, f.chunks) /\ Begins(w.object_refs, f.object_refs)
      /\ buf \o a # <<>> => Len(w.chunks) < Len(f.chunks) /\ f.chunks[k].n = -Len(data) /\ Begins(buf \o a, data)
  BY <1>1 DEF WrittenInto, v
<1>3. buf \in Seq(Byte) /\ w.chunks \in Seq(Chunk) /\ Len(w.chunks) \in Nat
  BY DEF Writer
<1>4. buf \o a = <<>> => buf = <<>> /\ a = <<>>
  BY <1>3, ConcatEqualIffEmpty
<1>5. ASSUME buf \o a # <<>>
      PROVE  Begins(buf, data) /\ Len(buf) + Len(a) <= Len(data) /\ \A i \in 1 .. Len(a) : data[Len(buf) + i] = a[i]
  <2>1. f.chunks \in Seq(Chunk) /\ k \in 1 .. Len(f.chunks)
    BY <1>2, <1>3, <1>5 DEF IsFile
  <2>2. f.chunks[k] \in Chunk
    BY <2>1, ElementOfSeq
  <2>3. data \in Seq(Byte)
    BY <2>2 DEF Chunk
  <2> HIDE DEF data, buf
  <2>4. QED BY <1>2, <1>3, <1>5, <2>3, BeginsShorter
<1>6. WrittenInto(w, f)
  BY <1>2, <1>4, <1>5 DEF WrittenInto
<1>7. QED BY <1>2, <1>4, <1>5, <1>6

\* A reader that asks for m bytes finds those of a, and is then where the writer was.
ReadsInline(r, w, a, f, m, eof_ok, ext_ok) ==
  \E c : /\ ensure_chunk(r, eof_ok, ext_ok, m) = Inline(c)
         /\ \A j \in 0 .. m : Bytes(c, j) = SubSeq(a, 1, j)
         /\ Reads(Skip(c, m), write_inline(w, SubSeq(a, 1, m)), f)

\* Where inline bytes were written a reader finds them, and is where the writer was when it
\* has read as many of them as it asks for.
LEMMA InlineRead ==
  ASSUME NEW f, IsFile(f), NEW w \in Writer, NEW a \in Seq(Byte), a # <<>>,
         WrittenInto(write_inline(w, a), f), NEW r, Reads(r, w, f),
         NEW m \in 0 .. Len(a), m # 0 \/ w.inline_buffer # <<>>,
         NEW eof_ok, NEW ext_ok
  PROVE  ReadsInline(r, w, a, f, m, eof_ok, ext_ok)
<1> DEFINE k == Len(w.chunks) + 1
           chunk == f.chunks[k]
           data == chunk.data
           buf == w.inline_buffer
           b == Len(buf)
           c == ReaderAt(f, k + 1, Len(data) - b)
           d == SubSeq(a, 1, m)
           v == write_inline(w, d)
<1>1. buf \in Seq(Byte) /\ w.chunks \in Seq(Chunk) /\ k \in Nat \ {0} /\ b \in Nat /\ Len(a) \in Nat \ {0} /\ m \in Nat
  BY EmptySeq DEF Writer
<1>2. /\ k <= Len(f.chunks) /\ chunk.n = -Len(data) /\ b + Len(a) <= Len(data)
      /\ \A i \in 1 .. Len(a) : data[b + i] = a[i]
  <2>1. Len(w.chunks) < Len(f.chunks) /\ Len(w.chunks) \in Nat /\ Len(f.chunks) \in Nat
    BY <1>1, InlineInto DEF IsFile
  <2>2. QED BY <2>1, InlineInto
<1>3. data \in Seq(Byte) /\ Len(data) \in Nat
  <2>1. f.chunks \in Seq(Chunk) /\ k \in 1 .. Len(f.chunks)
    BY <1>1, <1>2 DEF IsFile
  <2>2. chunk \in Chunk
    BY <2>1, ElementOfSeq
  <2>3. data \in Seq(Byte)
    BY <2>2 DEF Chunk
  <2>4. QED BY <2>3
<1>4. ensure_chunk(r, eof_ok, ext_ok, m) = Inline(c)
  <2>1. ~(Len(data) - b < m) /\ Len(data) - b # 0 /\ chunk.n < 0 /\ -chunk.n = Len(data)
    <3> DEFINE n == chunk.n
               x == Len(data)
    <3>1. n = -x /\ x \in Nat /\ b + Len(a) <= x
      BY <1>2, <1>3
    <3> HIDE DEF n, x, b
    <3>2. ~(x - b < m) /\ x - b # 0 /\ n < 0 /\ -n = x
      BY <1>1, <3>1
    <3>3. QED BY <3>2 DEF n, x
  <2>2. CASE buf # <<>>
    <3>1. r = c
      <4>1. Len(w.chunks) + 2 = k + 1
        BY <1>1
      <4>2. QED BY <2>2, <4>1 DEF Reads
    <3>2. c.inline_bytes = Len(data) - b
      BY DEF ReaderAt
    <3> HIDE DEF c, data, b
    <3>3. r.inline_bytes # 0 /\ ~(r.inline_bytes < m)
      BY <2>1, <3>1, <3>2
    <3>4. ensure_chunk(r, eof_ok, ext_ok, m) = Inline(r)
      BY <3>3 DEF ensure_chunk
    <3>5. QED BY <3>1, <3>4
  <2>3. CASE buf = <<>>
    <3>1. r = ReaderAt(f, k, 0) /\ b = 0
      BY <2>3 DEF Reads
    <3>2. r.inline_bytes = 0 /\ r.next = k /\ r.file = f /\ ~(r.next > Len(f.chunks))
      <4>1. Len(f.chunks) \in Nat
        BY DEF IsFile
      <4>2. QED BY <1>1, <1>2, <3>1, <4>1 DEF ReaderAt
    <3> DEFINE after == [r EXCEPT !.next = @ + 1]
               s == [after EXCEPT !.inline_bytes = -chunk.n]
    <3>3. s = ReaderAt(f, k + 1, -chunk.n)
      <4> DEFINE size == -chunk.n
      <4> HIDE DEF size, k
      <4>1. after = ReaderAt(f, k + 1, 0)
        BY <3>1 DEF ReaderAt
      <4> HIDE DEF after
      <4>2. [after EXCEPT !.inline_bytes = size] = ReaderAt(f, k + 1, size)
        BY <4>1 DEF ReaderAt
      <4>3. QED BY <4>2 DEF size
    <3>4. s = c
      <4>1. -chunk.n = Len(data) - b
        <5> HIDE DEF chunk, data, b
        <5>1. QED BY <1>3, <2>1, <3>1
      <4> HIDE DEF s
      <4>2. QED BY <3>3, <4>1
    <3>5. s.inline_bytes = Len(data) - b
      BY <3>4 DEF ReaderAt
    <3>6. ensure_chunk(r, eof_ok, ext_ok, m) = IF s.inline_bytes < m THEN Failed ELSE Inline(s)
      <4>1. r.file.chunks[r.next] = chunk
        BY <3>2
      <4> DEFINE n == r.file.chunks[r.next].n
                 Of(x) == IF x.inline_bytes < m THEN Failed ELSE Inline(x)
                 t == [after EXCEPT !.inline_bytes = -n]
      <4>2. n = chunk.n
        BY <4>1
      <4>3. t = s
        <5> HIDE DEF n, after, chunk
        <5>1. QED BY <4>2
      <4>4. ensure_chunk(r, eof_ok, ext_ok, m) =
              IF r.inline_bytes # 0 THEN Of(r)
              ELSE IF r.next > Len(r.file.chunks) THEN IF eof_ok THEN AtEof(r) ELSE Failed
              ELSE IF n < 0 THEN Of(t)
              ELSE IF ext_ok /\ n < Len(r.file.object_refs) THEN External(after, r.file.object_refs[n + 1])
              ELSE Failed
        BY DEF ensure_chunk
      <4>5. n < 0 /\ ~(r.next > Len(r.file.chunks))
        BY <2>1, <3>2, <4>2
      <4> HIDE DEF n, after, s, t, Of
      <4>6. ensure_chunk(r, eof_ok, ext_ok, m) = Of(t)
        BY <3>2, <4>4, <4>5
      <4>7. QED BY <4>3, <4>6 DEF Of
    <3> HIDE DEF s, c, data, b, chunk
    <3>7. ~(s.inline_bytes < m)
      BY <2>1, <3>5
    <3>8. QED BY <3>4, <3>6, <3>7
  <2>4. QED BY <2>2, <2>3
<1>5. ASSUME NEW j \in 0 .. m PROVE Bytes(c, j) = SubSeq(a, 1, j)
  <2>1. CASE j = 0
    <3>1. SubSeq(a, 1, 0) = <<>>
      BY SubSeqEmpty
    <3>2. QED BY <2>1, <3>1 DEF Bytes
  <2>2. CASE j # 0
    <3> DEFINE from == Len(data) - (Len(data) - b) + 1
               to == Len(data) - (Len(data) - b) + j
    <3>1. c.file.chunks[c.next - 1].data = data /\ c.inline_bytes = Len(data) - b
      <4>1. c.file = f /\ c.next = k + 1 /\ (k + 1) - 1 = k /\ c.inline_bytes = Len(data) - b
        BY <1>1 DEF ReaderAt
      <4>2. c.file.chunks[c.next - 1] = f.chunks[k]
        BY <4>1
      <4>3. QED BY <4>1, <4>2
    <3>2. Bytes(c, j) = SubSeq(data, from, to)
      <4> HIDE DEF c, data, b
      <4>1. QED BY <2>2, <3>1 DEF Bytes
    <3>3. from = b + 1 /\ to = b + j
      <4> HIDE DEF data, b
      <4>1. QED BY <1>1, <1>3
    <3> DEFINE x == SubSeq(data, b + 1, b + j)
               y == SubSeq(a, 1, j)
    <3>4. j \in Nat /\ j <= Len(a) /\ b + j <= Len(data) /\ j >= 1
      <4> HIDE DEF data, b
      <4>1. QED BY <1>1, <1>2, <1>3, <2>2
    <3>5. x \in Seq(Byte) /\ Len(x) = j /\ \A i \in 1 .. j : x[i] = data[b + i]
      <4> HIDE DEF data, b
      <4>1. QED BY <1>1, <1>3, <3>4
    <3>6. y \in Seq(Byte) /\ Len(y) = j /\ \A i \in 1 .. j : y[i] = a[i]
      BY <1>1, <3>4
    <3>7. \A i \in 1 .. j : i \in 1 .. Len(a)
      BY <1>1, <3>4
    <3> HIDE DEF x, y, data, b
    <3>8. \A i \in 1 .. j : x[i] = y[i]
      BY <1>2, <3>5, <3>6, <3>7
    <3>9. x = y
      BY <3>5, <3>6, <3>8, SeqEqual
    <3>10. QED BY <3>2, <3>3, <3>9 DEF x, y
  <2>3. QED BY <2>1, <2>2
<1>6. Reads(Skip(c, m), v, f)
  <2>1. d \in Seq(Byte) /\ Len(d) = m
    BY <1>1
  <2> HIDE DEF d
  <2>2. v.chunks = w.chunks /\ v.inline_buffer = buf \o d
    <3>1. v = [chunks |-> w.chunks, inline_buffer |-> buf \o d, object_refs |-> w.object_refs,
               total_size |-> w.total_size + Len(d)]
      BY InlineIs
    <3> HIDE DEF v
    <3>2. QED BY <3>1
  <2>3. Len(buf \o d) = b + m /\ buf \o d # <<>>
    <3>1. Len(buf \o d) = b + m
      <4> HIDE DEF buf
      <4>1. QED BY <1>1, <2>1, ConcatProperties
    <3>2. b + m # 0
      <4>1. b = 0 => buf = <<>>
        BY <1>1
      <4>2. m # 0 \/ b # 0
        BY <4>1
      <4> HIDE DEF b
      <4>3. QED BY <1>1, <4>2
    <3>3. Len(<<>>) = 0
      OBVIOUS
    <3> HIDE DEF b
    <3>4. QED BY <3>1, <3>2, <3>3
  <2> DEFINE left == Len(data) - b - m
  <2>4. Skip(c, m) = ReaderAt(f, k + 1, left)
    <3> DEFINE x == Len(data) - b
    <3>1. c = ReaderAt(f, k + 1, x)
      OBVIOUS
    <3> HIDE DEF x, c
    <3>2. Skip(c, m) = ReaderAt(f, k + 1, x - m)
      BY <3>1 DEF Skip, ReaderAt
    <3>3. QED BY <3>2 DEF x
  <2>5. k + 1 = Len(w.chunks) + 2 /\ left = Len(data) - (b + m)
    <3>1. k + 1 = Len(w.chunks) + 2
      BY <1>1
    <3> HIDE DEF data, b, k
    <3>2. left = Len(data) - (b + m)
      BY <1>1, <1>3
    <3>3. QED BY <3>1, <3>2
  <2> HIDE DEF v, left, b
  <2>6. QED BY <2>2, <2>3, <2>4, <2>5 DEF Reads
<1> HIDE DEF c
<1>7. QED BY <1>4, <1>5, <1>6 DEF ReadsInline

\* flush_inline, field by field.
LEMMA FlushIs ==
  ASSUME NEW w \in Writer
  PROVE  LET v == flush_inline(w)
         IN  /\ v.inline_buffer = <<>> /\ v.object_refs = w.object_refs /\ v.total_size = w.total_size
             /\ v.chunks = IF w.inline_buffer = <<>> THEN w.chunks
                           ELSE Append(w.chunks, [n |-> -Len(w.inline_buffer), data |-> w.inline_buffer])
<1> DEFINE v == flush_inline(w)
           c == [n |-> -Len(w.inline_buffer), data |-> w.inline_buffer]
<1>1. DOMAIN w = {"chunks", "inline_buffer", "object_refs", "total_size"}
  BY DEF Writer
<1>2. CASE w.inline_buffer = <<>>
  BY <1>2 DEF flush_inline
<1>3. CASE w.inline_buffer # <<>>
  <2>1. v = [w EXCEPT !.chunks = Append(@, c), !.inline_buffer = <<>>]
    BY <1>3 DEF flush_inline
  <2> HIDE DEF c, v
  <2>2. /\ v.chunks = Append(w.chunks, c) /\ v.inline_buffer = <<>> /\ v.object_refs = w.object_refs
        /\ v.total_size = w.total_size
    BY <1>1, <2>1
  <2>3. QED BY <1>3, <2>2 DEF c, v
<1>4. QED BY <1>2, <1>3

\* A writer that flushed into a file had what it held in a chunk of its own.
LEMMA FlushInto ==
  ASSUME NEW f, IsFile(f), NEW w \in Writer, WrittenInto(flush_inline(w), f)
  PROVE  /\ WrittenInto(w, f)
         /\ w.inline_buffer # <<>> =>
              /\ Len(w.chunks) < Len(f.chunks)
              /\ f.chunks[Len(w.chunks) + 1].data = w.inline_buffer
              /\ Len(flush_inline(w).chunks) = Len(w.chunks) + 1
<1> DEFINE v == flush_inline(w)
           buf == w.inline_buffer
           c == [n |-> -Len(buf), data |-> buf]
           k == Len(w.chunks) + 1
<1>1. w.chunks \in Seq(Chunk) /\ buf \in Seq(Byte) /\ f.chunks \in Seq(Chunk)
  BY DEF Writer, IsFile
<1>2. /\ v.object_refs = w.object_refs
      /\ v.chunks = IF buf = <<>> THEN w.chunks ELSE Append(w.chunks, c)
  BY FlushIs
<1> HIDE DEF v
<1>3. Begins(v.chunks, f.chunks) /\ Begins(w.object_refs, f.object_refs)
  BY <1>2 DEF WrittenInto, v
<1>4. CASE buf = <<>>
  BY <1>2, <1>3, <1>4 DEF WrittenInto
<1>5. CASE buf # <<>>
  <2>1. c \in Chunk /\ c.n = -Len(buf) /\ c.data = buf /\ Len(buf) \in Nat
    BY <1>1 DEF Chunk
  <2> HIDE DEF c, buf
  <2>2. Begins(Append(w.chunks, c), f.chunks) /\ Len(Append(w.chunks, c)) = k
    BY <1>1, <1>2, <1>3, <1>5
  <2>3. Begins(w.chunks, f.chunks) /\ Len(w.chunks) < Len(f.chunks) /\ f.chunks[k] = c
    BY <1>1, <2>1, <2>2, BeginsLess
  <2>4. Begins(buf, buf)
    BY <2>1 DEF Begins
  <2>5. f.chunks[k].n = -Len(f.chunks[k].data) /\ f.chunks[k].data = buf
    BY <2>1, <2>3
  <2>6. WrittenInto(w, f)
    BY <1>3, <2>3, <2>4, <2>5 DEF WrittenInto, buf
  <2>7. Len(v.chunks) = k
    BY <1>2, <1>5, <2>2
  <2>8. QED BY <1>5, <2>3, <2>5, <2>6, <2>7 DEF buf, v
<1>6. QED BY <1>4, <1>5

\* The beginning of a beginning.
LEMMA BeginsBoth ==
  ASSUME NEW X, NEW s \in Seq(X), NEW t \in Seq(X), NEW u \in Seq(X), Begins(s, t), Begins(t, u)
  PROVE  Begins(s, u)
<1>1. Len(s) \in Nat /\ Len(t) \in Nat /\ Len(u) \in Nat
  OBVIOUS
<1>2. Len(s) <= Len(t) /\ Len(t) <= Len(u)
  BY DEF Begins
<1>3. \A i \in 1 .. Len(s) : i \in 1 .. Len(t)
  BY <1>1, <1>2
<1>4. \A i \in 1 .. Len(s) : u[i] = s[i]
  BY <1>3 DEF Begins
<1>5. QED BY <1>1, <1>2, <1>4 DEF Begins

\* write_external, field by field.
LEMMA ExternalIs ==
  ASSUME NEW w \in Writer, NEW id \in Seq(Byte)
  PROVE  LET u    == add_external_size(w, Len(id))
             v    == flush_inline(u)
             refs == Ensure(w.object_refs, id)
             t    == write_external(w, id)
         IN  /\ u \in Writer /\ u.chunks = w.chunks /\ u.inline_buffer = w.inline_buffer
             /\ u.object_refs = w.object_refs
             /\ t \in Writer /\ t.inline_buffer = <<>> /\ t.object_refs = refs
             /\ t.chunks = Append(v.chunks, [n |-> IndexOf(refs, id), data |-> <<>>])
<1> DEFINE u == add_external_size(w, Len(id))
           v == flush_inline(u)
           refs == Ensure(w.object_refs, id)
           c == [n |-> IndexOf(refs, id), data |-> <<>>]
           t == write_external(w, id)
           chunks == Append(v.chunks, c)
<1>1. w.object_refs \in Seq(Seq(Byte)) /\ w.total_size \in Nat
      /\ DOMAIN w = {"chunks", "inline_buffer", "object_refs", "total_size"}
  BY DEF Writer
<1>2. /\ u \in Writer /\ u.chunks = w.chunks /\ u.object_refs = w.object_refs /\ u.inline_buffer = w.inline_buffer
  <2> DEFINE size == w.total_size + Len(id)
  <2>1. size \in Nat
    BY <1>1
  <2>2. u = [w EXCEPT !.total_size = size]
    BY DEF add_external_size
  <2> HIDE DEF u, size
  <2>3. u.chunks = w.chunks /\ u.object_refs = w.object_refs /\ u.inline_buffer = w.inline_buffer
    BY <1>1, <2>2
  <2>4. u \in Writer
    BY <2>1, <2>2 DEF Writer
  <2>5. QED BY <2>3, <2>4
<1> DEFINE refs0 == Ensure(v.object_refs, id)
           c0 == [n |-> IndexOf(refs0, id), data |-> <<>>]
<1>3. t = [v EXCEPT !.object_refs = refs0, !.chunks = Append(@, c0)]
  BY DEF write_external, write_reference
<1> HIDE DEF u
<1>4. v \in Writer /\ v.object_refs = w.object_refs /\ v.inline_buffer = <<>>
  BY <1>2, Flushed, FlushIs
<1> HIDE DEF v, t
<1>5. t = [v EXCEPT !.object_refs = refs, !.chunks = chunks]
  BY <1>3, <1>4
<1>6. refs \in Seq(Seq(Byte)) /\ IndexOf(refs, id) \in Int
  <2>1. IndexOf(refs, id) \in 0 .. Len(refs) - 1 /\ refs \in Seq(Seq(Byte))
    BY <1>1, Ensured
  <2>2. QED BY <2>1
<1>7. c \in Chunk
  BY <1>6 DEF Chunk
<1>8. v.chunks \in Seq(Chunk) /\ DOMAIN v = {"chunks", "inline_buffer", "object_refs", "total_size"}
  BY <1>4 DEF Writer
<1> HIDE DEF refs, c
<1>9. chunks \in Seq(Chunk)
  BY <1>7, <1>8
<1> HIDE DEF chunks
<1>10. t \in Writer
  BY <1>4, <1>5, <1>6, <1>9 DEF Writer
<1>11. t.inline_buffer = <<>> /\ t.object_refs = refs /\ t.chunks = chunks
  BY <1>4, <1>5, <1>8
<1>12. QED BY <1>2, <1>10, <1>11 DEF chunks, c, refs, t, v, u

\* A writer that wrote an object into a file had written less of it before, and behind what it
\* held there is a chunk that refers to the object.
LEMMA ExternalInto ==
  ASSUME NEW f, IsFile(f), NEW w \in Writer, NEW id \in Seq(Byte), WrittenInto(write_external(w, id), f)
  PROVE  /\ WrittenInto(w, f)
         /\ w.inline_buffer # <<>> =>
              LET k == Len(w.chunks) + 1
                  n == f.chunks[k + 1].n
              IN  /\ f.chunks[k].data = w.inline_buffer /\ k + 1 <= Len(f.chunks)
                  /\ n \in 0 .. Len(f.object_refs) - 1 /\ f.object_refs[n + 1] = id
                  /\ Len(write_external(w, id).chunks) = k + 1
<1> DEFINE u == add_external_size(w, Len(id))
           v == flush_inline(u)
           refs == Ensure(w.object_refs, id)
           t == write_external(w, id)
           x == IndexOf(refs, id)
           c == [n |-> x, data |-> <<>>]
<1>1. /\ u \in Writer /\ u.chunks = w.chunks /\ u.inline_buffer = w.inline_buffer
      /\ u.object_refs = w.object_refs
      /\ t \in Writer /\ t.inline_buffer = <<>> /\ t.object_refs = refs /\ t.chunks = Append(v.chunks, c)
  BY ExternalIs
<1> HIDE DEF u, t
<1>2. v \in Writer /\ v.object_refs = w.object_refs /\ v.inline_buffer = <<>>
  BY <1>1, Flushed, FlushIs
<1> HIDE DEF v
<1>3. /\ w.object_refs \in Seq(Seq(Byte)) /\ w.chunks \in Seq(Chunk) /\ v.chunks \in Seq(Chunk)
      /\ f.chunks \in Seq(Chunk) /\ f.object_refs \in Seq(Seq(Byte))
  BY <1>2 DEF Writer, IsFile
<1>4. /\ refs \in Seq(Seq(Byte)) /\ x \in 0 .. Len(refs) - 1 /\ refs[x + 1] = id /\ Begins(w.object_refs, refs)
  <2>1. /\ refs \in Seq(Seq(Byte)) /\ x \in 0 .. Len(refs) - 1 /\ refs[x + 1] = id
        /\ Len(w.object_refs) <= Len(refs) /\ \A i \in 1 .. Len(w.object_refs) : refs[i] = w.object_refs[i]
    <3> DEFINE old == w.object_refs
    <3>1. old \in Seq(Seq(Byte)) /\ id \in Seq(Byte)
      BY <1>3
    <3> HIDE DEF old
    <3>2. /\ Ensure(old, id) \in Seq(Seq(Byte)) /\ IndexOf(Ensure(old, id), id) \in 0 .. Len(Ensure(old, id)) - 1
          /\ Ensure(old, id)[IndexOf(Ensure(old, id), id) + 1] = id
          /\ Len(old) <= Len(Ensure(old, id)) /\ \A i \in 1 .. Len(old) : Ensure(old, id)[i] = old[i]
      BY <3>1, Ensured
    <3>3. QED BY <3>2 DEF old
  <2> HIDE DEF refs, x
  <2>2. QED BY <2>1 DEF Begins
<1> HIDE DEF refs, x
<1>5. Begins(t.chunks, f.chunks) /\ Begins(refs, f.object_refs)
  BY <1>1 DEF WrittenInto, t
<1>6. c \in Chunk /\ c.n = x
  BY <1>4 DEF Chunk
<1> HIDE DEF c
<1>7. /\ Begins(v.chunks, f.chunks) /\ Len(v.chunks) < Len(f.chunks) /\ f.chunks[Len(v.chunks) + 1] = c
      /\ Len(t.chunks) = Len(v.chunks) + 1
  BY <1>1, <1>3, <1>5, <1>6, BeginsLess
<1>8. Begins(w.object_refs, f.object_refs)
  BY <1>3, <1>4, <1>5, BeginsBoth
<1>9. WrittenInto(v, f)
  BY <1>2, <1>7, <1>8 DEF WrittenInto
<1>10. /\ WrittenInto(u, f)
       /\ u.inline_buffer # <<>> =>
            /\ f.chunks[Len(u.chunks) + 1].data = u.inline_buffer
            /\ Len(v.chunks) = Len(u.chunks) + 1
  BY <1>1, <1>9, FlushInto DEF v
<1>11. WrittenInto(w, f)
  BY <1>1, <1>10 DEF WrittenInto
<1>12. x \in 0 .. Len(f.object_refs) - 1 /\ f.object_refs[x + 1] = id
  <2>1. Len(refs) \in Nat /\ Len(f.object_refs) \in Nat /\ x + 1 \in 1 .. Len(refs)
    BY <1>3, <1>4
  <2>2. Len(refs) <= Len(f.object_refs) /\ f.object_refs[x + 1] = refs[x + 1]
    BY <1>5, <2>1 DEF Begins
  <2>3. QED BY <1>4, <2>1, <2>2
<1>13. ASSUME w.inline_buffer # <<>>
       PROVE  /\ Len(v.chunks) = Len(w.chunks) + 1 /\ Len(v.chunks) \in Nat /\ Len(f.chunks) \in Nat
              /\ f.chunks[Len(w.chunks) + 1].data = w.inline_buffer
  BY <1>1, <1>3, <1>10, <1>13
<1>14. QED
  <2> DEFINE k == Len(w.chunks) + 1
             n == f.chunks[k + 1].n
  <2>1. SUFFICES ASSUME w.inline_buffer # <<>>
                 PROVE  /\ f.chunks[k].data = w.inline_buffer /\ k + 1 <= Len(f.chunks)
                        /\ n \in 0 .. Len(f.object_refs) - 1 /\ f.object_refs[n + 1] = id
                        /\ Len(t.chunks) = k + 1
    BY <1>11 DEF t
  <2>2. Len(v.chunks) = k /\ f.chunks[k].data = w.inline_buffer
    BY <1>13, <2>1
  <2>3. k + 1 <= Len(f.chunks) /\ Len(t.chunks) = k + 1
    BY <1>7, <1>13, <2>1, <2>2
  <2>4. n = x
    BY <1>6, <1>7, <2>2
  <2> HIDE DEF n, k
  <2>5. QED BY <1>12, <2>2, <2>3, <2>4

\* A reader finds the object id, and is then where the writer was.
ReadsExternal(r, w, id, f, m, eof_ok) ==
  \E c : /\ ensure_chunk(r, eof_ok, TRUE, m) = External(c, id)
         /\ Reads(c, write_external(w, id), f)

\* Where an object was written a reader finds it, and is where the writer was then.
LEMMA ExternalRead ==
  ASSUME NEW f, IsFile(f), NEW w \in Writer, w.inline_buffer # <<>>, NEW id \in Seq(Byte),
         WrittenInto(write_external(w, id), f), NEW r, Reads(r, w, f), NEW m, NEW eof_ok
  PROVE  ReadsExternal(r, w, id, f, m, eof_ok)
<1> DEFINE k == Len(w.chunks) + 1
           n == f.chunks[k + 1].n
           t == write_external(w, id)
           c == ReaderAt(f, k + 2, 0)
<1>1. /\ f.chunks[k].data = w.inline_buffer /\ k + 1 <= Len(f.chunks)
      /\ n \in 0 .. Len(f.object_refs) - 1 /\ f.object_refs[n + 1] = id
      /\ Len(t.chunks) = k + 1
  BY ExternalInto
<1>2. t.inline_buffer = <<>>
  BY ExternalIs
<1>3. k \in Nat /\ Len(f.chunks) \in Nat /\ Len(w.inline_buffer) \in Nat /\ Len(f.object_refs) \in Nat
  BY DEF Writer, IsFile
<1>4. r = ReaderAt(f, k + 1, 0)
  <2>1. r = ReaderAt(f, Len(w.chunks) + 2, Len(f.chunks[k].data) - Len(w.inline_buffer))
    BY DEF Reads
  <2>2. Len(w.chunks) + 2 = k + 1
    <3>1. Len(w.chunks) \in Nat
      BY DEF Writer
    <3>2. QED BY <3>1
  <2>3. Len(f.chunks[k].data) - Len(w.inline_buffer) = 0
    BY <1>1, <1>3
  <2>4. QED BY <2>1, <2>2, <2>3
<1>5. Reads(c, t, f)
  <2>1. k + 2 = Len(t.chunks) + 1
    BY <1>1, <1>3
  <2> HIDE DEF t, k
  <2>2. QED BY <1>2, <2>1 DEF Reads
<1>6. ensure_chunk(r, eof_ok, TRUE, m) = External(c, id)
  <2>1. r.inline_bytes = 0 /\ r.next = k + 1 /\ r.file = f
    BY <1>4 DEF ReaderAt
  <2> DEFINE after == [r EXCEPT !.next = @ + 1]
  <2>2. after = c
    <3>1. (k + 1) + 1 = k + 2
      BY <1>3
    <3> HIDE DEF k
    <3>2. [r EXCEPT !.next = @ + 1] = ReaderAt(f, (k + 1) + 1, 0)
      BY <1>4 DEF ReaderAt
    <3>3. QED BY <3>1, <3>2
  <2> DEFINE n0 == r.file.chunks[r.next].n
             Of(s) == IF s.inline_bytes < m THEN Failed ELSE Inline(s)
  <2>3. n0 = n
    BY <2>1
  <2>4. ensure_chunk(r, eof_ok, TRUE, m) =
          IF r.inline_bytes # 0 THEN Of(r)
          ELSE IF r.next > Len(r.file.chunks) THEN IF eof_ok THEN AtEof(r) ELSE Failed
          ELSE IF n0 < 0 THEN Of([after EXCEPT !.inline_bytes = -n0])
          ELSE IF TRUE /\ n0 < Len(r.file.object_refs) THEN External(after, r.file.object_refs[n0 + 1])
          ELSE Failed
    BY DEF ensure_chunk
  <2>5. ~(n0 < 0) /\ n0 < Len(f.object_refs)
    <3> HIDE DEF n, n0
    <3>1. QED BY <1>1, <1>3, <2>3
  <2>6. ~(r.next > Len(f.chunks))
    <3> HIDE DEF k
    <3>1. QED BY <1>1, <1>3, <2>1
  <2>7. f.object_refs[n0 + 1] = id
    <3> HIDE DEF n, n0
    <3>1. QED BY <1>1, <2>3
  <2> HIDE DEF after, c, n0, n, k, Of
  <2>8. ensure_chunk(r, eof_ok, TRUE, m) = External(after, f.object_refs[n0 + 1])
    BY <2>1, <2>4, <2>5, <2>6
  <2>9. QED BY <2>2, <2>7, <2>8
<1>7. QED BY <1>5, <1>6 DEF ReadsExternal

\* All that was written is in the file that is done.
LEMMA AllWritten ==
  ASSUME NEW f, IsFile(f), NEW w \in Writer, f.chunks = flush_inline(w).chunks,
         f.object_refs = flush_inline(w).object_refs
  PROVE  /\ WrittenInto(w, f)
         /\ w.inline_buffer # <<>> =>
              /\ f.chunks[Len(w.chunks) + 1].data = w.inline_buffer
              /\ Len(f.chunks) = Len(w.chunks) + 1
<1> DEFINE v == flush_inline(w)
<1>1. v \in Writer /\ v.inline_buffer = <<>>
  BY Flushed, FlushIs
<1>2. WrittenInto(v, f)
  <2>1. Len(f.chunks) \in Nat /\ Len(f.object_refs) \in Nat
    BY DEF IsFile
  <2> HIDE DEF v
  <2>2. Begins(f.chunks, f.chunks) /\ Begins(f.object_refs, f.object_refs)
    BY <2>1 DEF Begins
  <2>3. QED BY <1>1, <2>2 DEF WrittenInto, v
<1>3. QED BY <1>2, FlushInto

\* Where all is read there is no more.
LEMMA EndRead ==
  ASSUME NEW f, IsFile(f), NEW w \in Writer, f.chunks = flush_inline(w).chunks,
         f.object_refs = flush_inline(w).object_refs, NEW r, Reads(r, w, f), NEW ext_ok, NEW m
  PROVE  ensure_chunk(r, TRUE, ext_ok, m) = AtEof(r)
<1>1. w.inline_buffer # <<>> =>
        /\ f.chunks[Len(w.chunks) + 1].data = w.inline_buffer
        /\ Len(f.chunks) = Len(w.chunks) + 1
  BY AllWritten
<1>2. w.inline_buffer = <<>> => f.chunks = w.chunks
  BY FlushIs
<1>3. Len(w.chunks) \in Nat /\ Len(w.inline_buffer) \in Nat
  BY DEF Writer
<1>4. r = ReaderAt(f, Len(f.chunks) + 1, 0)
  <2>1. CASE w.inline_buffer = <<>>
    BY <1>2, <2>1 DEF Reads
  <2>2. CASE w.inline_buffer # <<>>
    <3>1. r = ReaderAt(f, Len(w.chunks) + 2, Len(f.chunks[Len(w.chunks) + 1].data) - Len(w.inline_buffer))
      BY <2>2 DEF Reads
    <3>2. Len(w.chunks) + 2 = Len(f.chunks) + 1
      BY <1>1, <1>3, <2>2
    <3>3. Len(f.chunks[Len(w.chunks) + 1].data) - Len(w.inline_buffer) = 0
      BY <1>1, <1>3, <2>2
    <3>4. QED BY <3>1, <3>2, <3>3
  <2>3. QED BY <2>1, <2>2
<1>5. r.inline_bytes = 0 /\ r.next > Len(r.file.chunks)
  <2>1. Len(f.chunks) \in Nat
    BY DEF IsFile
  <2>2. QED BY <1>4, <2>1 DEF ReaderAt
<1>6. QED BY <1>5 DEF ensure_chunk

-------------------------------------------------------------------------------
(* Reading back: what split writes for entries *)

\* The content of a file.
LEMMA ContentIs ==
  ASSUME NEW e \in Entry
  PROVE  Content(e) \in Seq(Byte) /\ Len(Content(e)) = e.size
<1> DEFINE c == Content(e)
           g == [j \in 1 .. e.size |-> <<"data", "", e.name, e.size, j>>]
<1>1. e.size \in Nat
  BY DEF Entry
<1>2. "" \in Texts("type") /\ e.name \in Texts("name")
  BY DEF Texts, Entry
<1>3. "data" \in {"header", "data", "zero"}
  OBVIOUS
<1>4. ASSUME NEW j \in 1 .. e.size PROVE <<"data", "", e.name, e.size, j>> \in Byte
  <2>1. j \in Nat
    BY <1>1
  <2>2. QED BY <1>1, <1>2, <1>3, <2>1 DEF Byte
<1>5. g \in [1 .. e.size -> Byte]
  BY <1>4
<1>6. c = g
  BY DEF Content
<1> HIDE DEF g, c
<1>7. c \in Seq(Byte) /\ Len(c) = e.size
  BY <1>1, <1>5, <1>6
<1>8. QED BY <1>7 DEF c

\* Two sequences, one after the other, can be told apart.
LEMMA Apart ==
  ASSUME NEW X, NEW s \in Seq(X), NEW t \in Seq(X)
  PROVE  SubSeq(s \o t, 1, Len(s)) = s /\ From(s \o t, Len(s)) = t
<1> DEFINE c == s \o t
           n == Len(s)
           a == SubSeq(c, 1, n)
           b == From(c, n)
<1>1. /\ c \in Seq(X) /\ Len(c) = Len(s) + Len(t) /\ n \in Nat /\ Len(t) \in Nat
      /\ \A i \in 1 .. n : c[i] = s[i]
      /\ \A i \in 1 .. Len(t) : c[n + i] = t[i]
  OBVIOUS
<1> HIDE DEF c
<1>2. a \in Seq(X) /\ Len(a) = n /\ \A i \in 1 .. n : a[i] = c[i]
  BY <1>1
<1>3. b \in Seq(X) /\ Len(b) = Len(t) /\ \A i \in 1 .. Len(t) : b[i] = c[n + i]
  BY <1>1 DEF From
<1> HIDE DEF a, b
<1>4. a = s
  BY <1>1, <1>2, SeqEqual
<1>5. b = t
  BY <1>1, <1>3, SeqEqual
<1>6. QED BY <1>4, <1>5 DEF a, b, c, n

\* What split writes for an entry.
AfterEntry(w, e) ==
  LET v       == write_inline(w, HeaderBlock(e))
      padding == Fill(Stored(e.size) - e.size)
  IN IF e.type = "end" THEN write_inline(w, Fill(BLOCK))
     ELSE IF IsLarge(e) THEN write_inline(write_external(v, Content(e)), padding)
     ELSE write_inline(v, Content(e) \o padding)

\* The parts of an entry.
LEMMA PartsOfEntry ==
  ASSUME NEW e \in Entry
  PROVE  LET padding == Fill(Stored(e.size) - e.size)
         IN  /\ HeaderBlock(e) \in Seq(Byte) /\ Len(HeaderBlock(e)) = BLOCK
             /\ Content(e) \in Seq(Byte) /\ Len(Content(e)) = e.size
             /\ padding \in Seq(Byte) /\ Len(padding) = Stored(e.size) - e.size
             /\ Content(e) \o padding \in Seq(Byte) /\ Len(Content(e) \o padding) = Stored(e.size)
             /\ e.size \in Nat /\ Stored(e.size) \in Nat /\ Stored(e.size) >= e.size
             /\ e.type # "end" => EntryBytes(e) = HeaderBlock(e) \o (Content(e) \o padding)
<1> DEFINE n == Stored(e.size)
           m == n - e.size
           p == Fill(m)
           c == Content(e)
           h == HeaderBlock(e)
<1>1. e.size \in Nat
  BY DEF Entry
<1>2. n \in Nat /\ n >= e.size
  BY <1>1, StoredSize
<1> HIDE DEF n
<1>3. m \in Nat
  BY <1>1, <1>2
<1>4. p \in Seq(Byte) /\ Len(p) = m
  BY <1>3, FillIs
<1>5. h \in Seq(Byte) /\ Len(h) = BLOCK /\ c \in Seq(Byte) /\ Len(c) = e.size
  BY HeaderIs, ContentIs
<1>6. e.type # "end" => EntryBytes(e) = (h \o c) \o p
  BY DEF EntryBytes, n
<1> HIDE DEF h, c, p, m
<1>7. c \o p \in Seq(Byte) /\ Len(c \o p) = n
  <2>1. c \o p \in Seq(Byte) /\ Len(c \o p) = e.size + m
    BY <1>4, <1>5, ConcatProperties
  <2>2. e.size + m = n
    BY <1>1, <1>2 DEF m
  <2>3. QED BY <2>1, <2>2
<1>8. (h \o c) \o p = h \o (c \o p)
  <2>1. h \in Seq(Byte) /\ c \in Seq(Byte) /\ p \in Seq(Byte)
    BY <1>4, <1>5
  <2>2. QED BY <2>1, ConcatAssociative
<1>9. QED BY <1>1, <1>2, <1>4, <1>5, <1>6, <1>7, <1>8 DEF h, c, p, m, n

\* A turn of split before an entry writes it.
LEMMA EntryTurn ==
  ASSUME NEW w \in Writer, NEW e \in Entry, NEW t \in Seq(Byte)
  PROVE  LET rest == EntryBytes(e) \o t
         IN  /\ SplitEntry(At(rest, w)) = At(t, AfterEntry(w, e)) /\ AfterEntry(w, e) \in Writer
             /\ rest \in Seq(Byte) /\ Len(t) < Len(rest)
<1> DEFINE h == HeaderBlock(e)
           c == Content(e)
           n == Stored(e.size)
           p == Fill(n - e.size)
           v == write_inline(w, h)
           rest == EntryBytes(e) \o t
<1>1. BLOCK \in Nat /\ BLOCK > 0 /\ Fill(BLOCK) \in Seq(Byte) /\ Len(Fill(BLOCK)) = BLOCK
  BY Blocks, FillIs
<1>2. CASE e.type = "end"
  <2> DEFINE a == Fill(BLOCK)
  <2>1. EntryBytes(e) = a /\ AfterEntry(w, e) = write_inline(w, a)
    BY <1>2, EntryIs DEF AfterEntry
  <2>2. a \in Seq(Byte) /\ Len(a) = BLOCK
    BY <1>1
  <2> HIDE DEF a
  <2>3. SubSeq(a \o t, 1, BLOCK) = a /\ From(a \o t, BLOCK) = t
    BY <2>2, Apart
  <2>4. a \o t \in Seq(Byte) /\ Len(a \o t) = BLOCK + Len(t)
    BY <2>2, ConcatProperties
  <2>5. Len(a \o t) >= BLOCK /\ Len(t) < Len(a \o t)
    <3> DEFINE k == Len(a \o t)
    <3>1. k = BLOCK + Len(t) /\ Len(t) \in Nat
      BY <2>4
    <3> HIDE DEF k
    <3>2. QED BY <1>1, <3>1 DEF k
  <2>6. SplitEntry(At(a \o t, w)) = At(t, write_inline(w, a))
    <3> DEFINE r == a \o t
    <3>1. r \in Seq(Byte) /\ Len(r) >= BLOCK /\ SubSeq(r, 1, BLOCK) = Fill(BLOCK)
      BY <2>3, <2>4, <2>5 DEF a
    <3> HIDE DEF r
    <3>2. SplitEntry(At(r, w)) = At(From(r, BLOCK), write_inline(w, a))
      BY <3>1, TurnOfZeros DEF a
    <3>3. QED BY <2>3, <3>2 DEF r
  <2>7. write_inline(w, a) \in Writer
    BY <2>2, InlineWritten
  <2>8. QED BY <2>1, <2>4, <2>5, <2>6, <2>7
<1>3. CASE e.type # "end"
  <2> DEFINE d == c \o p
             body == d \o t
             r == h \o body
  <2>1. /\ h \in Seq(Byte) /\ Len(h) = BLOCK /\ c \in Seq(Byte) /\ Len(c) = e.size
        /\ p \in Seq(Byte) /\ d \in Seq(Byte) /\ Len(d) = n /\ e.size \in Nat /\ n \in Nat /\ n >= e.size
        /\ EntryBytes(e) = h \o d
    BY <1>3, PartsOfEntry
  <2> HIDE DEF h, c, p, n
  <2>2. rest = r
    <3> HIDE DEF d
    <3>1. (h \o d) \o t = h \o (d \o t)
      <4> HIDE DEF rest
      <4>1. h \in Seq(Byte) /\ d \in Seq(Byte) /\ t \in Seq(Byte)
        BY <2>1
      <4>2. QED BY <4>1, ConcatAssociative
    <3>2. QED BY <2>1, <3>1
  <2> HIDE DEF rest
  <2>3. body \in Seq(Byte) /\ SubSeq(body, 1, n) = d /\ From(body, n) = t /\ Len(body) = n + Len(t)
    <3> HIDE DEF d
    <3>1. SubSeq(d \o t, 1, Len(d)) = d /\ From(d \o t, Len(d)) = t
      BY <2>1, Apart
    <3>2. d \o t \in Seq(Byte) /\ Len(d \o t) = Len(d) + Len(t)
      BY <2>1, ConcatProperties
    <3>3. QED BY <2>1, <3>1, <3>2
  <2>4. SubSeq(body, 1, e.size) = c /\ SubSeq(body, e.size + 1, n) = p
    <3> DEFINE q == p \o t
    <3>1. q \in Seq(Byte)
      BY <2>1, ConcatProperties
    <3>2. body = c \o q
      <4>1. (c \o p) \o t = c \o (p \o t)
        <5>1. c \in Seq(Byte) /\ p \in Seq(Byte) /\ t \in Seq(Byte)
          BY <2>1
        <5>2. QED BY <5>1, ConcatAssociative
      <4>2. QED BY <4>1
    <3> HIDE DEF q, body
    <3>3. SubSeq(body, 1, e.size) = c /\ From(body, e.size) = q
      BY <2>1, <3>1, <3>2, Apart
    <3>4. Len(p) = n - e.size /\ n - e.size \in Nat
      <4>1. Len(p) = n - e.size
        BY PartsOfEntry DEF p, n
      <4>2. QED BY <2>1, <4>1
    <3>5. SubSeq(q, 1, n - e.size) = p
      <4>1. SubSeq(p \o t, 1, Len(p)) = p
        BY <2>1, Apart
      <4>2. QED BY <3>4, <4>1 DEF q
    <3>6. SubSeq(From(body, e.size), 1, n - e.size) = SubSeq(body, e.size + 1, n)
      <4> DEFINE m == n - e.size
      <4>1. m \in Nat /\ e.size + m = n /\ n <= Len(body)
        <5>1. Len(t) \in Nat
          OBVIOUS
        <5>2. QED BY <2>1, <2>3, <5>1
      <4> HIDE DEF m
      <4>2. SubSeq(From(body, e.size), 1, m) = SubSeq(body, e.size + 1, e.size + m)
        BY <2>1, <2>3, <4>1, FromFrom
      <4>3. QED BY <4>1, <4>2 DEF m
    <3>7. QED BY <3>3, <3>5, <3>6
  <2> HIDE DEF d, body
  <2>5. r \in Seq(Byte) /\ SubSeq(r, 1, BLOCK) = h /\ From(r, BLOCK) = body
    <3>1. h \o body \in Seq(Byte)
      BY <2>1, <2>3, ConcatProperties
    <3>2. SubSeq(h \o body, 1, Len(h)) = h /\ From(h \o body, Len(h)) = body
      BY <2>1, <2>3, Apart
    <3>3. QED BY <2>1, <3>1, <3>2
  <2>6. Len(r) = BLOCK + (n + Len(t))
    <3>1. Len(h \o body) = Len(h) + Len(body)
      <4> HIDE DEF r
      <4>1. h \in Seq(Byte) /\ body \in Seq(Byte)
        BY <2>1, <2>3
      <4>2. QED BY <4>1, ConcatProperties
    <3>2. QED BY <2>1, <2>3, <3>1
  <2> HIDE DEF r
  <2>7. Len(r) >= BLOCK + n /\ Len(t) < Len(r)
    <3>1. Len(t) \in Nat
      OBVIOUS
    <3>2. QED BY <1>1, <2>1, <2>6, <3>1
  <2>8. AfterEntry(w, e) = IF IsLarge(e) THEN write_inline(write_external(v, c), p) ELSE write_inline(v, d)
    BY <1>3 DEF AfterEntry, h, c, p, n, d
  <2>9. SplitEntry(At(r, w)) = At(t, AfterEntry(w, e))
    <3>1. SplitEntry(At(r, w)) =
            At(From(From(r, BLOCK), n),
               IF IsLarge(e)
               THEN write_inline(write_external(v, SubSeq(From(r, BLOCK), 1, e.size)),
                                 SubSeq(From(r, BLOCK), e.size + 1, n))
               ELSE write_inline(v, SubSeq(From(r, BLOCK), 1, n)))
      BY <2>5, <2>7, TurnOfEntry DEF h, n
    <3> HIDE DEF v
    <3>2. QED BY <2>3, <2>4, <2>5, <2>8, <3>1
  <2>10. AfterEntry(w, e) \in Writer
    <3>1. v \in Writer
      BY <2>1, InlineWritten
    <3> HIDE DEF v
    <3>2. write_external(v, c) \in Writer
      BY <2>1, <3>1, ExternalIs
    <3>3. write_inline(write_external(v, c), p) \in Writer /\ write_inline(v, d) \in Writer
      BY <2>1, <3>1, <3>2, InlineWritten
    <3>4. QED BY <2>8, <3>3
  <2>11. QED BY <2>2, <2>5, <2>7, <2>9, <2>10 DEF rest
<1>4. QED BY <1>2, <1>3

\* What split has written after each of the entries of an archive.
Writers(ws, entries) ==
  /\ ws[0] = NewWriter
  /\ \A k \in 1 .. Len(entries) : ws[k] = AfterEntry(ws[k - 1], entries[k])
  /\ \A k \in 0 .. Len(entries) : ws[k] \in Writer

LEMMA WritersAre ==
  ASSUME NEW entries \in Seq(Entry)
  PROVE  \E ws : Writers(ws, entries)
<1> DEFINE n == Len(entries)
           step == [z \in (1 .. n) \X Writer |-> AfterEntry(z[2], entries[z[1]])]
<1>1. n \in Nat /\ \A k \in 1 .. n : entries[k] \in Entry
  OBVIOUS
<1>2. \A w \in Writer : \A e \in Entry : AfterEntry(w, e) \in Writer
  <2>1. <<>> \in Seq(Byte)
    OBVIOUS
  <2>2. QED BY <2>1, EntryTurn
<1>3. step \in [(1 .. n) \X Writer -> Writer]
  BY <1>1, <1>2
<1>4. \A k \in 1 .. n : \A w \in Writer : step[<<k, w>>] = AfterEntry(w, entries[k])
  OBVIOUS
<1> HIDE DEF step, n
<1>5. PICK ws \in [0 .. n -> Writer] : Iterates(ws, n, NewWriter, step)
  BY <1>1, <1>3, NewWriterIs, Iteration
<1>6. \A k \in 1 .. n : ws[k] = AfterEntry(ws[k - 1], entries[k])
  <2>1. \A k \in 1 .. n : ws[k] = step[<<k, ws[k - 1]>>] /\ k - 1 \in 0 .. n
    BY <1>1, <1>5 DEF Iterates
  <2>2. QED BY <1>4, <1>5, <2>1
<1>7. ws[0] = NewWriter
  BY <1>5 DEF Iterates
<1>8. QED BY <1>5, <1>6, <1>7 DEF Writers, n

\* What is left of a sequence before one of its elements.
LEMMA FromHead ==
  ASSUME NEW X, NEW s \in Seq(X), NEW k \in 1 .. Len(s)
  PROVE  /\ From(s, k - 1) \in Seq(X) /\ From(s, k - 1) # <<>>
         /\ Head(From(s, k - 1)) = s[k] /\ Tail(From(s, k - 1)) = From(s, k)
<1>1. Len(s) \in Nat /\ k \in Nat /\ k >= 1 /\ k <= Len(s) /\ (k - 1) + 1 = k
  OBVIOUS
<1>2. From(s, k - 1) = SubSeq(s, k, Len(s)) /\ From(s, k) = SubSeq(s, k + 1, Len(s))
  BY <1>1 DEF From
<1>3. Head(SubSeq(s, k, Len(s))) = s[k] /\ Tail(SubSeq(s, k, Len(s))) = SubSeq(s, k + 1, Len(s))
  <2>1. k \in 1 .. Len(s) /\ Len(s) \in k .. Len(s)
    BY <1>1
  <2>2. QED BY <2>1, HeadTailOfSubSeq
<1>4. SubSeq(s, k, Len(s)) \in Seq(X) /\ Len(SubSeq(s, k, Len(s))) = Len(s) - k + 1
  BY <1>1
<1>5. SubSeq(s, k, Len(s)) # <<>>
  <2> DEFINE a == SubSeq(s, k, Len(s))
  <2>1. Len(a) # 0
    <3> HIDE DEF a
    <3>1. QED BY <1>1, <1>4 DEF a
  <2>2. Len(<<>>) = 0
    OBVIOUS
  <2> HIDE DEF a
  <2>3. QED BY <2>1, <2>2 DEF a
<1>6. QED BY <1>2, <1>3, <1>4, <1>5

\* split accepts an archive of which nothing is lost, and writes every entry of it.
LEMMA WholeSplit ==
  ASSUME NEW entries \in Seq(Entry), NEW ws, Writers(ws, entries)
  PROVE  /\ split(BytesOf(entries)) = [failed |-> FALSE, file |-> done(ws[Len(entries)])]
         /\ BytesOf(entries) \in Seq(Byte) /\ Len(entries) <= Len(BytesOf(entries))
<1> DEFINE n == Len(entries)
           bytes == BytesOf(entries)
           Left(k) == BytesOf(From(entries, k))
           G == {k \in 0 .. n : /\ Left(k) \in Seq(Byte) /\ Len(Left(k)) <= Len(bytes) - k
                                /\ ComesTo(bytes, Left(k), ws[k])}
<1>1. n \in Nat /\ bytes \in Seq(Byte) /\ Len(bytes) \in Nat
  BY BytesTyped
<1>2. From(entries, 0) = entries /\ From(entries, n) = <<>>
  <2>1. From(entries, 0) = SubSeq(entries, 1, n)
    BY DEF From
  <2>2. SubSeq(entries, 1, n) = entries
    BY SubSeqFull
  <2>3. From(entries, n) = <<>>
    <3>1. n + 1 \in Int /\ n \in Int /\ n < n + 1
      BY <1>1
    <3>2. QED BY <3>1, SubSeqEmpty DEF From
  <2>4. QED BY <2>1, <2>2, <2>3
<1>3. 0 \in G
  <2>1. Left(0) = bytes /\ ws[0] = NewWriter
    BY <1>2 DEF Writers
  <2> HIDE DEF bytes, n
  <2>2. ComesTo(bytes, bytes, NewWriter) /\ 0 \in 0 .. n /\ Len(bytes) <= Len(bytes) - 0
    BY <1>1, SplitBegins
  <2> HIDE DEF Left
  <2>3. QED BY <1>1, <2>1, <2>2
<1>4. ASSUME NEW k \in 1 .. n, k - 1 \in G PROVE k \in G
  <2> DEFINE e == entries[k]
             w == ws[k - 1]
             t == Left(k)
             rest == Left(k - 1)
  <2>1. e \in Entry /\ k \in 0 .. n /\ k - 1 \in 0 .. n
    BY <1>1
  <2>2. w \in Writer /\ ws[k] = AfterEntry(w, e)
    BY <2>1 DEF Writers
  <2>3. /\ From(entries, k - 1) \in Seq(Entry) /\ From(entries, k - 1) # <<>>
        /\ Head(From(entries, k - 1)) = e /\ Tail(From(entries, k - 1)) = From(entries, k)
    BY FromHead
  <2>4. rest = EntryBytes(e) \o t /\ From(entries, k) \in Seq(Entry)
    BY <2>3, BytesTyped
  <2>5. t \in Seq(Byte)
    BY <2>4, BytesTyped
  <2>6. Len(rest) <= Len(bytes) - (k - 1) /\ ComesTo(bytes, rest, w)
    BY <1>4
  <2> HIDE DEF e, w, t, rest, bytes, Left, n
  <2>7. /\ SplitEntry(At(rest, w)) = At(t, AfterEntry(w, e)) /\ rest \in Seq(Byte) /\ Len(t) < Len(rest)
    BY <2>1, <2>2, <2>4, <2>5, EntryTurn
  <2>8. Len(rest) <= Len(bytes) /\ Len(t) <= Len(bytes) - k
    <3>1. Len(rest) \in Nat /\ Len(t) \in Nat /\ k \in Nat /\ k >= 1
      BY <1>1, <2>5, <2>7
    <3>2. QED BY <1>1, <2>6, <2>7, <3>1
  <2>9. ComesTo(bytes, t, AfterEntry(w, e))
    BY <1>1, <2>5, <2>6, <2>7, <2>8, SplitTurns DEF At
  <2>10. QED BY <2>1, <2>2, <2>5, <2>8, <2>9 DEF t
<1>5. n \in G
  <2> HIDE DEF G, n
  <2>1. 0 .. n \subseteq G
    BY <1>1, <1>3, <1>4, IndexInduction
  <2>2. QED BY <1>1, <2>1
<1>6. Left(n) = <<>>
  BY <1>2, BytesTyped, EmptySeq
<1>7. ComesTo(bytes, <<>>, ws[n]) /\ 0 <= Len(bytes) - n
  <2>1. ComesTo(bytes, Left(n), ws[n]) /\ Len(Left(n)) <= Len(bytes) - n
    BY <1>5
  <2>2. Len(<<>>) = 0
    OBVIOUS
  <2> HIDE DEF Left, n, bytes
  <2>3. QED BY <1>6, <2>1, <2>2
<1> HIDE DEF n, bytes, G
<1>8. split(bytes) = [failed |-> FALSE, file |-> done(ws[n])] /\ n <= Len(bytes)
  BY <1>1, <1>7, SplitEnds
<1>9. QED BY <1>1, <1>8 DEF n, bytes

\* Entries that are written into a file: there was less of it before each of them.
LEMMA EntryInto ==
  ASSUME NEW f, IsFile(f), NEW w \in Writer, NEW e \in Entry, WrittenInto(AfterEntry(w, e), f)
  PROVE  LET h       == HeaderBlock(e)
             v       == write_inline(w, h)
             padding == Fill(Stored(e.size) - e.size)
         IN  /\ WrittenInto(w, f) /\ v \in Writer
             /\ e.type # "end" => WrittenInto(v, f)
             /\ e.type # "end" /\ IsLarge(e) =>
                  /\ write_external(v, Content(e)) \in Writer
                  /\ WrittenInto(write_external(v, Content(e)), f)
<1> DEFINE h == HeaderBlock(e)
           c == Content(e)
           p == Fill(Stored(e.size) - e.size)
           v == write_inline(w, h)
           x == write_external(v, c)
<1>1. /\ h \in Seq(Byte) /\ c \in Seq(Byte) /\ p \in Seq(Byte) /\ c \o p \in Seq(Byte)
  BY PartsOfEntry
<1>2. Fill(BLOCK) \in Seq(Byte)
  BY Blocks, FillIs
<1>3. AfterEntry(w, e) = IF e.type = "end" THEN write_inline(w, Fill(BLOCK))
                         ELSE IF IsLarge(e) THEN write_inline(x, p) ELSE write_inline(v, c \o p)
  BY DEF AfterEntry
<1> HIDE DEF h, c, p
<1>4. v \in Writer
  BY <1>1, InlineWritten
<1> HIDE DEF v
<1>5. x \in Writer
  BY <1>1, <1>4, ExternalIs
<1>6. CASE e.type = "end"
  BY <1>2, <1>3, <1>4, <1>6, InlineInto DEF v, h
<1>7. CASE e.type # "end" /\ IsLarge(e)
  <2> HIDE DEF x
  <2>1. WrittenInto(x, f)
    BY <1>1, <1>3, <1>5, <1>7, InlineInto
  <2>2. WrittenInto(v, f)
    BY <1>1, <1>4, <2>1, ExternalInto DEF x
  <2>3. WrittenInto(w, f)
    BY <1>1, <2>2, InlineInto DEF v
  <2>4. QED BY <1>4, <1>5, <2>1, <2>2, <2>3 DEF h, c, v, x
<1>8. CASE e.type # "end" /\ ~IsLarge(e)
  <2> DEFINE d == c \o p
  <2>1. d \in Seq(Byte) /\ WrittenInto(write_inline(v, d), f)
    BY <1>1, <1>3, <1>8
  <2> HIDE DEF x, d
  <2>2. WrittenInto(v, f)
    BY <1>4, <2>1, InlineInto
  <2>3. WrittenInto(w, f)
    BY <1>1, <2>2, InlineInto DEF v
  <2>4. QED BY <1>4, <1>8, <2>2, <2>3 DEF h, v
<1>9. QED BY <1>6, <1>7, <1>8

\* Everything that was written is in the file that is done.
LEMMA AllInto ==
  ASSUME NEW entries \in Seq(Entry), NEW ws, Writers(ws, entries), NEW f, IsFile(f),
         WrittenInto(ws[Len(entries)], f)
  PROVE  \A k \in 0 .. Len(entries) : WrittenInto(ws[k], f)
<1> DEFINE n == Len(entries)
           G == {k \in 0 .. n : WrittenInto(ws[n - k], f)}
<1>1. n \in Nat
  OBVIOUS
<1>2. 0 \in G
  BY <1>1
<1>3. ASSUME NEW k \in 1 .. n, k - 1 \in G PROVE k \in G
  <2> DEFINE i == n - k
             j == n - (k - 1)
  <2>1. i \in 0 .. n /\ j \in 1 .. n /\ j - 1 = i /\ k \in 0 .. n
    BY <1>1
  <2>2. WrittenInto(ws[j], f)
    BY <1>3
  <2> HIDE DEF i, j
  <2>3. ws[i] \in Writer /\ entries[j] \in Entry /\ ws[j] = AfterEntry(ws[i], entries[j])
    <3>1. entries[j] \in Entry
      BY <2>1, ElementOfSeq
    <3>2. QED BY <2>1, <3>1 DEF Writers
  <2>4. WrittenInto(ws[i], f)
    BY <2>2, <2>3, EntryInto
  <2>5. QED BY <2>1, <2>4 DEF i
<1>4. 0 .. n \subseteq G
  <2> HIDE DEF G, n
  <2>1. QED BY <1>1, <1>2, <1>3, IndexInduction
<1>5. ASSUME NEW k \in 0 .. n PROVE WrittenInto(ws[k], f)
  <2>1. n - k \in 0 .. n /\ n - (n - k) = k
    BY <1>1
  <2>2. n - k \in G
    BY <1>4, <2>1
  <2>3. WrittenInto(ws[n - (n - k)], f)
    BY <2>2
  <2>4. QED BY <2>1, <2>3
<1>6. QED BY <1>5

-------------------------------------------------------------------------------
(* Reading back: get_entry *)

\* A loop over get_entry, and one that is over: its reader, the long name read so far, the
\* entries it returned.
Got(r, longname, found)  == [reader |-> r, longname |-> longname, found |-> found, more |-> TRUE]
Over(r, longname, found) == [reader |-> r, longname |-> longname, found |-> found, more |-> FALSE]

\* What changes in it.
Stopped(s, found)                == [s EXCEPT !.found = found, !.more = FALSE]
Named(s, reader, longname)       == [s EXCEPT !.reader = reader, !.longname = longname]
Grown(s, reader, longname, found) == [s EXCEPT !.reader = reader, !.longname = longname, !.found = found]

\* A block that was written is read.
LEMMA BlockRead ==
  ASSUME NEW f, IsFile(f), NEW w \in Writer, NEW a \in Seq(Byte), Len(a) = BLOCK,
         WrittenInto(write_inline(w, a), f), NEW r, Reads(r, w, f)
  PROVE  \E r2 : /\ read_inline_exact(r, BLOCK) = [kind |-> "inline", reader |-> r2, data |-> a]
                 /\ Reads(r2, write_inline(w, a), f)
<1>1. BLOCK \in Nat /\ BLOCK > 0 /\ BLOCK \in 0 .. Len(a) /\ a # <<>> /\ BLOCK \in 0 .. BLOCK
  BY Blocks, EmptySeq
<1>2. \E c : /\ ensure_chunk(r, TRUE, FALSE, BLOCK) = Inline(c)
             /\ \A j \in 0 .. BLOCK : Bytes(c, j) = SubSeq(a, 1, j)
             /\ Reads(Skip(c, BLOCK), write_inline(w, SubSeq(a, 1, BLOCK)), f)
  <2>1. BLOCK # 0 \/ w.inline_buffer # <<>>
    BY <1>1
  <2> DEFINE yes == TRUE
             no == FALSE
  <2> HIDE DEF yes, no
  <2>2. ReadsInline(r, w, a, f, BLOCK, yes, no)
    BY <1>1, <2>1, InlineRead
  <2>3. QED BY <2>2 DEF yes, no, ReadsInline
<1>3. PICK c : /\ ensure_chunk(r, TRUE, FALSE, BLOCK) = Inline(c)
               /\ \A j \in 0 .. BLOCK : Bytes(c, j) = SubSeq(a, 1, j)
               /\ Reads(Skip(c, BLOCK), write_inline(w, SubSeq(a, 1, BLOCK)), f)
  BY <1>2
<1>4. SubSeq(a, 1, BLOCK) = a
  BY SubSeqFull
<1>5. Bytes(c, BLOCK) = a
  BY <1>1, <1>3, <1>4
<1>6. read_inline_exact(r, BLOCK) = [kind |-> "inline", reader |-> Skip(c, BLOCK), data |-> a]
  <2> DEFINE x == ensure_chunk(r, TRUE, FALSE, BLOCK)
  <2>1. x.kind = "inline" /\ x.reader = c
    <3>1. x = Inline(c)
      BY <1>3
    <3> HIDE DEF x
    <3>2. QED BY <3>1 DEF Inline
  <2>2. read_inline_exact(r, BLOCK) =
          IF x.kind # "inline" THEN x
          ELSE [kind |-> "inline", reader |-> Skip(x.reader, BLOCK), data |-> Bytes(x.reader, BLOCK)]
    BY DEF read_inline_exact
  <2> HIDE DEF x
  <2>3. QED BY <1>5, <2>1, <2>2
<1>7. QED BY <1>3, <1>4, <1>6

\* Content that was written inline with its padding is read, if something follows or
\* it is not empty.
LEMMA InlineData ==
  ASSUME NEW f, IsFile(f), NEW v \in Writer, v.inline_buffer # <<>>, NEW e \in Entry, NEW q \in Seq(Byte),
         LET d == Content(e) \o Fill(Stored(e.size) - e.size)
         IN  d \o q # <<>> /\ WrittenInto(write_inline(v, d \o q), f),
         NEW r, Reads(r, v, f)
  PROVE  \E r2 : /\ read_exact(r, e.size, Stored(e.size)) = [kind |-> "inline", reader |-> r2, data |-> Content(e)]
                 /\ Reads(r2, write_inline(v, Content(e) \o Fill(Stored(e.size) - e.size)), f)
<1> DEFINE c == Content(e)
           p == Fill(Stored(e.size) - e.size)
           d == c \o p
           b == d \o q
           n == Stored(e.size)
           m == e.size
<1>1. /\ c \in Seq(Byte) /\ Len(c) = m /\ p \in Seq(Byte) /\ d \in Seq(Byte) /\ Len(d) = n
      /\ m \in Nat /\ n \in Nat /\ n >= m
  BY PartsOfEntry
<1>2. b # <<>> /\ WrittenInto(write_inline(v, b), f)
  BY Zenon
<1> HIDE DEF c, p, n, m
<1>3. SubSeq(d, 1, m) = c
  <2>1. SubSeq(c \o p, 1, Len(c)) = c
    BY <1>1, Apart
  <2>2. QED BY <1>1, <2>1
<1> HIDE DEF d
<1>4. b \in Seq(Byte) /\ Len(b) = n + Len(q) /\ SubSeq(b, 1, n) = d
  <2>1. d \o q \in Seq(Byte) /\ Len(d \o q) = Len(d) + Len(q) /\ SubSeq(d \o q, 1, Len(d)) = d
    BY <1>1, Apart, ConcatProperties
  <2>2. QED BY <1>1, <2>1
<1>5. SubSeq(b, 1, m) = c
  <2>1. SubSeq(b, 1, m) = SubSeq(SubSeq(b, 1, n), 1, m)
    <3>1. Len(q) \in Nat
      OBVIOUS
    <3> HIDE DEF b
    <3>2. n <= Len(b)
      BY <1>1, <1>4, <3>1
    <3> DEFINE x == SubSeq(b, 1, n)
               y == SubSeq(b, 1, m)
               z == SubSeq(x, 1, m)
    <3>3. x \in Seq(Byte) /\ Len(x) = n /\ \A i \in 1 .. n : x[i] = b[i]
      BY <1>1, <1>4, <3>2
    <3>4. y \in Seq(Byte) /\ Len(y) = m /\ \A i \in 1 .. m : y[i] = b[i]
      BY <1>1, <1>4, <3>2
    <3> HIDE DEF x, y
    <3>5. z \in Seq(Byte) /\ Len(z) = m /\ \A i \in 1 .. m : z[i] = x[i]
      BY <1>1, <3>3
    <3> HIDE DEF z
    <3>6. \A i \in 1 .. m : i \in 1 .. n
      BY <1>1
    <3>7. \A i \in 1 .. m : y[i] = z[i]
      BY <3>3, <3>4, <3>5, <3>6
    <3>8. y = z
      BY <3>4, <3>5, <3>7, SeqEqual
    <3>9. QED BY <3>8 DEF x, y, z
  <2>2. QED BY <1>3, <1>4, <2>1
<1>6. n \in 0 .. Len(b) /\ m \in 0 .. n
  <2>1. Len(q) \in Nat
    OBVIOUS
  <2> HIDE DEF b
  <2>2. QED BY <1>1, <1>4, <2>1
<1> HIDE DEF b
<1>7. \E x : /\ ensure_chunk(r, FALSE, TRUE, n) = Inline(x)
             /\ \A j \in 0 .. n : Bytes(x, j) = SubSeq(b, 1, j)
             /\ Reads(Skip(x, n), write_inline(v, SubSeq(b, 1, n)), f)
  <2> DEFINE yes == TRUE
             no == FALSE
  <2> HIDE DEF yes, no
  <2>1. ReadsInline(r, v, b, f, n, no, yes)
    BY <1>2, <1>4, <1>6, InlineRead
  <2>2. QED BY <2>1 DEF yes, no, ReadsInline
<1>8. PICK x : /\ ensure_chunk(r, FALSE, TRUE, n) = Inline(x)
               /\ \A j \in 0 .. n : Bytes(x, j) = SubSeq(b, 1, j)
               /\ Reads(Skip(x, n), write_inline(v, SubSeq(b, 1, n)), f)
  BY <1>7
<1>9. Bytes(x, m) = c
  BY <1>5, <1>6, <1>8
<1>10. read_exact(r, m, n) = [kind |-> "inline", reader |-> Skip(x, n), data |-> c]
  <2> DEFINE y == ensure_chunk(r, FALSE, TRUE, n)
             pad == ensure_chunk(y.reader, FALSE, FALSE, n - m)
  <2>1. y.kind = "inline" /\ y.reader = x
    <3>1. y = Inline(x)
      BY <1>8
    <3> HIDE DEF y
    <3>2. QED BY <3>1 DEF Inline
  <2>2. read_exact(r, m, n) =
          CASE y.kind = "error" -> Failed
            [] y.kind = "inline" ->
                 [kind |-> "inline", reader |-> Skip(y.reader, n), data |-> Bytes(y.reader, m)]
            [] y.kind = "external" ->
                 IF m = n THEN y
                 ELSE IF pad.kind = "error" THEN Failed
                 ELSE External(Skip(pad.reader, n - m), y.id)
    BY DEF read_exact
  <2>3. y.kind # "error" /\ y.kind # "external"
    BY <2>1
  <2> HIDE DEF y, pad
  <2>4. read_exact(r, m, n) = [kind |-> "inline", reader |-> Skip(y.reader, n), data |-> Bytes(y.reader, m)]
    BY <2>1, <2>2, <2>3
  <2>5. QED BY <1>9, <2>1, <2>4
<1>11. QED BY <1>4, <1>8, <1>10 DEF c, d, p, n, m

\* An object that was written, with its padding, is read.
LEMMA ExternalData ==
  ASSUME NEW f, IsFile(f), NEW v \in Writer, v.inline_buffer # <<>>, NEW e \in Entry,
         WrittenInto(write_inline(write_external(v, Content(e)), Fill(Stored(e.size) - e.size)), f),
         NEW r, Reads(r, v, f)
  PROVE  \E r2 : /\ read_exact(r, e.size, Stored(e.size)) = External(r2, Content(e))
                 /\ Reads(r2, write_inline(write_external(v, Content(e)), Fill(Stored(e.size) - e.size)), f)
<1> DEFINE c == Content(e)
           n == Stored(e.size)
           m == e.size
           p == Fill(n - m)
           x == write_external(v, c)
           t == write_inline(x, p)
<1>1. /\ c \in Seq(Byte) /\ p \in Seq(Byte) /\ Len(p) = n - m
      /\ m \in Nat /\ n \in Nat /\ n >= m
  BY PartsOfEntry
<1>2. x \in Writer /\ x.inline_buffer = <<>>
  BY <1>1, ExternalIs
<1>3. WrittenInto(t, f)
  BY Zenon
<1> HIDE DEF c, n, m, p, x
<1>4. WrittenInto(x, f)
  BY <1>1, <1>2, <1>3, InlineInto
<1>5. \E s : ensure_chunk(r, FALSE, TRUE, n) = External(s, c) /\ Reads(s, x, f)
  <2> DEFINE no == FALSE
  <2>1. WrittenInto(write_external(v, c), f)
    BY <1>4 DEF x
  <2> HIDE DEF no
  <2>2. ReadsExternal(r, v, c, f, n, no)
    BY <1>1, <2>1, ExternalRead
  <2>3. QED BY <2>2 DEF no, x, ReadsExternal
<1>6. PICK s : ensure_chunk(r, FALSE, TRUE, n) = External(s, c) /\ Reads(s, x, f)
  BY <1>5
<1> DEFINE y == ensure_chunk(r, FALSE, TRUE, n)
           pad == ensure_chunk(y.reader, FALSE, FALSE, n - m)
<1>7. y.kind = "external" /\ y.reader = s /\ y.id = c /\ y.kind # "error" /\ y.kind # "inline"
  <2>1. y = External(s, c)
    BY <1>6
  <2> HIDE DEF y
  <2>2. QED BY <2>1 DEF External
<1>8. read_exact(r, m, n) =
        CASE y.kind = "error" -> Failed
          [] y.kind = "inline" ->
               [kind |-> "inline", reader |-> Skip(y.reader, n), data |-> Bytes(y.reader, m)]
          [] y.kind = "external" ->
               IF m = n THEN y
               ELSE IF pad.kind = "error" THEN Failed
               ELSE External(Skip(pad.reader, n - m), y.id)
  BY DEF read_exact
<1>9. y = External(s, c)
  BY <1>6
<1> HIDE DEF y, t
<1>10. read_exact(r, m, n) =
        IF m = n THEN y ELSE IF pad.kind = "error" THEN Failed ELSE External(Skip(pad.reader, n - m), y.id)
  <2> HIDE DEF pad
  <2>1. QED BY <1>7, <1>8
<1>11. CASE m = n
  <2>1. p = <<>>
    <3>1. Len(p) = 0
      BY <1>1, <1>11
    <3>2. QED BY <1>1, <3>1, EmptySeq
  <2>2. t = x
    <3>1. write_inline(x, <<>>) = x
      <4>1. <<>> \in Seq(Byte)
        OBVIOUS
      <4>2. QED BY <1>2, <4>1, InlineWritten
    <3>2. QED BY <2>1, <3>1 DEF t
  <2>3. read_exact(r, m, n) = External(s, c)
    BY <1>9, <1>10, <1>11
  <2>4. QED BY <1>6, <2>2, <2>3 DEF t, x, c, p, n, m
<1>12. CASE m # n
  <2>1. n - m \in 0 .. Len(p) /\ n - m # 0 /\ p # <<>>
    <3>1. n - m # 0 /\ Len(p) # 0
      BY <1>1, <1>12
    <3>2. Len(<<>>) = 0
      OBVIOUS
    <3>3. QED BY <1>1, <3>1, <3>2
  <2>2. PICK z : /\ ensure_chunk(s, FALSE, FALSE, n - m) = Inline(z)
                 /\ Reads(Skip(z, n - m), write_inline(x, SubSeq(p, 1, n - m)), f)
    <3> DEFINE k == n - m
    <3>1. k \in 0 .. Len(p) /\ k # 0
      BY <2>1
    <3> HIDE DEF k
    <3> DEFINE no == FALSE
    <3>2. WrittenInto(write_inline(x, p), f)
      BY <1>3 DEF t
    <3> HIDE DEF no
    <3>3. ReadsInline(s, x, p, f, k, no, no)
      BY <1>1, <1>2, <1>6, <2>1, <3>1, <3>2, InlineRead
    <3>4. QED BY <3>3 DEF k, no, ReadsInline
  <2>3. SubSeq(p, 1, n - m) = p
    BY <1>1, SubSeqFull
  <2>4. pad.kind = "inline" /\ pad.reader = z /\ pad.kind # "error"
    <3>1. pad = Inline(z)
      BY <1>7, <2>2
    <3> HIDE DEF pad
    <3>2. QED BY <3>1 DEF Inline
  <2> HIDE DEF pad
  <2>5. read_exact(r, m, n) = External(Skip(z, n - m), c)
    BY <1>7, <1>10, <1>12, <2>4
  <2>6. Reads(Skip(z, n - m), t, f)
    BY <2>2, <2>3 DEF t
  <2>7. QED BY <2>5, <2>6 DEF t, x, c, p, n, m
<1>13. QED BY <1>11, <1>12

\* What an archive describes so far, and what it describes when it has ended.
Told(longname, found)    == [longname |-> longname, ended |-> FALSE, found |-> found]
ToldAll(longname, found) == [longname |-> longname, ended |-> TRUE, found |-> found]
ToldMore(s, longname, found) == [s EXCEPT !.longname = longname, !.found = found]

\* Something was written after what the writer had written.
Followed(w, f) == \E q \in Seq(Byte) : q # <<>> /\ WrittenInto(write_inline(w, q), f)

\* The data of an entry that split leaves inline is read: if it is empty, from what follows.
LEMMA InlineEntry ==
  ASSUME NEW f, IsFile(f), NEW v \in Writer, v.inline_buffer # <<>>, NEW e \in Entry,
         NEW w2, w2 = write_inline(v, Content(e) \o Fill(Stored(e.size) - e.size)),
         WrittenInto(w2, f), e.size # 0 \/ Followed(w2, f), NEW r, Reads(r, v, f)
  PROVE  \E r2 : /\ read_exact(r, e.size, Stored(e.size)) = [kind |-> "inline", reader |-> r2, data |-> Content(e)]
                 /\ Reads(r2, w2, f)
<1> DEFINE d == Content(e) \o Fill(Stored(e.size) - e.size)
<1>1. d \in Seq(Byte) /\ Len(d) = Stored(e.size) /\ e.size \in Nat /\ Stored(e.size) >= e.size /\ Stored(e.size) \in Nat
  BY PartsOfEntry
<1>2. \E q \in Seq(Byte) : d \o q # <<>> /\ WrittenInto(write_inline(v, d \o q), f)
  <2>1. CASE d # <<>>
    <3>1. d \o <<>> = d /\ <<>> \in Seq(Byte)
      <4> HIDE DEF d
      <4>1. QED BY <1>1, ConcatEmptySeq
    <3>2. WrittenInto(write_inline(v, d), f)
      OBVIOUS
    <3> HIDE DEF d
    <3>3. QED BY <2>1, <3>1, <3>2
  <2>2. CASE d = <<>>
    <3>1. e.size = 0
      <4>1. Len(<<>>) = 0
        OBVIOUS
      <4> HIDE DEF d
      <4>2. QED BY <1>1, <2>2, <4>1
    <3>2. PICK q \in Seq(Byte) : q # <<>> /\ WrittenInto(write_inline(w2, q), f)
      BY <3>1 DEF Followed
    <3>3. write_inline(w2, q) = write_inline(v, d \o q)
      <4>1. w2 = write_inline(v, d)
        BY Zenon
      <4> HIDE DEF d
      <4>2. QED BY <1>1, <4>1, InlineWritten
    <3>4. d \o q = q
      <4> HIDE DEF d
      <4>1. QED BY <2>2, ConcatEmptySeq
    <3> HIDE DEF d
    <3>5. QED BY <3>2, <3>3, <3>4
  <2>3. QED BY <2>1, <2>2
<1>3. PICK q \in Seq(Byte) : d \o q # <<>> /\ WrittenInto(write_inline(v, d \o q), f)
  BY <1>2
<1>4. QED BY <1>3, InlineData

Loop(r, longname, found, more) == [reader |-> r, longname |-> longname, found |-> found, more |-> more]
Ended(s, found, more)          == [s EXCEPT !.found = found, !.more = more]

\* Such records change.
LEMMA LoopChanges ==
  ASSUME NEW r, NEW longname, NEW found, NEW more, NEW r2, NEW longname2, NEW found2, NEW more2
  PROVE  LET s == Loop(r, longname, found, more)
         IN  /\ Ended(s, found2, more2) = Loop(r, longname, found2, more2)
             /\ Named(s, r2, longname2) = Loop(r2, longname2, found, more)
             /\ Grown(s, r2, longname2, found2) = Loop(r2, longname2, found2, more)
<1> DEFINE s == Loop(r, longname, found, more)
           a == [s EXCEPT !.found = found2]
           b == [s EXCEPT !.reader = r2]
           c == [b EXCEPT !.longname = longname2]
           d == [c EXCEPT !.found = found2]
           u == [a EXCEPT !.more = more2]
<1>1. u = Loop(r, longname, found2, more2)
  <2>1. a = Loop(r, longname, found2, more)
    BY DEF Loop
  <2> HIDE DEF a
  <2>2. QED BY <2>1 DEF Loop
<1>2. c = Loop(r2, longname2, found, more)
  <2>1. b = Loop(r2, longname, found, more)
    BY DEF Loop
  <2> HIDE DEF b
  <2>2. QED BY <2>1 DEF Loop
<1>3. d = Loop(r2, longname2, found2, more)
  <2> HIDE DEF c
  <2>1. QED BY <1>2 DEF Loop
<1>4. Ended(s, found2, more2) = u /\ Named(s, r2, longname2) = c /\ Grown(s, r2, longname2, found2) = d
  BY DEF Ended, Named, Grown
<1> HIDE DEF a, b, c, d, u
<1>5. QED BY <1>1, <1>2, <1>3, <1>4

\* A loop over get_entry changes.
LEMMA GotChanges ==
  ASSUME NEW r, NEW longname, NEW found, NEW r2, NEW longname2, NEW found2
  PROVE  LET s == Got(r, longname, found)
         IN  /\ Stopped(s, found2) = Over(r, longname, found2)
             /\ Named(s, r2, longname2) = Got(r2, longname2, found)
             /\ Grown(s, r2, longname2, found2) = Got(r2, longname2, found2)
<1> DEFINE yes == TRUE
           no == FALSE
           s == Got(r, longname, found)
<1>1. /\ s = Loop(r, longname, found, yes)
      /\ Got(r2, longname2, found) = Loop(r2, longname2, found, yes)
      /\ Got(r2, longname2, found2) = Loop(r2, longname2, found2, yes)
      /\ Over(r, longname, found2) = Loop(r, longname, found2, no)
  BY DEF Got, Over, Loop
<1>2. Stopped(s, found2) = Ended(s, found2, no)
  BY DEF Stopped, Ended
<1> HIDE DEF s, yes, no
<1>3. /\ Ended(s, found2, no) = Loop(r, longname, found2, no)
      /\ Named(s, r2, longname2) = Loop(r2, longname2, found, yes)
      /\ Grown(s, r2, longname2, found2) = Loop(r2, longname2, found2, yes)
  BY <1>1, LoopChanges
<1>4. QED BY <1>1, <1>2, <1>3 DEF s

Tale(longname, ended, found) == [longname |-> longname, ended |-> ended, found |-> found]
Finished(s, ended)            == [s EXCEPT !.ended = ended]

\* Such records change.
LEMMA TaleChanges ==
  ASSUME NEW longname, NEW ended, NEW found, NEW longname2, NEW found2
  PROVE  /\ ToldMore(Tale(longname, ended, found), longname2, found2) = Tale(longname2, ended, found2)
         /\ Finished(Tale(longname, ended, found), ended) = Tale(longname, ended, found)
<1> DEFINE s == Tale(longname, ended, found)
           t == [s EXCEPT !.longname = longname2]
           u == [t EXCEPT !.found = found2]
           v == [s EXCEPT !.ended = ended]
<1>1. t = Tale(longname2, ended, found)
  BY DEF Tale
<1>2. v = s
  BY DEF Tale
<1> HIDE DEF t
<1>3. u = Tale(longname2, ended, found2)
  BY <1>1 DEF Tale
<1>4. ToldMore(s, longname2, found2) = u /\ Finished(s, ended) = v
  BY DEF t, ToldMore, Finished
<1> HIDE DEF u, v
<1>5. QED BY <1>2, <1>3, <1>4

\* What an archive describes, told further.
LEMMA ToldChanges ==
  ASSUME NEW longname, NEW found, NEW longname2, NEW found2
  PROVE  /\ ToldMore(Told(longname, found), longname2, found2) = Told(longname2, found2)
         /\ [ToldAll(longname, found) EXCEPT !.ended = TRUE] = ToldAll(longname, found)
<1> DEFINE yes == TRUE
           no == FALSE
           s == ToldAll(longname, found)
<1>1. /\ Told(longname, found) = Tale(longname, no, found)
      /\ Told(longname2, found2) = Tale(longname2, no, found2)
      /\ s = Tale(longname, yes, found)
  BY DEF Told, ToldAll, Tale
<1> HIDE DEF yes, no, s
<1>2. /\ ToldMore(Tale(longname, no, found), longname2, found2) = Tale(longname2, no, found2)
      /\ Finished(Tale(longname, yes, found), yes) = Tale(longname, yes, found)
  BY TaleChanges
<1>3. Finished(s, yes) = s
  BY <1>1, <1>2
<1>4. [s EXCEPT !.ended = TRUE] = s
  BY <1>3 DEF Finished, yes
<1>5. QED BY <1>1, <1>2, <1>4 DEF s

\* A turn of get_entry that reads the header of an entry and its data.
LEMMA EntryGot ==
  ASSUME NEW r, NEW longname, NEW found, NEW r1, NEW e \in Entry, NEW d, d.kind # "error",
         read_inline_exact(r, BLOCK) = [kind |-> "inline", reader |-> r1, data |-> HeaderBlock(e)],
         read_exact(r1, e.size, Stored(e.size)) = d
  PROVE  GetEntry(Got(r, longname, found)) =
           IF e.type = "longname" /\ d.kind = "inline" THEN Got(d.reader, longname \o d.data, found)
           ELSE IF EntryOf(e, longname, d) = EntryError THEN Over(r, longname, Append(found, EntryError))
           ELSE Got(d.reader, <<>>, Append(found, EntryOf(e, longname, d)))
<1> DEFINE s == Got(r, longname, found)
           b == read_inline_exact(s.reader, BLOCK)
           h == CHOOSE x \in Headers(b.data) : TRUE
           g == read_exact(b.reader, h.size, Stored(h.size))
           x == EntryOf(h, s.longname, g)
           Stop(y) == [s EXCEPT !.found = Append(@, y), !.more = FALSE]
<1>1. s.reader = r /\ s.longname = longname /\ s.found = found /\ s.more = TRUE
  BY DEF Got
<1>2. b.kind = "inline" /\ b.reader = r1 /\ b.data = HeaderBlock(e)
  <2>1. b = [kind |-> "inline", reader |-> r1, data |-> HeaderBlock(e)]
    BY <1>1
  <2> HIDE DEF b
  <2>2. QED BY <2>1
<1>3. h = e
  <2>1. Headers(b.data) = {e}
    <3> HIDE DEF b
    <3>1. QED BY <1>2, HeaderIs
  <2> HIDE DEF b
  <2>2. QED BY <2>1
<1>4. b.data # Fill(BLOCK)
  <2> HIDE DEF b
  <2>1. QED BY <1>2, HeaderIs
<1>5. g = d
  <2> HIDE DEF b, h
  <2>1. QED BY <1>2, <1>3
<1>6. x = EntryOf(e, longname, d)
  <2> HIDE DEF b, h, g, s
  <2>1. QED BY <1>1, <1>3, <1>5
<1>7. /\ [s EXCEPT !.reader = d.reader, !.longname = @ \o d.data] = Got(d.reader, longname \o d.data, found)
      /\ Stop(EntryError) = Over(r, longname, Append(found, EntryError))
      /\ [s EXCEPT !.reader = d.reader, !.longname = <<>>, !.found = Append(@, x)]
           = Got(d.reader, <<>>, Append(found, x))
  <2> DEFINE z == Append(found, x)
             y == Append(found, EntryError)
             t == longname \o d.data
  <2>1. s = Got(r, longname, found)
    OBVIOUS
  <2> HIDE DEF s, x, y, z, t
  <2>2. Named(s, d.reader, t) = Got(d.reader, t, found)
    BY <2>1, GotChanges
  <2>3. Stopped(s, y) = Over(r, longname, y)
    BY <2>1, GotChanges
  <2>4. Grown(s, d.reader, <<>>, z) = Got(d.reader, <<>>, z)
    BY <2>1, GotChanges
  <2>5. [s EXCEPT !.reader = d.reader, !.longname = @ \o d.data] = Got(d.reader, longname \o d.data, found)
    BY <1>1, <2>2 DEF t, Named
  <2>6. Stop(EntryError) = Over(r, longname, Append(found, EntryError))
    BY <1>1, <2>3 DEF y, Stopped
  <2>7. [s EXCEPT !.reader = d.reader, !.longname = <<>>, !.found = Append(@, x)]
          = Got(d.reader, <<>>, Append(found, x))
    BY <1>1, <2>4 DEF z, Grown
  <2>8. QED BY <2>5, <2>6, <2>7
<1>8. GetEntry(s) =
        IF ~s.more THEN s
        ELSE IF b.kind = "error" THEN Stop(EntryError)
        ELSE IF b.kind = "eof" \/ b.data = Fill(BLOCK) THEN Stop(EndOfEntries)
        ELSE IF g.kind = "error" THEN Stop(EntryError)
        ELSE IF h.type = "longname" /\ g.kind = "inline"
             THEN [s EXCEPT !.reader = g.reader, !.longname = @ \o g.data]
        ELSE IF x = EntryError THEN Stop(EntryError)
        ELSE [s EXCEPT !.reader = g.reader, !.longname = <<>>, !.found = Append(@, x)]
  BY DEF GetEntry
<1> HIDE DEF b, h, g, x, s
<1>9. b.kind # "error" /\ ~(b.kind = "eof" \/ b.data = Fill(BLOCK)) /\ g.kind # "error"
  BY <1>2, <1>4, <1>5
<1>10. GetEntry(s) =
         IF e.type = "longname" /\ d.kind = "inline"
         THEN [s EXCEPT !.reader = d.reader, !.longname = @ \o d.data]
         ELSE IF x = EntryError THEN Stop(EntryError)
         ELSE [s EXCEPT !.reader = d.reader, !.longname = <<>>, !.found = Append(@, x)]
  <2> HIDE DEF Stop
  <2>1. s.more
    BY <1>1
  <2>2. QED BY <1>3, <1>5, <1>8, <1>9, <2>1
<1>11. GetEntry(s) =
         IF e.type = "longname" /\ d.kind = "inline" THEN Got(d.reader, longname \o d.data, found)
         ELSE IF x = EntryError THEN Over(r, longname, Append(found, EntryError))
         ELSE Got(d.reader, <<>>, Append(found, x))
  BY <1>7, <1>10
<1>12. QED BY <1>6, <1>11 DEF s

\* A turn of get_entry that reads zeros, or the end.
LEMMA EndGot ==
  ASSUME NEW r, NEW longname, NEW found, NEW b, b = read_inline_exact(r, BLOCK),
         b.kind = "eof" \/ (b.kind = "inline" /\ b.data = Fill(BLOCK))
  PROVE  GetEntry(Got(r, longname, found)) = Over(r, longname, Append(found, EndOfEntries))
<1> DEFINE s == Got(r, longname, found)
           h == CHOOSE x \in Headers(b.data) : TRUE
           g == read_exact(b.reader, h.size, Stored(h.size))
           x == EntryOf(h, s.longname, g)
           Stop(y) == [s EXCEPT !.found = Append(@, y), !.more = FALSE]
<1>1. s.reader = r /\ s.more = TRUE /\ s.found = found
  BY DEF Got
<1>2. Stop(EndOfEntries) = Over(r, longname, Append(found, EndOfEntries))
  <2> DEFINE y == Append(found, EndOfEntries)
  <2>1. s = Got(r, longname, found)
    OBVIOUS
  <2> HIDE DEF s, y
  <2>2. Stopped(s, y) = Over(r, longname, y)
    BY <2>1, GotChanges
  <2>3. QED BY <1>1, <2>2 DEF y, Stopped
<1>3. b = read_inline_exact(s.reader, BLOCK)
  BY <1>1
<1>4. GetEntry(s) =
        IF ~s.more THEN s
        ELSE IF b.kind = "error" THEN Stop(EntryError)
        ELSE IF b.kind = "eof" \/ b.data = Fill(BLOCK) THEN Stop(EndOfEntries)
        ELSE IF g.kind = "error" THEN Stop(EntryError)
        ELSE IF h.type = "longname" /\ g.kind = "inline"
             THEN [s EXCEPT !.reader = g.reader, !.longname = @ \o g.data]
        ELSE IF x = EntryError THEN Stop(EntryError)
        ELSE [s EXCEPT !.reader = g.reader, !.longname = <<>>, !.found = Append(@, x)]
  BY <1>3 DEF GetEntry
<1>5. b.kind # "error" /\ (b.kind = "eof" \/ b.data = Fill(BLOCK)) /\ s.more
  BY <1>1
<1>6. GetEntry(s) = Stop(EndOfEntries)
  <2> HIDE DEF s, h, g, x, Stop
  <2>1. QED BY <1>4, <1>5
<1>7. QED BY <1>2, <1>6

\* At zeros get_entry says that there are no more.
LEMMA ZerosGot ==
  ASSUME NEW f, IsFile(f), NEW w \in Writer, NEW e \in Entry, e.type = "end", WrittenInto(AfterEntry(w, e), f),
         NEW r, Reads(r, w, f), NEW longname, NEW found
  PROVE  /\ GetEntry(Got(r, longname, found)) = Over(r, longname, Append(found, EndOfEntries))
         /\ DescribedAfter(Told(longname, found), e) = ToldAll(longname, found)
<1> DEFINE a == Fill(BLOCK)
<1>1. a \in Seq(Byte) /\ Len(a) = BLOCK
  BY Blocks, FillIs
<1>2. WrittenInto(write_inline(w, a), f)
  BY DEF AfterEntry
<1> HIDE DEF a
<1>3. PICK r2 : read_inline_exact(r, BLOCK) = [kind |-> "inline", reader |-> r2, data |-> a]
  BY <1>1, <1>2, BlockRead
<1> DEFINE b == [kind |-> "inline", reader |-> r2, data |-> a]
<1>4. b.kind = "inline" /\ b.data = Fill(BLOCK) /\ b = read_inline_exact(r, BLOCK)
  BY <1>3 DEF a
<1> HIDE DEF b
<1>5. GetEntry(Got(r, longname, found)) = Over(r, longname, Append(found, EndOfEntries))
  BY <1>4, EndGot
<1>6. DescribedAfter(Told(longname, found), e) = ToldAll(longname, found)
  BY DEF DescribedAfter, Told, ToldAll
<1>7. QED BY <1>5, <1>6

\* Where all is read get_entry says that there are no more.
LEMMA EofGot ==
  ASSUME NEW f, IsFile(f), NEW w \in Writer, f.chunks = flush_inline(w).chunks,
         f.object_refs = flush_inline(w).object_refs, NEW r, Reads(r, w, f), NEW longname, NEW found
  PROVE  GetEntry(Got(r, longname, found)) = Over(r, longname, Append(found, EndOfEntries))
<1> DEFINE c == ensure_chunk(r, TRUE, FALSE, BLOCK)
           b == read_inline_exact(r, BLOCK)
<1>1. c = AtEof(r)
  BY EndRead
<1>2. c.kind # "inline" /\ c.kind = "eof"
  <2> HIDE DEF c
  <2>1. QED BY <1>1 DEF AtEof
<1>3. b = c
  <2>1. b = IF c.kind # "inline" THEN c
            ELSE [kind |-> "inline", reader |-> Skip(c.reader, BLOCK), data |-> Bytes(c.reader, BLOCK)]
    BY DEF read_inline_exact
  <2> HIDE DEF b, c
  <2>2. QED BY <1>2, <2>1
<1>4. b.kind = "eof"
  <2> HIDE DEF b, c
  <2>1. QED BY <1>2, <1>3
<1>5. b = read_inline_exact(r, BLOCK)
  OBVIOUS
<1> HIDE DEF b, c
<1>6. b.kind = "eof" \/ (b.kind = "inline" /\ b.data = Fill(BLOCK))
  BY <1>4
<1>7. QED BY <1>5, <1>6, EndGot

\* What get_entry makes of an entry is what the archive describes.
LEMMA SameItem ==
  ASSUME NEW e \in Entry, e.type # "end", e.type # "longname",
         e.size > INLINE_CONTENT_MAX => e.type \in {"regular", "directory"},
         NEW longname, NEW found, NEW d,
         IF IsLarge(e) THEN d.kind = "external" /\ d.id = Content(e)
         ELSE d.kind = "inline" /\ d.data = Content(e)
  PROVE  LET x == EntryOf(e, longname, d)
         IN  /\ x # EntryError
             /\ DescribedAfter(Told(longname, found), e) = Told(<<>>, Append(found, x))
<1> DEFINE x == EntryOf(e, longname, d)
           path == IF longname # <<>> THEN longname ELSE <<e.name>>
           c == Content(e)
           kind == IF e.size > INLINE_CONTENT_MAX THEN "external" ELSE "inline"
           one == IF e.type = "directory" THEN Item(path, "directory", <<>>) ELSE Item(path, kind, c)
           s == Told(longname, found)
<1>1. e.size \in Nat /\ INLINE_CONTENT_MAX \in Nat /\ Len(c) = e.size
  BY Blocks, PartsOfEntry
<1>2. IsLarge(e) <=> e.type = "regular" /\ e.size > INLINE_CONTENT_MAX
  BY DEF IsLarge
<1>3. x = IF d.kind = "external"
          THEN IF e.type \in {"regular", "continuous"} /\ e.size > INLINE_CONTENT_MAX
               THEN Item(path, "external", d.id) ELSE EntryError
          ELSE IF e.type = "directory" THEN Item(path, "directory", <<>>)
          ELSE IF Len(d.data) <= INLINE_CONTENT_MAX THEN Item(path, "inline", d.data)
          ELSE EntryError
  BY DEF EntryOf
<1> HIDE DEF x, path, c
<1>4. x = one
  <2>1. CASE IsLarge(e)
    <3>1. d.kind = "external" /\ d.id = c /\ e.type = "regular" /\ e.size > INLINE_CONTENT_MAX
      BY <1>2, <2>1 DEF c
    <3>2. e.type # "directory" /\ e.type \in {"regular", "continuous"} /\ kind = "external"
      BY <3>1
    <3> HIDE DEF kind
    <3>3. QED BY <1>3, <3>1, <3>2
  <2>2. CASE ~IsLarge(e)
    <3>1. d.kind = "inline" /\ d.data = c /\ d.kind # "external"
      BY <2>2 DEF c
    <3>2. e.type # "directory" => Len(d.data) <= INLINE_CONTENT_MAX /\ kind = "inline"
      BY <1>1, <1>2, <2>2, <3>1
    <3> HIDE DEF kind
    <3>3. QED BY <1>3, <3>1, <3>2
  <2>3. QED BY <2>1, <2>2
<1>5. one # EntryError
  <2>1. one.kind \in {"directory", "external", "inline"}
    BY DEF Item
  <2>2. EntryError.kind = "error"
    BY DEF EntryError, Item
  <2> HIDE DEF one
  <2>3. QED BY <2>1, <2>2
<1>6. s.longname = longname /\ s.ended = FALSE /\ s.found = found
  BY DEF Told
<1>7. DescribedAfter(s, e) =
        IF s.ended \/ e.type = "end" THEN [s EXCEPT !.ended = TRUE]
        ELSE IF e.type = "longname" THEN [s EXCEPT !.longname = @ \o Content(e)]
        ELSE [s EXCEPT !.longname = <<>>, !.found = Append(@, one)]
  <2> DEFINE to == IF s.longname # <<>> THEN s.longname ELSE <<e.name>>
             first == IF e.type = "directory" THEN Item(to, "directory", <<>>)
                      ELSE Item(to, IF e.size > INLINE_CONTENT_MAX THEN "external" ELSE "inline", Content(e))
  <2>1. DescribedAfter(s, e) =
          IF s.ended \/ e.type = "end" THEN [s EXCEPT !.ended = TRUE]
          ELSE IF e.type = "longname" THEN [s EXCEPT !.longname = @ \o Content(e)]
          ELSE [s EXCEPT !.longname = <<>>, !.found = Append(@, first)]
    BY DEF DescribedAfter
  <2>2. to = path
    BY <1>6 DEF path
  <2> HIDE DEF to, s
  <2>3. first = one
    BY <2>2 DEF c
  <2> HIDE DEF first, one
  <2>4. QED BY <2>1, <2>3
<1>8. DescribedAfter(s, e) = [s EXCEPT !.longname = <<>>, !.found = Append(@, one)]
  <2> HIDE DEF s, one
  <2>1. QED BY <1>6, <1>7
<1>9. [s EXCEPT !.longname = <<>>, !.found = Append(@, one)] = Told(<<>>, Append(found, one))
  <2>1. Append(s.found, one) = Append(found, one)
    BY <1>6
  <2> HIDE DEF one
  <2> DEFINE more == Append(found, one)
  <2> HIDE DEF more
  <2>2. [s EXCEPT !.longname = <<>>, !.found = more] = Told(<<>>, more)
    <3> DEFINE to == <<>>
    <3> HIDE DEF to
    <3>1. ToldMore(Told(longname, found), to, more) = Told(to, more)
      BY ToldChanges
    <3>2. QED BY <3>1 DEF to, ToldMore
  <2> HIDE DEF s
  <2>3. QED BY <2>1, <2>2 DEF more
<1> HIDE DEF one
<1>10. QED BY <1>4, <1>5, <1>8, <1>9 DEF s, x

\* A turn of get_entry at an entry gives what the archive describes there, and reads what
\* split has written for it.
LEMMA TurnGot ==
  ASSUME NEW f, IsFile(f), NEW w \in Writer, NEW e \in Entry, e.type # "end",
         e.size > INLINE_CONTENT_MAX => e.type \in {"regular", "directory", "longname", "end"},
         WrittenInto(AfterEntry(w, e), f), e.size # 0 \/ Followed(AfterEntry(w, e), f),
         NEW r, Reads(r, w, f), NEW longname, NEW found
  PROVE  \E r2, longname2, found2 :
           /\ GetEntry(Got(r, longname, found)) = Got(r2, longname2, found2)
           /\ DescribedAfter(Told(longname, found), e) = Told(longname2, found2)
           /\ Reads(r2, AfterEntry(w, e), f)
<1> DEFINE h == HeaderBlock(e)
           c == Content(e)
           p == Fill(Stored(e.size) - e.size)
           v == write_inline(w, h)
           w2 == AfterEntry(w, e)
<1>1. h \in Seq(Byte) /\ Len(h) = BLOCK /\ h # <<>>
  <2>1. h \in Seq(Byte) /\ Len(h) = BLOCK
    BY HeaderIs
  <2> HIDE DEF h
  <2>2. QED BY <2>1, Blocks, EmptySeq
<1>2. v \in Writer /\ WrittenInto(v, f)
  BY EntryInto
<1>3. v.inline_buffer # <<>>
  <2>1. v = [chunks |-> w.chunks, inline_buffer |-> w.inline_buffer \o h, object_refs |-> w.object_refs,
             total_size |-> w.total_size + Len(h)]
    BY InlineIs
  <2> HIDE DEF v, h
  <2>2. v.inline_buffer = w.inline_buffer \o h /\ w.inline_buffer \in Seq(Byte)
    BY <2>1 DEF Writer
  <2>3. QED BY <1>1, <2>2, ConcatEqualIffEmpty
<1>4. PICK r1 : /\ read_inline_exact(r, BLOCK) = [kind |-> "inline", reader |-> r1, data |-> h]
                /\ Reads(r1, v, f)
  <2>1. WrittenInto(write_inline(w, h), f)
    BY <1>2
  <2> HIDE DEF h
  <2>2. \E r1 : /\ read_inline_exact(r, BLOCK) = [kind |-> "inline", reader |-> r1, data |-> h]
                /\ Reads(r1, write_inline(w, h), f)
    BY <1>1, <2>1, BlockRead
  <2>3. QED BY <2>2
<1>5. w2 = IF IsLarge(e) THEN write_inline(write_external(v, c), p) ELSE write_inline(v, c \o p)
  BY DEF AfterEntry
<1>6. PICK d, r2 : /\ read_exact(r1, e.size, Stored(e.size)) = d /\ d.reader = r2 /\ Reads(r2, w2, f)
                   /\ IF IsLarge(e) THEN d.kind = "external" /\ d.id = c ELSE d.kind = "inline" /\ d.data = c
  <2> HIDE DEF v, w2
  <2>1. CASE IsLarge(e)
    <3>1. w2 = write_inline(write_external(v, c), p)
      BY <1>5, <2>1
    <3>2. WrittenInto(write_inline(write_external(v, Content(e)), Fill(Stored(e.size) - e.size)), f)
      BY <3>1 DEF w2
    <3>3. PICK r2 : /\ read_exact(r1, e.size, Stored(e.size)) = External(r2, c)
                    /\ Reads(r2, write_inline(write_external(v, c), p), f)
      BY <1>2, <1>3, <1>4, <3>2, ExternalData
    <3>4. External(r2, c).kind = "external" /\ External(r2, c).id = c /\ External(r2, c).reader = r2
      BY DEF External
    <3>5. QED BY <2>1, <3>1, <3>3, <3>4
  <2>2. CASE ~IsLarge(e)
    <3>1. w2 = write_inline(v, Content(e) \o Fill(Stored(e.size) - e.size))
      BY <1>5, <2>2
    <3>2. WrittenInto(w2, f) /\ (e.size # 0 \/ Followed(w2, f))
      BY DEF w2
    <3>3. PICK r2 : /\ read_exact(r1, e.size, Stored(e.size)) = [kind |-> "inline", reader |-> r2, data |-> c]
                    /\ Reads(r2, w2, f)
      BY <1>2, <1>3, <1>4, <3>1, <3>2, InlineEntry
    <3> DEFINE d == [kind |-> "inline", reader |-> r2, data |-> c]
    <3>4. d.kind = "inline" /\ d.data = c /\ d.reader = r2
      OBVIOUS
    <3> HIDE DEF d
    <3>5. read_exact(r1, e.size, Stored(e.size)) = d
      BY <3>3 DEF d
    <3>6. QED BY <2>2, <3>3, <3>4, <3>5
  <2>3. QED BY <2>1, <2>2
<1>7. d.kind # "error"
  BY <1>6
<1>8. GetEntry(Got(r, longname, found)) =
        IF e.type = "longname" /\ d.kind = "inline" THEN Got(d.reader, longname \o d.data, found)
        ELSE IF EntryOf(e, longname, d) = EntryError THEN Over(r, longname, Append(found, EntryError))
        ELSE Got(d.reader, <<>>, Append(found, EntryOf(e, longname, d)))
  <2>1. read_inline_exact(r, BLOCK) = [kind |-> "inline", reader |-> r1, data |-> HeaderBlock(e)]
    BY <1>4
  <2>2. read_exact(r1, e.size, Stored(e.size)) = d
    BY <1>6
  <2>3. QED BY <1>7, <2>1, <2>2, EntryGot
<1>9. CASE e.type = "longname"
  <2>1. ~IsLarge(e)
    BY <1>9 DEF IsLarge
  <2>2. d.kind = "inline" /\ d.data = c
    BY <1>6, <2>1
  <2>3. GetEntry(Got(r, longname, found)) = Got(r2, longname \o c, found)
    BY <1>6, <1>8, <1>9, <2>2
  <2>4. DescribedAfter(Told(longname, found), e) = Told(longname \o c, found)
    BY <1>9 DEF DescribedAfter, Told
  <2> HIDE DEF w2
  <2>5. QED BY <1>6, <2>3, <2>4 DEF w2
<1>10. CASE e.type # "longname"
  <2> DEFINE x == EntryOf(e, longname, d)
  <2>1. e.size > INLINE_CONTENT_MAX => e.type \in {"regular", "directory"}
    BY <1>10
  <2>2. x # EntryError /\ DescribedAfter(Told(longname, found), e) = Told(<<>>, Append(found, x))
    BY <1>6, <1>10, <2>1, SameItem
  <2> HIDE DEF x
  <2>3. GetEntry(Got(r, longname, found)) = Got(r2, <<>>, Append(found, x))
    BY <1>6, <1>8, <1>10, <2>2 DEF x
  <2> HIDE DEF w2
  <2>4. QED BY <1>6, <2>2, <2>3 DEF w2
<1>11. QED BY <1>9, <1>10

-------------------------------------------------------------------------------
(* Reading back: get_entry, turn by turn *)

\* What get_entry comes through when it is asked n times, and what it has returned then.
Gets(turn, file, n) ==
  /\ turn[0] = Got(NewReader(file), <<>>, <<>>)
  /\ \A i \in 1 .. n : turn[i] = GetEntry(turn[i - 1])
  /\ Entries(file) = turn[n].found

\* The fold in Entries goes from turn to turn.
LEMMA GetSteps ==
  ASSUME NEW file, NEW n \in Nat, file.total_size + 1 = n
  PROVE  \E turn : Gets(turn, file, n)
<1> DEFINE base == Got(NewReader(file), <<>>, <<>>)
           result == FoldLeft(LAMBDA t, i : GetEntry(t), base, [i \in 1 .. n |-> i])
           q == [i \in 1 .. n |-> i]
           Is(it, k) == it = [s \in SUBSET (1 .. k) |->
                               IF s = {} THEN base ELSE GetEntry(it[s \ {Max(s)}])]
           G == {k \in 0 .. n : \E it : Is(it, k)}
<1>1. DOMAIN q = 1 .. n /\ \A i \in 1 .. n : q[i] = i
  OBVIOUS
<1>2. result = FoldLeft(LAMBDA t, i : GetEntry(t), base, q)
  BY DEF result
<1> HIDE DEF base, q, result
<1>3. FoldLeft(LAMBDA t, i : GetEntry(t), base, q)
      = (CHOOSE it : it = [s \in SUBSET DOMAIN q |->
            IF s = {} THEN base ELSE GetEntry(it[s \ {Max(s)}])])[DOMAIN q]
  BY DEF FoldLeft, MapThenFoldSet
<1>4. 0 \in G
  <2> DEFINE it == [s \in SUBSET (1 .. 0) |-> base]
  <2>1. \A s \in SUBSET (1 .. 0) : s = {}
    OBVIOUS
  <2>2. Is(it, 0)
    BY <2>1
  <2> HIDE DEF it, Is
  <2>3. QED BY <2>2
<1>5. ASSUME NEW k \in 1 .. n, k - 1 \in G PROVE k \in G
  <2>1. PICK old : Is(old, k - 1)
    BY <1>5
  <2> DEFINE it == [s \in SUBSET (1 .. k) |->
                      IF k \in s THEN GetEntry(old[s \ {k}]) ELSE old[s]]
  <2>2. ASSUME NEW s \in SUBSET (1 .. k), k \notin s
        PROVE  s \in SUBSET (1 .. (k - 1)) /\ it[s] = old[s]
    BY <2>2
  <2>3. ASSUME NEW s \in SUBSET (1 .. k)
        PROVE  it[s] = IF s = {} THEN base ELSE GetEntry(it[s \ {Max(s)}])
    <3>1. CASE k \in s
      <4>1. Max(s) = k
        BY <3>1, GreatestNumber
      <4>2. s \ {k} \in SUBSET (1 .. k) /\ k \notin s \ {k}
        OBVIOUS
      <4>3. it[s \ {k}] = old[s \ {k}]
        BY <2>2, <4>2
      <4>4. it[s] = GetEntry(old[s \ {k}])
        BY <3>1
      <4>5. QED BY <3>1, <4>1, <4>3, <4>4
    <3>2. CASE k \notin s /\ s # {}
      <4>1. Max(s) \in s
        BY <3>2, GreatestNumber
      <4>2. s \ {Max(s)} \in SUBSET (1 .. k) /\ k \notin s \ {Max(s)}
        BY <3>2
      <4>3. it[s \ {Max(s)}] = old[s \ {Max(s)}] /\ it[s] = old[s] /\ s \in SUBSET (1 .. (k - 1))
        BY <2>2, <3>2, <4>2
      <4> HIDE DEF it
      <4>4. old[s] = GetEntry(old[s \ {Max(s)}])
        BY <2>1, <3>2, <4>3
      <4>5. QED BY <3>2, <4>3, <4>4
    <3>3. CASE s = {}
      <4>1. it[s] = old[s] /\ s \in SUBSET (1 .. (k - 1))
        BY <2>2, <3>3
      <4> HIDE DEF it
      <4>2. QED BY <2>1, <3>3, <4>1
    <3>4. QED BY <3>1, <3>2, <3>3
  <2>4. Is(it, k)
    <3> DEFINE r == [s \in SUBSET (1 .. k) |->
                      IF s = {} THEN base ELSE GetEntry(it[s \ {Max(s)}])]
    <3>1. DOMAIN it = SUBSET (1 .. k) /\ it = [s \in SUBSET (1 .. k) |-> it[s]]
      OBVIOUS
    <3> HIDE DEF it
    <3>2. \A s \in SUBSET (1 .. k) : it[s] = r[s]
      BY <2>3
    <3>3. it = r
      BY <3>1, <3>2
    <3>4. QED BY <3>3
  <2> HIDE DEF it, Is
  <2>5. QED BY <2>4
<1>6. n \in G
  <2> HIDE DEF G
  <2>1. 0 .. n \subseteq G
    BY <1>4, <1>5, IndexInduction
  <2>2. QED BY <2>1
<1>7. \E it : it = [s \in SUBSET DOMAIN q |->
            IF s = {} THEN base ELSE GetEntry(it[s \ {Max(s)}])]
  <2> DEFINE IsOn(it, D) == it = [s \in SUBSET D |->
                                   IF s = {} THEN base ELSE GetEntry(it[s \ {Max(s)}])]
  <2>1. \E it : Is(it, n)
    <3> HIDE DEF Is
    <3>1. QED BY <1>6
  <2>2. \E it : IsOn(it, 1 .. n)
    BY <2>1
  <2>3. DOMAIN q = 1 .. n
    BY <1>1
  <2>4. \E it : IsOn(it, DOMAIN q)
    <3> HIDE DEF IsOn
    <3>1. QED BY <2>2, <2>3
  <2>5. QED BY <2>4
<1>8. PICK it : /\ Is(it, n)
                /\ result = it[1 .. n]
  BY <1>1, <1>2, <1>3, <1>7
<1> DEFINE turn == [i \in 0 .. n |-> it[1 .. i]]
<1>9. turn[0] = base
  <2>1. 1 .. 0 = {} /\ {} \in SUBSET (1 .. n)
    OBVIOUS
  <2>2. QED BY <1>8, <2>1
<1>10. ASSUME NEW i \in 1 .. n PROVE turn[i] = GetEntry(turn[i - 1])
  <2>1. /\ 1 .. i \in SUBSET (1 .. n) /\ 1 .. i \in SUBSET (1 .. i) /\ i \in 1 .. i
        /\ (1 .. i) \ {i} = 1 .. (i - 1) /\ i - 1 \in 0 .. n
    OBVIOUS
  <2>2. Max(1 .. i) = i
    <3> DEFINE T == 1 .. i
    <3>1. T \in SUBSET (1 .. i) /\ T # {} /\ i \in T /\ i \in Nat
      BY <2>1
    <3> HIDE DEF T
    <3>2. Max(T) = i
      BY <3>1, GreatestNumber
    <3>3. QED BY <3>2 DEF T
  <2>3. it[1 .. i] = GetEntry(it[1 .. (i - 1)])
    BY <1>8, <2>1, <2>2
  <2>4. QED BY <1>1, <2>1, <2>3
<1>11. turn[n] = result
  <2>1. n \in 0 .. n
    OBVIOUS
  <2>2. QED BY <1>8, <2>1
<1> HIDE DEF turn
<1>12. Entries(file) = turn[n].found
  BY <1>11 DEF Entries, result, base, Got
<1>13. QED BY <1>9, <1>10, <1>12 DEF base, Gets

\* What an archive describes after each of its entries.
ToldOf(entries) == FoldLeft(LAMBDA s, e : DescribedAfter(s, e), Told(<<>>, <<>>), entries)

Tells(told, entries, n) ==
  /\ told[0] = Told(<<>>, <<>>)
  /\ \A i \in 1 .. n : told[i] = DescribedAfter(told[i - 1], entries[i])
  /\ ToldOf(entries) = told[n]

\* The fold in Described goes from entry to entry.
LEMMA TellingSteps ==
  ASSUME NEW q, NEW n \in Nat, DOMAIN q = 1 .. n
  PROVE  \E told : Tells(told, q, n)
<1> DEFINE base == Told(<<>>, <<>>)
           Is(it, k) == it = [s \in SUBSET (1 .. k) |->
                               IF s = {} THEN base ELSE DescribedAfter(it[s \ {Max(s)}], q[Max(s)])]
           G == {k \in 0 .. n : \E it : Is(it, k)}
<1>1. DOMAIN q = 1 .. n
  OBVIOUS
<1>2. ToldOf(q) = FoldLeft(LAMBDA s, e : DescribedAfter(s, e), base, q)
  BY DEF ToldOf
<1> HIDE DEF base
<1>3. FoldLeft(LAMBDA s, e : DescribedAfter(s, e), base, q)
      = (CHOOSE it : it = [s \in SUBSET DOMAIN q |->
            IF s = {} THEN base ELSE DescribedAfter(it[s \ {Max(s)}], q[Max(s)])])[DOMAIN q]
  BY DEF FoldLeft, MapThenFoldSet
<1>4. 0 \in G
  <2> DEFINE it == [s \in SUBSET (1 .. 0) |-> base]
  <2>1. \A s \in SUBSET (1 .. 0) : s = {}
    OBVIOUS
  <2>2. Is(it, 0)
    BY <2>1
  <2> HIDE DEF it, Is
  <2>3. QED BY <2>2
<1>5. ASSUME NEW k \in 1 .. n, k - 1 \in G PROVE k \in G
  <2>1. PICK old : Is(old, k - 1)
    BY <1>5
  <2> DEFINE it == [s \in SUBSET (1 .. k) |->
                      IF k \in s THEN DescribedAfter(old[s \ {k}], q[k]) ELSE old[s]]
  <2>2. ASSUME NEW s \in SUBSET (1 .. k), k \notin s
        PROVE  s \in SUBSET (1 .. (k - 1)) /\ it[s] = old[s]
    BY <2>2
  <2>3. ASSUME NEW s \in SUBSET (1 .. k)
        PROVE  it[s] = IF s = {} THEN base ELSE DescribedAfter(it[s \ {Max(s)}], q[Max(s)])
    <3>1. CASE k \in s
      <4>1. Max(s) = k
        BY <3>1, GreatestNumber
      <4>2. s \ {k} \in SUBSET (1 .. k) /\ k \notin s \ {k}
        OBVIOUS
      <4>3. it[s \ {k}] = old[s \ {k}]
        BY <2>2, <4>2
      <4>4. it[s] = DescribedAfter(old[s \ {k}], q[k])
        BY <3>1
      <4>5. QED BY <3>1, <4>1, <4>3, <4>4
    <3>2. CASE k \notin s /\ s # {}
      <4>1. Max(s) \in s
        BY <3>2, GreatestNumber
      <4>2. s \ {Max(s)} \in SUBSET (1 .. k) /\ k \notin s \ {Max(s)}
        BY <3>2
      <4>3. it[s \ {Max(s)}] = old[s \ {Max(s)}] /\ it[s] = old[s] /\ s \in SUBSET (1 .. (k - 1))
        BY <2>2, <3>2, <4>2
      <4> HIDE DEF it
      <4>4. old[s] = DescribedAfter(old[s \ {Max(s)}], q[Max(s)])
        BY <2>1, <3>2, <4>3
      <4>5. QED BY <3>2, <4>3, <4>4
    <3>3. CASE s = {}
      <4>1. it[s] = old[s] /\ s \in SUBSET (1 .. (k - 1))
        BY <2>2, <3>3
      <4> HIDE DEF it
      <4>2. QED BY <2>1, <3>3, <4>1
    <3>4. QED BY <3>1, <3>2, <3>3
  <2>4. Is(it, k)
    <3> DEFINE r == [s \in SUBSET (1 .. k) |->
                      IF s = {} THEN base ELSE DescribedAfter(it[s \ {Max(s)}], q[Max(s)])]
    <3>1. DOMAIN it = SUBSET (1 .. k) /\ it = [s \in SUBSET (1 .. k) |-> it[s]]
      OBVIOUS
    <3> HIDE DEF it
    <3>2. \A s \in SUBSET (1 .. k) : it[s] = r[s]
      BY <2>3
    <3>3. it = r
      BY <3>1, <3>2
    <3>4. QED BY <3>3
  <2> HIDE DEF it, Is
  <2>5. QED BY <2>4
<1>6. n \in G
  <2> HIDE DEF G
  <2>1. 0 .. n \subseteq G
    BY <1>4, <1>5, IndexInduction
  <2>2. QED BY <2>1
<1>7. \E it : it = [s \in SUBSET DOMAIN q |->
            IF s = {} THEN base ELSE DescribedAfter(it[s \ {Max(s)}], q[Max(s)])]
  BY <1>1, <1>6
<1>8. PICK it : /\ Is(it, n)
                /\ ToldOf(q) = it[1 .. n]
  BY <1>1, <1>2, <1>3, <1>7
<1> DEFINE told == [i \in 0 .. n |-> it[1 .. i]]
<1>9. told[0] = base
  <2>1. 1 .. 0 = {} /\ {} \in SUBSET (1 .. n)
    OBVIOUS
  <2>2. QED BY <1>8, <2>1
<1>10. ASSUME NEW i \in 1 .. n PROVE told[i] = DescribedAfter(told[i - 1], q[i])
  <2>1. /\ 1 .. i \in SUBSET (1 .. n) /\ 1 .. i \in SUBSET (1 .. i) /\ i \in 1 .. i
        /\ (1 .. i) \ {i} = 1 .. (i - 1) /\ i - 1 \in 0 .. n
    OBVIOUS
  <2>2. Max(1 .. i) = i
    <3> DEFINE T == 1 .. i
    <3>1. T \in SUBSET (1 .. i) /\ T # {} /\ i \in T /\ i \in Nat
      BY <2>1
    <3> HIDE DEF T
    <3>2. Max(T) = i
      BY <3>1, GreatestNumber
    <3>3. QED BY <3>2 DEF T
  <2>3. it[1 .. i] = DescribedAfter(it[1 .. (i - 1)], q[i])
    BY <1>8, <2>1, <2>2
  <2>4. QED BY <1>1, <2>1, <2>3
<1>11. told[n] = ToldOf(q)
  <2>1. n \in 0 .. n
    OBVIOUS
  <2>2. QED BY <1>8, <2>1
<1> HIDE DEF told
<1>12. QED BY <1>9, <1>10, <1>11 DEF base, Tells

\* A loop that is over stays as it is, and so does the end of what an archive describes.
LEMMA OverStays ==
  ASSUME NEW r, NEW longname, NEW found, NEW e
  PROVE  /\ GetEntry(Over(r, longname, found)) = Over(r, longname, found)
         /\ DescribedAfter(ToldAll(longname, found), e) = ToldAll(longname, found)
<1> DEFINE s == Over(r, longname, found)
           t == ToldAll(longname, found)
<1>1. s.more = FALSE
  BY DEF Over
<1>2. GetEntry(s) = s
  <2> HIDE DEF s
  <2>1. QED BY <1>1 DEF GetEntry
<1>3. t.ended = TRUE
  BY DEF ToldAll
<1>4. [t EXCEPT !.ended = TRUE] = t
  BY ToldChanges
<1>5. DescribedAfter(t, e) = t
  <2> HIDE DEF t
  <2>1. DescribedAfter(t, e) = [t EXCEPT !.ended = TRUE]
    BY <1>3 DEF DescribedAfter
  <2>2. QED BY <1>4, <2>1
<1>6. QED BY <1>2, <1>5

\* Before an entry that was written, something was written after the others.
LEMMA NextFollows ==
  ASSUME NEW f, IsFile(f), NEW w \in Writer, NEW e \in Entry, WrittenInto(AfterEntry(w, e), f)
  PROVE  Followed(w, f)
<1>1. CASE e.type = "end"
  <2> DEFINE a == Fill(BLOCK)
  <2>1. a \in Seq(Byte) /\ Len(a) = BLOCK /\ BLOCK > 0 /\ BLOCK \in Nat
    BY Blocks, FillIs
  <2>2. WrittenInto(write_inline(w, a), f)
    BY <1>1 DEF AfterEntry
  <2> HIDE DEF a
  <2>3. a # <<>>
    BY <2>1, EmptySeq
  <2>4. QED BY <2>1, <2>2, <2>3 DEF Followed
<1>2. CASE e.type # "end"
  <2> DEFINE a == HeaderBlock(e)
  <2>1. a \in Seq(Byte) /\ Len(a) = BLOCK /\ BLOCK > 0 /\ BLOCK \in Nat
    BY Blocks, HeaderIs
  <2>2. WrittenInto(write_inline(w, a), f)
    BY <1>2, EntryInto
  <2> HIDE DEF a
  <2>3. a # <<>>
    BY <2>1, EmptySeq
  <2>4. QED BY <2>1, <2>2, <2>3 DEF Followed
<1>3. QED BY <1>1, <1>2

\* get_entry has returned what an archive describes, and read what split has written for that;
\* or it is over, with what the archive describes.
Matches(t, d, w, f) ==
  \/ \E r, longname, found : /\ t = Got(r, longname, found) /\ d = Told(longname, found)
                             /\ Reads(r, w, f)
  \/ \E r, longname, found : /\ t = Over(r, longname, Append(found, EndOfEntries))
                             /\ d = ToldAll(longname, found)

\* One entry more.
LEMMA TurnMatches ==
  ASSUME NEW f, IsFile(f), NEW w \in Writer, NEW e \in Entry,
         e.size > INLINE_CONTENT_MAX => e.type \in {"regular", "directory", "longname", "end"},
         WrittenInto(AfterEntry(w, e), f), e.type = "end" \/ e.size # 0 \/ Followed(AfterEntry(w, e), f),
         NEW t, NEW d, Matches(t, d, w, f)
  PROVE  Matches(GetEntry(t), DescribedAfter(d, e), AfterEntry(w, e), f)
<1>1. CASE \E r, longname, found : /\ t = Got(r, longname, found) /\ d = Told(longname, found)
                                   /\ Reads(r, w, f)
  <2>1. PICK r, longname, found : /\ t = Got(r, longname, found) /\ d = Told(longname, found)
                                  /\ Reads(r, w, f)
    BY <1>1
  <2>2. CASE e.type = "end"
    BY <2>1, <2>2, ZerosGot DEF Matches
  <2>3. CASE e.type # "end"
    <3>1. PICK r2, longname2, found2 :
            /\ GetEntry(Got(r, longname, found)) = Got(r2, longname2, found2)
            /\ DescribedAfter(Told(longname, found), e) = Told(longname2, found2)
            /\ Reads(r2, AfterEntry(w, e), f)
      BY <2>1, <2>3, TurnGot
    <3>2. QED BY <2>1, <3>1 DEF Matches
  <2>4. QED BY <2>2, <2>3
<1>2. CASE \E r, longname, found : /\ t = Over(r, longname, Append(found, EndOfEntries))
                                   /\ d = ToldAll(longname, found)
  <2>1. PICK r, longname, found : /\ t = Over(r, longname, Append(found, EndOfEntries))
                                  /\ d = ToldAll(longname, found)
    BY <1>2
  <2>2. GetEntry(t) = t /\ DescribedAfter(d, e) = d
    BY <2>1, OverStays
  <2>3. QED BY <2>1, <2>2 DEF Matches
<1>3. QED BY <1>1, <1>2 DEF Matches

\* Asked once more than there are entries, or oftener, get_entry has returned what the
\* archive describes, and that there is no more.
LEMMA EndMatches ==
  ASSUME NEW f, IsFile(f), NEW w \in Writer, f.chunks = flush_inline(w).chunks,
         f.object_refs = flush_inline(w).object_refs,
         NEW n \in Nat, NEW m \in Nat, n < m, NEW turn, Gets(turn, f, m), NEW d, Matches(turn[n], d, w, f)
  PROVE  Entries(f) = Append(d.found, EndOfEntries)
<1>1. n + 1 \in 1 .. m /\ (n + 1) - 1 = n
  OBVIOUS
<1>2. turn[n + 1] = GetEntry(turn[n])
  BY <1>1 DEF Gets
<1>3. PICK r, longname, found : /\ turn[n + 1] = Over(r, longname, Append(found, EndOfEntries))
                                /\ d.found = found
  <2>1. CASE \E r, longname, found : /\ turn[n] = Got(r, longname, found) /\ d = Told(longname, found)
                                     /\ Reads(r, w, f)
    <3>1. PICK r, longname, found : /\ turn[n] = Got(r, longname, found) /\ d = Told(longname, found)
                                    /\ Reads(r, w, f)
      BY <2>1
    <3>2. GetEntry(Got(r, longname, found)) = Over(r, longname, Append(found, EndOfEntries))
      BY <3>1, EofGot
    <3>3. d.found = found
      BY <3>1 DEF Told, ToldAll
    <3>4. QED BY <1>2, <3>1, <3>2, <3>3
  <2>2. CASE \E r, longname, found : /\ turn[n] = Over(r, longname, Append(found, EndOfEntries))
                                     /\ d = ToldAll(longname, found)
    <3>1. PICK r, longname, found : /\ turn[n] = Over(r, longname, Append(found, EndOfEntries))
                                    /\ d = ToldAll(longname, found)
      BY <2>2
    <3>2. GetEntry(turn[n]) = turn[n]
      BY <3>1, OverStays
    <3>3. d.found = found
      BY <3>1 DEF Told, ToldAll
    <3>4. QED BY <1>2, <3>1, <3>2, <3>3
  <2>3. QED BY <2>1, <2>2 DEF Matches
<1> DEFINE last == Over(r, longname, Append(found, EndOfEntries))
           G == {i \in 0 .. m : i > n => turn[i] = last}
<1>4. 0 \in G
  OBVIOUS
<1>5. ASSUME NEW i \in 1 .. m, i - 1 \in G PROVE i \in G
  <2>1. turn[i] = GetEntry(turn[i - 1]) /\ GetEntry(last) = last
    BY OverStays DEF Gets
  <2>2. CASE i - 1 > n
    <3> HIDE DEF last
    <3>1. QED BY <1>5, <2>1, <2>2
  <2>3. CASE ~(i - 1 > n)
    <3>1. i > n => i = n + 1
      BY <2>3
    <3> HIDE DEF last
    <3>2. QED BY <1>3, <3>1 DEF last
  <2>4. QED BY <2>2, <2>3
<1>6. 0 .. m \subseteq G
  <2> HIDE DEF G
  <2>1. QED BY <1>4, <1>5, IndexInduction
<1>7. turn[m] = last
  BY <1>6
<1>8. last.found = Append(found, EndOfEntries)
  BY DEF Over
<1>9. QED BY <1>3, <1>7, <1>8 DEF Gets

\* From the file that split makes of an archive, get_entry returns what the archive
\* describes, and then that there is no more.
LEMMA ReadAsDescribed ==
  ASSUME NEW a, a.entries \in Seq(Entry), Readable(a), NEW ws, Writers(ws, a.entries),
         NEW f, f = done(ws[Len(a.entries)]), f.total_size \in Nat, Len(a.entries) <= f.total_size
  PROVE  Entries(f) = Append(Described(a), EndOfEntries)
<1> DEFINE entries == a.entries
           n == Len(entries)
           v == ws[n]
           m == f.total_size + 1
<1>1. n \in Nat /\ m \in Nat /\ n < m
  OBVIOUS
<1>2. DOMAIN entries = 1 .. n /\ \A k \in 1 .. n : entries[k] \in Entry
  OBVIOUS
<1>3. v \in Writer
  <2>1. n \in 0 .. n
    BY <1>1
  <2>2. QED BY <2>1 DEF Writers
<1>4. /\ f.chunks = flush_inline(v).chunks /\ f.object_refs = flush_inline(v).object_refs
  <2> HIDE DEF v
  <2>1. f = [object_refs |-> flush_inline(v).object_refs, chunks |-> flush_inline(v).chunks,
             total_size |-> flush_inline(v).total_size]
    BY DEF done, v, n, entries
  <2>2. QED BY <2>1
<1>5. IsFile(f)
  <2> DEFINE u == flush_inline(v)
  <2>1. u \in Writer
    BY <1>3, Flushed
  <2>2. f.chunks = u.chunks /\ f.object_refs = u.object_refs
    BY <1>4
  <2> HIDE DEF u
  <2>3. QED BY <2>1, <2>2 DEF IsFile, Writer
<1>6. \A k \in 0 .. n : WrittenInto(ws[k], f)
  <2>1. WrittenInto(v, f)
    <3> HIDE DEF v
    <3>1. QED BY <1>3, <1>4, <1>5, AllWritten
  <2>2. QED BY <1>5, <2>1, AllInto
<1>7. PICK turn : Gets(turn, f, m)
  BY <1>1, GetSteps
<1>8. PICK told : Tells(told, entries, n)
  BY <1>1, <1>2, TellingSteps
<1> DEFINE G == {k \in 0 .. n : Matches(turn[k], told[k], ws[k], f)}
<1>9. 0 \in G
  <2>1. turn[0] = Got(NewReader(f), <<>>, <<>>) /\ told[0] = Told(<<>>, <<>>) /\ ws[0] = NewWriter
    BY <1>7, <1>8 DEF Gets, Tells, Writers
  <2>2. Reads(NewReader(f), NewWriter, f)
    <3>1. NewWriter.inline_buffer = <<>> /\ NewWriter.chunks = <<>> /\ Len(<<>>) + 1 = 1
      BY DEF NewWriter
    <3>2. NewReader(f) = ReaderAt(f, Len(NewWriter.chunks) + 1, 0)
      BY <3>1 DEF NewReader, ReaderAt
    <3>3. QED BY <3>1, <3>2 DEF Reads
  <2>3. Matches(turn[0], told[0], ws[0], f)
    BY <2>1, <2>2 DEF Matches
  <2>4. QED BY <1>1, <2>3
<1>10. ASSUME NEW k \in 1 .. n, k - 1 \in G PROVE k \in G
  <2> DEFINE e == entries[k]
             w == ws[k - 1]
  <2>1. k \in 1 .. m /\ k - 1 \in 0 .. n /\ k \in 0 .. n
    BY <1>1
  <2>2. /\ turn[k] = GetEntry(turn[k - 1]) /\ told[k] = DescribedAfter(told[k - 1], e)
        /\ ws[k] = AfterEntry(w, e) /\ w \in Writer
    BY <1>7, <1>8, <2>1 DEF Gets, Tells, Writers
  <2>3. WrittenInto(AfterEntry(w, e), f)
    <3>1. WrittenInto(ws[k], f)
      BY <1>6, <2>1
    <3>2. QED BY <2>2, <3>1
  <2>4. e \in Entry
    BY <1>2
  <2>5. e.size > INLINE_CONTENT_MAX => e.type \in {"regular", "directory", "longname", "end"}
    <3>1. e \in ToSet(entries)
      BY <1>2 DEF ToSet
    <3>2. QED BY <3>1 DEF Readable
  <2>6. e.type = "end" \/ e.size # 0 \/ Followed(AfterEntry(w, e), f)
    <3>1. CASE k = n
      <4>1. e = Last(entries) /\ entries # <<>>
        BY <1>1, <3>1 DEF Last
      <4> HIDE DEF e
      <4>2. e.type # "end" => e.size > 0
        BY <4>1 DEF Readable
      <4>3. e.size \in Nat
        BY <2>4 DEF Entry
      <4>4. QED BY <4>2, <4>3
    <3>2. CASE k # n
      <4>1. k + 1 \in 1 .. n /\ k + 1 \in 0 .. n /\ (k + 1) - 1 = k
        BY <1>1, <3>2
      <4>2. /\ ws[k] \in Writer /\ ws[k + 1] = AfterEntry(ws[k], entries[k + 1])
            /\ entries[k + 1] \in Entry /\ WrittenInto(ws[k + 1], f)
        BY <1>2, <1>6, <2>1, <4>1 DEF Writers
      <4>3. Followed(ws[k], f)
        BY <1>5, <4>2, NextFollows
      <4>4. QED BY <2>2, <4>3
    <3>3. QED BY <3>1, <3>2
  <2>7. Matches(turn[k - 1], told[k - 1], w, f)
    BY <1>10
  <2> HIDE DEF e, w
  <2>8. Matches(GetEntry(turn[k - 1]), DescribedAfter(told[k - 1], e), AfterEntry(w, e), f)
    BY <1>5, <2>2, <2>3, <2>4, <2>5, <2>6, <2>7, TurnMatches
  <2>9. QED BY <2>1, <2>2, <2>8
<1>11. 0 .. n \subseteq G
  <2> HIDE DEF G, n
  <2>1. QED BY <1>1, <1>9, <1>10, IndexInduction
<1>12. Matches(turn[n], told[n], v, f)
  BY <1>1, <1>11
<1>13. Described(a) = told[n].found
  <2>1. Described(a) = ToldOf(entries).found
    BY DEF Described, ToldOf, Told
  <2>2. QED BY <1>8, <2>1 DEF Tells
<1> HIDE DEF v, n, m, G
<1>14. Entries(f) = Append(told[n].found, EndOfEntries)
  <2> DEFINE d == told[n]
  <2>1. Matches(turn[n], d, v, f)
    BY <1>12
  <2> HIDE DEF d
  <2>2. Entries(f) = Append(d.found, EndOfEntries)
    BY <1>1, <1>3, <1>4, <1>5, <1>7, <2>1, EndMatches
  <2>3. QED BY <2>2 DEF d
<1>15. QED BY <1>13, <1>14

\* The invariant says what ReadsBack does.
LEMMA FindsEntries == IInv => ReadsBack
<1>1. SUFFICES ASSUME IInv, NEW l \in Layer, layer[l].pc = "stored", archive[l].cut = 0, Readable(archive[l])
               PROVE  Entries(layer[l].file) = Append(Described(archive[l]), EndOfEntries)
  BY FindsBytes DEF ReadsBack
<1> DEFINE a == archive[l]
           entries == a.entries
           bytes == Input(l)
           n == Len(entries)
<1>2. LayerTyped(bytes, layer[l], tasks[l]) /\ WellStored(bytes, layer[l], objects) /\ archive \in Imports
  BY <1>1 DEF IInv, LayersOk, LayerOk, Shape
<1>3. ~split(bytes).failed /\ layer[l].file = split(bytes).file
  BY <1>1, <1>2 DEF WellStored
<1>4. IsArchive(a)
  BY <1>2, ImportsAreArchives
<1>5. entries \in Seq(Entry) /\ n \in Nat
  BY <1>4 DEF IsArchive
<1>6. BytesOf(entries) \in Seq(Byte)
  BY <1>5, BytesTyped
<1>7. bytes = BytesOf(entries)
  <2> DEFINE whole == BytesOf(entries)
  <2>1. WholeBytes(a) = whole
    BY DEF WholeBytes, BytesOf
  <2>2. bytes = SubSeq(whole, 1, Len(whole) - 0)
    BY <1>1, <2>1 DEF Input, ArchiveBytes
  <2> HIDE DEF whole, bytes
  <2>3. whole \in Seq(Byte) /\ Len(whole) - 0 = Len(whole)
    BY <1>6 DEF whole
  <2>4. SubSeq(whole, 1, Len(whole)) = whole
    BY <2>3, SubSeqFull
  <2>5. QED BY <2>2, <2>3, <2>4 DEF whole
<1>8. PICK ws : Writers(ws, entries)
  BY <1>5, WritersAre
<1>9. split(bytes) = [failed |-> FALSE, file |-> done(ws[n])] /\ n <= Len(bytes)
  BY <1>5, <1>7, <1>8, WholeSplit
<1>10. layer[l].file = done(ws[n])
  BY <1>3, <1>9
<1>11. split(bytes).file.total_size = Len(bytes) /\ Len(bytes) \in Nat
  BY <1>3, <1>6, <1>7, SplitMerges
<1> DEFINE f == layer[l].file
<1>12. f = done(ws[Len(a.entries)]) /\ f.total_size \in Nat /\ Len(a.entries) <= f.total_size
  BY <1>3, <1>9, <1>10, <1>11
<1>13. Readable(a) /\ a.entries \in Seq(Entry) /\ Writers(ws, a.entries)
  BY <1>1, <1>5, <1>8
<1> HIDE DEF a, f
<1>14. Entries(f) = Append(Described(a), EndOfEntries)
  BY <1>12, <1>13, ReadAsDescribed
<1>15. QED BY <1>14 DEF a, f

\* Every stream that an import stores can be read again: cat gives back the archive, and
\* get_entry, from the stream alone, every entry that a readable archive describes, in order,
\* and then that there is no more.
THEOREM StoredStreamsRead == Spec => []ReadsBack
BY Invariance, FindsEntries, PTL
===============================================================================
