-------------------------- MODULE HttpDownloadProofs ---------------------------
(***************************************************************************)
(* A download that says it is done has everything, and never has more      *)
(* tasks than it may: for any data, any server, any limit and any failures *)
(* of requests.                                                            *)
(***************************************************************************)
EXTENDS HttpDownloadSafety, FiniteSetTheorems, DataLemmas

Reference == [id : DOMAIN Data, body : Checksums]

\* What a download may know of streams.
Knowledge == UNION {[D -> Checksums \cup {None}] : D \in SUBSET DOMAIN Data}

Followed == [known : Knowledge, todo : Seq(DOMAIN Data), ok : BOOLEAN]

\* a is what comes of following the first references of a stream.
Follows(a, known, named, i) ==
  a.ok =>
    /\ DOMAIN a.known = DOMAIN known \cup ToSet(a.todo)
    /\ \A s \in DOMAIN known : a.known[s] = known[s]
    /\ \A j \in 1 .. i : named[j].id \in DOMAIN a.known /\ a.known[named[j].id] = named[j].body

LEMMA KnowledgeIs ==
  ASSUME NEW f
  PROVE  f \in Knowledge <=> /\ DOMAIN f \subseteq DOMAIN Data
                             /\ f \in [DOMAIN f -> Checksums \cup {None}]
BY DEF Knowledge

LEMMA AddReferenceFollows ==
  ASSUME NEW a \in Followed, NEW known, NEW named \in Seq(Reference), NEW i \in 1 .. Len(named)
  PROVE  /\ AddReference(a, named[i]) \in Followed
         /\ Follows(a, known, named, i - 1) => Follows(AddReference(a, named[i]), known, named, i)
<1> DEFINE ref == named[i]
           b == AddReference(a, ref)
<1>1. ref.id \in DOMAIN Data /\ ref.body \in Checksums
  <2>1. ref \in Reference
    OBVIOUS
  <2>2. QED BY <2>1 DEF Reference
<1>2. a.known \in Knowledge /\ a.todo \in Seq(DOMAIN Data) /\ a.ok \in BOOLEAN
  BY DEF Followed
<1>3. DOMAIN a.known \subseteq DOMAIN Data /\ a.known \in [DOMAIN a.known -> Checksums \cup {None}]
  BY <1>2, KnowledgeIs
<1>4. CASE ~a.ok \/ (ref.id \in DOMAIN a.known /\ a.known[ref.id] # ref.body)
  <2>1. b = [known |-> a.known, todo |-> a.todo, ok |-> FALSE]
    BY <1>4 DEF AddReference
  <2>2. b \in Followed /\ ~b.ok
    BY <1>2, <2>1 DEF Followed
  <2>3. QED BY <2>2 DEF Follows
<1>5. CASE ~(~a.ok \/ (ref.id \in DOMAIN a.known /\ a.known[ref.id] # ref.body))
  <2> DEFINE k == [s \in DOMAIN a.known \cup {ref.id} |-> IF s = ref.id THEN ref.body ELSE a.known[s]]
             t == IF ref.id \in DOMAIN a.known THEN a.todo ELSE Append(a.todo, ref.id)
  <2>1. b = [known |-> k, todo |-> t, ok |-> TRUE]
    BY <1>5 DEF AddReference
  <2>2. DOMAIN k = DOMAIN a.known \cup {ref.id} /\ k[ref.id] = ref.body /\ \A s \in DOMAIN a.known : k[s] = a.known[s]
    BY <1>5
  <2>3. k \in Knowledge
    <3>1. k \in [DOMAIN k -> Checksums \cup {None}] /\ DOMAIN k \subseteq DOMAIN Data
      BY <1>1, <1>3
    <3> HIDE DEF k
    <3>2. QED BY <3>1, KnowledgeIs
  <2>4. t \in Seq(DOMAIN Data)
    <3>1. CASE ref.id \in DOMAIN a.known
      BY <1>2, <3>1
    <3>2. CASE ref.id \notin DOMAIN a.known
      BY <1>1, <1>2, <3>2, AppendedSet
    <3>3. QED BY <3>1, <3>2
  <2> HIDE DEF k, t
  <2>5. b \in Followed
    BY <2>1, <2>3, <2>4 DEF Followed
  <2>6. ASSUME Follows(a, known, named, i - 1) PROVE Follows(b, known, named, i)
    <3>1. /\ DOMAIN a.known = DOMAIN known \cup ToSet(a.todo)
          /\ \A s \in DOMAIN known : a.known[s] = known[s]
          /\ \A j \in 1 .. i - 1 : named[j].id \in DOMAIN a.known /\ a.known[named[j].id] = named[j].body
      BY <1>5, <2>6 DEF Follows
    <3>2. DOMAIN k = DOMAIN known \cup ToSet(t)
      <4>1. CASE ref.id \in DOMAIN a.known
        BY <2>2, <3>1, <4>1 DEF t
      <4>2. CASE ref.id \notin DOMAIN a.known
        <5>1. ToSet(t) = ToSet(a.todo) \cup {ref.id}
          BY <1>1, <1>2, <4>2, AppendedSet DEF t
        <5>2. QED BY <2>2, <3>1, <5>1
      <4>3. QED BY <4>1, <4>2
    <3>3. \A s \in DOMAIN known : k[s] = known[s]
      BY <2>2, <3>1
    <3>4. ASSUME NEW j \in 1 .. i PROVE named[j].id \in DOMAIN k /\ k[named[j].id] = named[j].body
      <4>1. j = i \/ j \in 1 .. i - 1
        OBVIOUS
      <4>2. QED BY <2>2, <3>1, <4>1
    <3>5. b.known = k /\ b.todo = t
      BY <2>1
    <3>6. QED BY <3>2, <3>3, <3>4, <3>5 DEF Follows
  <2>7. QED BY <2>5, <2>6
<1>6. QED
  BY <1>4, <1>5
\* All references of a stream are followed, in the loop over named_refs.
LEMMA AllFollowed ==
  ASSUME splitstreams \in Knowledge, NEW named \in Seq(Reference)
  PROVE  /\ SplitstreamsWith(named) \in Followed
         /\ Follows(SplitstreamsWith(named), splitstreams, named, Len(named))
<1> DEFINE n == Len(named)
           base == [known |-> splitstreams, todo |-> <<>>, ok |-> TRUE]
           step == [x \in (1 .. n) \X Followed |-> AddReference(x[2], named[x[1]])]
           Def(f) == f = [i \in 0 .. Len(named) |->
                            IF i = 0 THEN [known |-> splitstreams, todo |-> <<>>, ok |-> TRUE]
                            ELSE AddReference(f[i - 1], named[i])]
           after == CHOOSE f : Def(f)
<1>1. n \in Nat
  OBVIOUS
<1>2. base \in Followed /\ Follows(base, splitstreams, named, 0)
  <2>1. base \in Followed
    BY DEF Followed
  <2>2. ToSet(base.todo) = {}
    BY DEF ToSet
  <2>3. /\ DOMAIN base.known = DOMAIN splitstreams \cup ToSet(base.todo)
        /\ \A s \in DOMAIN splitstreams : base.known[s] = splitstreams[s]
    BY <2>2
  <2>4. 1 .. 0 = {}
    OBVIOUS
  <2> HIDE DEF base
  <2>5. QED BY <2>1, <2>3, <2>4 DEF Follows
<1>3. step \in [(1 .. n) \X Followed -> Followed]
  <2>1. ASSUME NEW x \in (1 .. n) \X Followed PROVE AddReference(x[2], named[x[1]]) \in Followed
    BY AddReferenceFollows
  <2>2. QED BY <2>1
<1>4. PICK f \in [0 .. n -> Followed] : Iterates(f, n, base, step)
  <2> HIDE DEF step, base, n
  <2>1. QED BY <1>1, <1>2, <1>3, Iteration
<1>5. f[0] = base /\ \A i \in 1 .. n : f[i] = step[<<i, f[i - 1]>>]
  BY <1>4 DEF Iterates
<1>6. ASSUME NEW i \in 1 .. n PROVE f[i] = AddReference(f[i - 1], named[i])
  <2>1. i - 1 \in 0 .. n
    BY <1>1
  <2>2. <<i, f[i - 1]>> \in (1 .. n) \X Followed
    BY <2>1
  <2>3. QED BY <1>5, <2>2
<1>7. Def(f)
  <2>1. \A i \in 0 .. n : i = 0 \/ i \in 1 .. n
    BY <1>1
  <2>2. \A i \in 0 .. n : f[i] = IF i = 0 THEN base ELSE AddReference(f[i - 1], named[i])
    BY <1>5, <1>6, <2>1
  <2>3. f = [i \in 0 .. n |-> f[i]]
    BY <1>4
  <2>4. QED BY <2>2, <2>3
<1>8. Def(after)
  BY <1>7
<1> HIDE DEF after
<1>9. after[0] = base
  BY <1>1, <1>8
<1>10. ASSUME NEW i \in 1 .. n PROVE after[i] = AddReference(after[i - 1], named[i])
  <2>1. i \in 0 .. n /\ i # 0
    BY <1>1
  <2>2. QED BY <1>8, <2>1
<1> DEFINE G == {i \in 0 .. n : after[i] \in Followed /\ Follows(after[i], splitstreams, named, i)}
<1>11. 0 \in G
  BY <1>1, <1>2, <1>9
<1>12. ASSUME NEW i \in 1 .. n, i - 1 \in G PROVE i \in G
  <2>1. after[i - 1] \in Followed /\ Follows(after[i - 1], splitstreams, named, i - 1)
    BY <1>12
  <2>2. QED BY <1>1, <1>10, <2>1, AddReferenceFollows
<1>13. n \in G
  <2> HIDE DEF G, n
  <2>1. n \in 0 .. n
    BY <1>1
  <2>2. QED BY <1>1, <1>11, <1>12, <2>1, IndexInduction
<1>14. SplitstreamsWith(named) = after[n]
  BY DEF SplitstreamsWith, after
<1>15. QED
  BY <1>13, <1>14

-------------------------------------------------------------------------------
(* The streams one comes to *)

NamedStreams(S) == S \cup UNION {{n.id : n \in NamedOf(s)} : s \in S}

LEMMA NamedAre ==
  ASSUME NEW id \in DOMAIN Data
  PROVE  /\ Data[id].named \in Seq(Reference)
         /\ Data[id].objects \subseteq DOMAIN Data
         /\ \A n \in NamedOf(id) : n \in Reference /\ n.id \in DOMAIN Data /\ n.body \in Checksums
<1>1. Data[id].named \in Seq(Reference) /\ Data[id].objects \subseteq DOMAIN Data
  BY HttpConstants DEF Reference
<1>2. ASSUME NEW n \in NamedOf(id) PROVE n \in Reference
  BY <1>1, <1>2 DEF NamedOf
<1>3. \A n \in Reference : n.id \in DOMAIN Data /\ n.body \in Checksums
  BY DEF Reference
<1>4. QED
  BY <1>1, <1>2, <1>3

\* A set of streams that has a stream, and with each one all those it names, has
\* all streams one comes to from it.
LEMMA StreamsAreIn ==
  ASSUME NEW id \in DOMAIN Data, NEW C \in SUBSET DOMAIN Data, id \in C,
         \A s \in C : \A n \in NamedOf(s) : n.id \in C
  PROVE  StreamsFrom(id) \subseteq C
<1> DEFINE m == Cardinality(DOMAIN Data)
           P == SUBSET DOMAIN Data
           step == [x \in (1 .. m) \X P |-> NamedStreams(x[2])]
           Def(f) == f = [n \in 0 .. m |-> IF n = 0 THEN {id} ELSE NamedStreams(f[n - 1])]
           upto == CHOOSE f : Def(f)
<1>1. m \in Nat
  BY HttpConstants, FS_CardinalityType
<1>2. \A S \in P : NamedStreams(S) \in P
  BY NamedAre DEF NamedStreams
<1>3. step \in [(1 .. m) \X P -> P] /\ {id} \in P
  BY <1>2
<1>4. PICK f \in [0 .. m -> P] : Iterates(f, m, {id}, step)
  <2> HIDE DEF step, m, P
  <2>1. QED BY <1>1, <1>3, Iteration
<1>5. f[0] = {id} /\ \A i \in 1 .. m : f[i] = step[<<i, f[i - 1]>>]
  BY <1>4 DEF Iterates
<1>6. ASSUME NEW i \in 1 .. m PROVE f[i] = NamedStreams(f[i - 1])
  <2>1. i - 1 \in 0 .. m
    BY <1>1
  <2>2. <<i, f[i - 1]>> \in (1 .. m) \X P
    BY <2>1
  <2>3. QED BY <1>5, <2>2
<1>7. Def(f)
  <2>1. \A i \in 0 .. m : i = 0 \/ i \in 1 .. m
    BY <1>1
  <2>2. \A i \in 0 .. m : f[i] = IF i = 0 THEN {id} ELSE NamedStreams(f[i - 1])
    BY <1>5, <1>6, <2>1
  <2>3. f = [i \in 0 .. m |-> f[i]]
    BY <1>4
  <2>4. QED BY <2>2, <2>3
<1>8. Def(upto)
  BY <1>7
<1> HIDE DEF upto
<1>9. upto[0] = {id}
  BY <1>1, <1>8
<1>10. ASSUME NEW i \in 1 .. m PROVE upto[i] = NamedStreams(upto[i - 1])
  <2>1. i \in 0 .. m /\ i # 0
    BY <1>1
  <2>2. QED BY <1>8, <2>1
<1> DEFINE G == {i \in 0 .. m : upto[i] \subseteq C}
<1>11. 0 \in G
  BY <1>1, <1>9
<1>12. ASSUME NEW i \in 1 .. m, i - 1 \in G PROVE i \in G
  <2>1. upto[i - 1] \subseteq C
    BY <1>12
  <2>2. NamedStreams(upto[i - 1]) \subseteq C
    BY <2>1 DEF NamedStreams
  <2>3. QED BY <1>1, <1>10, <2>2
<1>13. m \in G
  <2> HIDE DEF G, m
  <2>1. m \in 0 .. m
    BY <1>1
  <2>2. QED BY <1>1, <1>11, <1>12, <2>1, IndexInduction
<1>14. StreamsFrom(id) = upto[m]
  BY DEF StreamsFrom, upto, NamedStreams
<1>15. QED
  BY <1>13, <1>14

-------------------------------------------------------------------------------
(* The inductive invariant *)

Started == phase \in {"streams", "objects", "verify", "done"}

\* All that the stream s refers to is known, with the checksum that s gives.
Known(s) == \A n \in NamedOf(s) : n.id \in DOMAIN splitstreams /\ splitstreams[n.id] = n.body

Types ==
  /\ TypeOK
  /\ splitstreams \in Knowledge
  /\ splitstreams_todo \in Seq(DOMAIN splitstreams)

Traversal ==
  Started =>
    /\ my_id = Names[name].id
    /\ my_id \in DOMAIN splitstreams
    /\ \A s \in DOMAIN splitstreams \ ToSet(splitstreams_todo) : Known(s)
    /\ phase # "streams" => splitstreams_todo = <<>>

Verification ==
  /\ phase \in {"name", "streams", "objects"} => verified = {}
  /\ Started => \A s \in verified : s \in DOMAIN splitstreams /\ Readable(s) /\ ChecksumHolds(s)
  /\ phase = "done" => verified = DOMAIN splitstreams

Fetching ==
  phase = "objects" =>
    /\ objects_todo \cap DOMAIN tasks = {}
    /\ Cardinality(DOMAIN tasks) <= MaxTasks
    /\ objects_todo # {} => Cardinality(DOMAIN tasks) = MaxTasks

IInv == Types /\ Traversal /\ Verification /\ Fetching

LEMMA TypesSay ==
  ASSUME TypeOK, splitstreams \in Knowledge
  PROVE  /\ DOMAIN splitstreams \subseteq DOMAIN Data
         /\ splitstreams \in [DOMAIN splitstreams -> Checksums \cup {None}]
         /\ IsFiniteSet(objects_todo) /\ IsFiniteSet(DOMAIN tasks)
         /\ Names[name].id \in DOMAIN Data
         /\ MaxTasks \in Nat \ {0}
<1>1. IsFiniteSet(DOMAIN Data) /\ objects_todo \subseteq DOMAIN Data /\ DOMAIN tasks \subseteq DOMAIN Data
  BY HttpConstants DEF TypeOK
<1>2. IsFiniteSet(objects_todo) /\ IsFiniteSet(DOMAIN tasks)
  BY <1>1, FS_Subset
<1>3. QED BY <1>2, KnowledgeIs, HttpConstants DEF TypeOK

\* What is in the repository stays there.
LEMMA StoredStays ==
  ASSUME TypeOK, NEW id \in DOMAIN Data
  PROVE  objects \subseteq StoredFor(id) /\ StoredFor(id) \subseteq DOMAIN Data
BY HttpConstants DEF TypeOK, StoredFor, Fetched

LEMMA NothingKnown == <<>> \in Knowledge
<1> DEFINE f == [s \in {} |-> None]
<1>1. f = <<>> /\ DOMAIN f = {} /\ f \in [DOMAIN f -> Checksums \cup {None}]
  OBVIOUS
<1> HIDE DEF f
<1>2. f \in Knowledge
  BY <1>1, KnowledgeIs
<1>3. QED BY <1>1, <1>2

LEMMA InitIInv == Init => IInv
<1> SUFFICES ASSUME Init PROVE IInv
  OBVIOUS
<1>1. DOMAIN splitstreams = {} /\ DOMAIN tasks = {} /\ DOMAIN splitstreams_todo = {}
  BY DEF Init
<1>2. TypeOK
  BY <1>1, HttpConstants DEF Init, TypeOK
<1>3. splitstreams \in Knowledge
  BY NothingKnown DEF Init
<1>4. splitstreams_todo \in Seq(DOMAIN splitstreams)
  BY DEF Init
<1>5. QED
  BY <1>2, <1>3, <1>4 DEF Init, IInv, Types, Traversal, Verification, Fetching, Started

LEMMA FetchNameKeeps ==
  ASSUME IInv, FetchName
  PROVE  IInv'
<1> DEFINE id == Names[name].id
<1>1. id \in DOMAIN Data /\ TypeOK /\ verified = {}
  BY TypesSay DEF IInv, Types, Verification, FetchName
<1>2. /\ phase' = "streams" /\ my_id' = id /\ splitstreams' = [s \in {id} |-> None]
      /\ splitstreams_todo' = <<id>> /\ objects' \subseteq objects \cup {id}
      /\ UNCHANGED <<name, objects_todo, tasks, verified, faults>>
  BY DEF FetchName
<1>3. DOMAIN splitstreams' = {id}
  BY <1>2
<1>4. ToSet(splitstreams_todo') = {id} /\ splitstreams_todo' \in Seq(DOMAIN splitstreams')
  BY <1>2, <1>3 DEF ToSet
<1>5. splitstreams' \in Knowledge
  BY <1>1, <1>2, <1>3, KnowledgeIs
<1>6. TypeOK'
  BY <1>1, <1>2, <1>3, <1>4 DEF TypeOK, ToSet
<1>7. QED
  BY <1>1, <1>2, <1>3, <1>4, <1>5, <1>6 DEF IInv, Types, Traversal, Verification, Fetching

LEMMA FetchStreamKeeps ==
  ASSUME IInv, FetchStream
  PROVE  IInv'
<1> DEFINE id == splitstreams_todo[Len(splitstreams_todo)]
           named == Data[id].named
           next == SplitstreamsWith(named)
           rest == TodoRest(splitstreams_todo)
<1>1. /\ TypeOK /\ splitstreams \in Knowledge /\ splitstreams_todo \in Seq(DOMAIN splitstreams)
      /\ DOMAIN splitstreams \subseteq DOMAIN Data /\ verified = {}
      /\ phase = "streams" /\ splitstreams_todo # <<>>
  BY TypesSay DEF IInv, Types, Verification, FetchStream
<1>2. /\ id \in DOMAIN splitstreams
      /\ rest \in Seq(DOMAIN splitstreams)
      /\ ToSet(splitstreams_todo) = ToSet(rest) \cup {id}
  BY <1>1, LastAndRest DEF TodoRest
<1>3. named \in Seq(Reference) /\ Data[id].objects \subseteq DOMAIN Data
  BY <1>1, <1>2, NamedAre
<1>4. objects' = StoredFor(id) /\ UNCHANGED <<name, my_id, tasks, verified, faults>>
  BY DEF FetchStream
<1>5. objects' \subseteq DOMAIN Data
  BY <1>1, <1>2, <1>4, StoredStays
<1> HIDE DEF id, rest
<1>6. CASE EnsuredBy(id) /\ Data[id].stream /\ next.ok
  <2>1. /\ splitstreams' = next.known /\ splitstreams_todo' = rest \o next.todo
        /\ objects_todo' = objects_todo \cup (Data[id].objects \ DOMAIN next.known)
        /\ phase' = phase
    BY <1>6 DEF FetchStream, id, rest
  <2>2. next \in Followed /\ Follows(next, splitstreams, named, Len(named))
    <3> HIDE DEF named
    <3>1. QED BY <1>1, <1>3, AllFollowed
  <2>3. next.known \in Knowledge /\ next.todo \in Seq(DOMAIN Data)
    BY <2>2 DEF Followed
  <2>4. /\ DOMAIN next.known = DOMAIN splitstreams \cup ToSet(next.todo)
        /\ \A s \in DOMAIN splitstreams : next.known[s] = splitstreams[s]
        /\ \A j \in 1 .. Len(named) : named[j].id \in DOMAIN next.known /\ next.known[named[j].id] = named[j].body
    BY <1>6, <2>2 DEF Follows
  <2> HIDE DEF next
  <2>5. next.todo \in Seq(DOMAIN next.known) /\ rest \in Seq(DOMAIN next.known)
    <3>1. next.todo \in Seq(ToSet(next.todo))
      BY <2>3 DEF ToSet
    <3>2. QED BY <3>1, <1>2, <2>4
  <2>6. /\ splitstreams_todo' \in Seq(DOMAIN splitstreams')
        /\ ToSet(splitstreams_todo') = ToSet(rest) \cup ToSet(next.todo)
    <3> DEFINE X == DOMAIN next.known
               todo == next.todo
    <3>1. splitstreams_todo' = rest \o todo /\ DOMAIN splitstreams' = X
      BY <2>1
    <3> HIDE DEF X, todo
    <3>2. rest \in Seq(X) /\ todo \in Seq(X)
      BY <2>5 DEF X, todo
    <3>3. rest \o todo \in Seq(X) /\ ToSet(rest \o todo) = ToSet(rest) \cup ToSet(todo)
      BY <3>2, ConcatenatedSet
    <3>4. QED BY <3>1, <3>3 DEF todo
  <2>7. ToSet(splitstreams_todo') \subseteq DOMAIN splitstreams'
    BY <2>6 DEF ToSet
  <2>8. TypeOK'
    <3>1. objects_todo' \subseteq DOMAIN Data
      BY <1>1, <1>3, <2>1 DEF TypeOK
    <3>2. {splitstreams_todo'[i] : i \in DOMAIN splitstreams_todo'} \subseteq DOMAIN splitstreams'
      BY <2>7 DEF ToSet
    <3>3. QED BY <1>1, <1>4, <1>5, <2>1, <3>1, <3>2 DEF TypeOK
  <2>9. ASSUME NEW s \in DOMAIN splitstreams' \ ToSet(splitstreams_todo') PROVE Known(s)'
    <3>1. s \in DOMAIN splitstreams /\ s \notin ToSet(rest)
      BY <2>1, <2>4, <2>6, <2>9
    <3>2. CASE s = id
      <4>1. ASSUME NEW n \in NamedOf(id)
            PROVE  n.id \in DOMAIN splitstreams' /\ splitstreams'[n.id] = n.body
        <5>1. PICK j \in DOMAIN named : n = named[j]
          BY <4>1 DEF NamedOf
        <5>2. j \in 1 .. Len(named)
          BY <1>3, <5>1
        <5>3. QED BY <5>1, <5>2, <2>1, <2>4
      <4>2. QED BY <3>2, <4>1 DEF Known
    <3>3. CASE s # id
      <4>1. Known(s)
        BY <1>1, <1>2, <3>1, <3>3 DEF IInv, Traversal, Started
      <4>2. QED BY <4>1, <2>1, <2>4 DEF Known
    <3>4. QED BY <3>2, <3>3
  <2>10. Traversal'
    <3>1. my_id' = Names[name'].id /\ my_id' \in DOMAIN splitstreams'
      BY <1>1, <1>4, <2>1, <2>4 DEF IInv, Traversal, Started
    <3>2. phase' = "streams"
      BY <1>1, <2>1
    <3>3. QED BY <3>1, <3>2, <2>9 DEF Traversal
  <2>11. splitstreams' \in Knowledge
    BY <2>1, <2>3
  <2>12. phase' = "streams" /\ verified' = {}
    BY <1>1, <1>4, <2>1
  <2>13. QED
    BY <2>6, <2>8, <2>10, <2>11, <2>12 DEF IInv, Types, Verification, Fetching
<1>7. CASE ~(EnsuredBy(id) /\ Data[id].stream /\ next.ok)
  <2>1. phase' = "error" /\ UNCHANGED <<splitstreams, splitstreams_todo, objects_todo>>
    BY <1>7 DEF FetchStream, Fail, id
  <2>2. QED
    BY <1>1, <1>4, <1>5, <2>1 DEF IInv, Types, TypeOK, Traversal, Verification, Fetching, Started
<1>8. QED
  BY <1>6, <1>7

LEMMA QueueInitialKeeps ==
  ASSUME IInv, QueueInitial
  PROVE  IInv'
<1>1. /\ TypeOK /\ IsFiniteSet(objects_todo) /\ MaxTasks \in Nat \ {0}
      /\ phase = "streams" /\ splitstreams_todo = <<>> /\ phase' = "objects" /\ verified = {}
      /\ UNCHANGED <<objects, name, my_id, splitstreams, splitstreams_todo, verified, faults>>
  BY TypesSay DEF IInv, Types, Verification, QueueInitial
<1>2. PICK first \in SUBSET objects_todo :
        /\ Cardinality(first) = IF Cardinality(objects_todo) < MaxTasks THEN Cardinality(objects_todo) ELSE MaxTasks
        /\ tasks' = [id \in first |-> "running"]
        /\ objects_todo' = objects_todo \ first
  BY DEF QueueInitial
<1>3. Cardinality(objects_todo) \in Nat /\ DOMAIN tasks' = first
  BY <1>1, <1>2, FS_CardinalityType
<1>4. Cardinality(first) = Cardinality(objects_todo) => first = objects_todo
  BY <1>1, FS_Subset
<1>5. /\ Cardinality(first) <= MaxTasks
      /\ objects_todo' # {} => Cardinality(first) = MaxTasks
  BY <1>1, <1>2, <1>3, <1>4
<1>6. TypeOK'
  BY <1>1, <1>2, <1>3 DEF TypeOK
<1>7. Types' /\ Traversal'
  BY <1>1, <1>6 DEF IInv, Types, Traversal, Started, Known
<1>8. Fetching' /\ Verification'
  BY <1>1, <1>2, <1>3, <1>5 DEF Fetching, Verification
<1>9. QED BY <1>7, <1>8 DEF IInv

\* A step of a task, or of the loop that joins them, leaves the streams alone.
LEMMA StreamsLeft ==
  ASSUME IInv, TypeOK', objects \subseteq objects', phase = "objects",
         phase' \in {"objects", "verify"},
         UNCHANGED <<name, my_id, splitstreams, splitstreams_todo, verified>>
  PROVE  Types' /\ Traversal' /\ Verification'
<1>1. Types' /\ Traversal'
  BY DEF IInv, Types, Traversal, Started, Known
<1>2. verified' = {}
  BY DEF IInv, Verification
<1>3. QED BY <1>1, <1>2 DEF Verification

LEMMA TaskKeeps ==
  ASSUME IInv, NEW id \in DOMAIN Data, EnsureObject(id) \/ TaskFails(id)
  PROVE  IInv'
<1>1. /\ DOMAIN tasks' = DOMAIN tasks /\ phase = "objects"
      /\ UNCHANGED <<phase, name, my_id, splitstreams, splitstreams_todo, objects_todo, verified>>
  BY DEF EnsureObject, TaskFails
<1>2. TypeOK
  BY DEF IInv, Types
<1>3. objects \subseteq objects' /\ objects' \subseteq DOMAIN Data
  <2>1. objects' = StoredFor(id) \/ objects' = objects
    BY DEF EnsureObject, TaskFails
  <2>2. QED BY <1>2, <2>1, StoredStays DEF TypeOK
<1>4. faults' \in 0 .. MaxFaults
  BY <1>2, HttpConstants DEF EnsureObject, TaskFails, Fault, TypeOK
<1>5. TypeOK'
  BY <1>1, <1>2, <1>3, <1>4 DEF TypeOK
<1>6. Types' /\ Traversal' /\ Verification'
  BY <1>1, <1>3, <1>5, StreamsLeft
<1>7. Fetching'
  BY <1>1 DEF IInv, Fetching
<1>8. QED BY <1>6, <1>7 DEF IInv

LEMMA JoinNextKeeps ==
  ASSUME IInv, NEW id \in DOMAIN Data, JoinNext(id)
  PROVE  IInv'
<1>1. /\ TypeOK /\ phase = "objects" /\ id \in DOMAIN tasks
      /\ IsFiniteSet(DOMAIN tasks) /\ MaxTasks \in Nat \ {0}
      /\ objects_todo \cap DOMAIN tasks = {}
      /\ Cardinality(DOMAIN tasks) <= MaxTasks
      /\ objects_todo # {} => Cardinality(DOMAIN tasks) = MaxTasks
      /\ UNCHANGED <<objects, phase, name, my_id, splitstreams, splitstreams_todo, verified, faults>>
  BY TypesSay DEF IInv, Types, Fetching, JoinNext
<1>2. PICK added \in NextOf(objects_todo) :
        /\ DOMAIN tasks' = (DOMAIN tasks \ {id}) \cup added
        /\ objects_todo' = objects_todo \ added
  BY DEF JoinNext
<1>3. added \subseteq objects_todo
  BY DEF NextOf
<1>4. TypeOK'
  BY <1>1, <1>2, <1>3 DEF TypeOK
<1>5. Types' /\ Traversal' /\ Verification'
  BY <1>1, <1>4, StreamsLeft
<1>6. LET left == DOMAIN tasks \ {id}
      IN  /\ IsFiniteSet(left) /\ Cardinality(left) = Cardinality(DOMAIN tasks) - 1
          /\ Cardinality(DOMAIN tasks) \in Nat /\ Cardinality(left) \in Nat
  BY <1>1, FS_RemoveElement, FS_CardinalityType
<1>7. CASE objects_todo = {}
  <2>1. added = {}
    BY <1>7 DEF NextOf
  <2>2. DOMAIN tasks' = DOMAIN tasks \ {id} /\ objects_todo' = {}
    BY <1>2, <1>7, <2>1
  <2>3. Fetching'
    BY <1>1, <1>6, <2>2 DEF Fetching
  <2>4. QED BY <1>5, <2>3 DEF IInv
<1>8. CASE objects_todo # {}
  <2>1. PICK new \in objects_todo : added = {new}
    BY <1>8 DEF NextOf
  <2>2. new \notin DOMAIN tasks \ {id}
    BY <1>1, <2>1
  <2>3. Cardinality((DOMAIN tasks \ {id}) \cup {new}) = Cardinality(DOMAIN tasks \ {id}) + 1
    BY <1>6, <2>2, FS_AddElement
  <2>4. Cardinality(DOMAIN tasks') = MaxTasks
    BY <1>1, <1>2, <1>6, <1>8, <2>1, <2>3
  <2>5. objects_todo' \cap DOMAIN tasks' = {}
    BY <1>1, <1>2, <2>1
  <2>6. Fetching'
    BY <1>1, <2>4, <2>5 DEF Fetching
  <2>7. QED BY <1>5, <2>6 DEF IInv
<1>9. QED BY <1>7, <1>8

LEMMA VerifyStreamKeeps ==
  ASSUME IInv, NEW id \in DOMAIN Data, VerifyStream(id)
  PROVE  IInv'
<1>1. /\ TypeOK /\ phase = "verify" /\ id \in DOMAIN splitstreams
      /\ UNCHANGED <<objects, name, my_id, splitstreams, splitstreams_todo, objects_todo, tasks, faults>>
  BY DEF IInv, Types, VerifyStream
<1>2. CASE Readable(id) /\ ChecksumHolds(id)
  <2>1. verified' = verified \cup {id} /\ phase' = "verify"
    BY <1>1, <1>2 DEF VerifyStream
  <2>2. TypeOK'
    BY <1>1, <2>1 DEF TypeOK
  <2>3. Types' /\ Traversal' /\ Fetching'
    BY <1>1, <2>1, <2>2 DEF IInv, Types, Traversal, Fetching, Started, Known
  <2>4. Verification'
    BY <1>1, <1>2, <2>1 DEF IInv, Verification, Started, Readable, ChecksumHolds
  <2>5. QED BY <2>3, <2>4 DEF IInv
<1>3. CASE ~(Readable(id) /\ ChecksumHolds(id))
  <2>1. phase' = "error" /\ verified' = verified
    BY <1>3 DEF VerifyStream, Fail
  <2>2. TypeOK'
    BY <1>1, <2>1 DEF TypeOK
  <2>3. QED BY <1>1, <2>1, <2>2 DEF IInv, Types, Traversal, Verification, Fetching, Started
<1>4. QED BY <1>2, <1>3

LEMMA FailureKeeps ==
  ASSUME IInv, NEW id \in DOMAIN Data, RequestFails \/ JoinFailed(id)
  PROVE  IInv'
<1>1. /\ phase' = "error"
      /\ UNCHANGED <<objects, name, my_id, splitstreams, splitstreams_todo, objects_todo, tasks, verified>>
  BY DEF RequestFails, JoinFailed, Fail
<1>2. faults' \in 0 .. MaxFaults
  BY HttpConstants DEF RequestFails, JoinFailed, Fault, IInv, Types, TypeOK
<1>3. TypeOK'
  BY <1>1, <1>2 DEF IInv, Types, TypeOK
<1>4. QED BY <1>1, <1>3 DEF IInv, Types, Traversal, Verification, Fetching, Started

LEMMA LoopEndKeeps ==
  ASSUME IInv, JoinedAll \/ Finish
  PROVE  IInv'
<1>1. /\ phase' \in {"verify", "done"} /\ phase \in {"objects", "verify"}
      /\ phase' = "done" => verified' = DOMAIN splitstreams'
      /\ UNCHANGED <<objects, name, my_id, splitstreams, splitstreams_todo, objects_todo, tasks, verified, faults>>
  BY DEF JoinedAll, Finish
<1>2. TypeOK'
  BY <1>1 DEF IInv, Types, TypeOK
<1>3. Types' /\ Traversal' /\ Fetching'
  BY <1>1, <1>2 DEF IInv, Types, Traversal, Fetching, Started, Known
<1>4. Verification'
  BY <1>1 DEF IInv, Verification, Started, Readable, ChecksumHolds
<1>5. QED BY <1>3, <1>4 DEF IInv

LEMMA RetryKeeps ==
  ASSUME IInv, Retry
  PROVE  IInv'
<1>1. /\ phase' = "name" /\ my_id' = None /\ splitstreams' = <<>> /\ splitstreams_todo' = <<>>
      /\ objects_todo' = {} /\ tasks' = <<>> /\ verified' = {}
      /\ UNCHANGED <<objects, name, faults>>
  BY DEF Retry
<1>2. DOMAIN splitstreams' = {} /\ DOMAIN tasks' = {} /\ DOMAIN splitstreams_todo' = {}
  BY <1>1
<1>3. TypeOK'
  BY <1>1, <1>2 DEF IInv, Types, TypeOK
<1>4. splitstreams' \in Knowledge
  BY <1>1, NothingKnown
<1>5. splitstreams_todo' \in Seq(DOMAIN splitstreams')
  BY <1>1
<1>6. QED
  BY <1>1, <1>3, <1>4, <1>5 DEF IInv, Types, Traversal, Verification, Fetching, Started

LEMMA NextIInv == IInv /\ [Next]_vars => IInv'
<1> SUFFICES ASSUME IInv, [Next]_vars PROVE IInv'
  OBVIOUS
<1>1. CASE Next
  <2>1. ASSUME NEW id \in DOMAIN Data, EnsureObject(id) \/ JoinNext(id) \/ JoinFailed(id) \/ VerifyStream(id)
        PROVE  IInv'
    BY <2>1, TaskKeeps, JoinNextKeeps, FailureKeeps, VerifyStreamKeeps
  <2>2. ASSUME NEW id \in DOMAIN Data, TaskFails(id) PROVE IInv'
    BY <2>2, TaskKeeps
  <2>3. ASSUME RequestFails PROVE IInv'
    <3>1. Names[name].id \in DOMAIN Data
      BY TypesSay DEF IInv, Types
    <3>2. QED BY <2>3, <3>1, FailureKeeps
  <2>4. QED
    BY <1>1, <2>1, <2>2, <2>3, FetchNameKeeps, FetchStreamKeeps, QueueInitialKeeps,
       LoopEndKeeps, RetryKeeps DEF Next, Step
<1>2. CASE UNCHANGED vars
  BY <1>2 DEF vars, IInv, Types, TypeOK, Traversal, Verification, Fetching, Started, Known,
              Readable, ChecksumHolds
<1>3. QED BY <1>1, <1>2

\* The traversal, the tasks and the verification keep to this in every behaviour.
THEOREM Invariance == Spec => []IInv
<1>1. QED
  BY InitIInv, NextIInv, PTL DEF Spec

-------------------------------------------------------------------------------
(* What a download promises *)

\* There are never more tasks than the limit, and no fewer as long as objects are
\* left to fetch: for any limit and any number of objects.
THEOREM TasksAreBounded == Spec => []TasksBounded
<1>1. IInv => TasksBounded
  BY DEF IInv, Types, Fetching, TasksBounded
<1>2. QED
  BY <1>1, Invariance, PTL

\* Each referent of a known stream gives the checksum that the content was found
\* to have.
LEMMA VerifiedIsTruthful ==
  ASSUME IInv, phase = "done", NEW s \in DOMAIN splitstreams, NEW n \in NamedOf(s)
  PROVE  n.id \in DOMAIN splitstreams /\ n.body = Data[n.id].body
<1>1. splitstreams_todo = <<>> /\ Started
  BY DEF IInv, Traversal, Started
<1>2. Known(s)
  BY <1>1 DEF IInv, Traversal, ToSet
<1>3. n.id \in DOMAIN splitstreams /\ splitstreams[n.id] = n.body
  BY <1>2 DEF Known
<1>4. ChecksumHolds(n.id)
  BY <1>1, <1>3 DEF IInv, Verification
<1>5. n.body \in Checksums /\ n.body # None
  <2>1. s \in DOMAIN Data
    BY TypesSay DEF IInv, Types
  <2>2. QED BY <2>1, NamedAre, HttpConstants
<1>6. QED BY <1>3, <1>4, <1>5 DEF ChecksumHolds

\* A download that returns without an error has got everything that the name
\* needs, with the content its referents vouch for.
THEOREM DownloadsComplete == Spec => []DoneIsComplete
<1>1. ASSUME IInv, phase = "done" PROVE DoneIsComplete
  <2>1. /\ my_id = Names[name].id /\ my_id \in DOMAIN splitstreams
        /\ verified = DOMAIN splitstreams
        /\ \A s \in verified : Readable(s)
    BY <1>1 DEF IInv, Traversal, Verification, Started
  <2>2. DOMAIN splitstreams \subseteq DOMAIN Data
    BY <1>1, TypesSay DEF IInv, Types
  <2>3. StreamsFrom(my_id) \subseteq DOMAIN splitstreams
    <3>1. \A s \in DOMAIN splitstreams : \A n \in NamedOf(s) : n.id \in DOMAIN splitstreams
      BY <1>1, VerifiedIsTruthful
    <3>2. QED BY <2>1, <2>2, <3>1, StreamsAreIn
  <2>4. Needed(my_id) \subseteq objects
    BY <2>1, <2>3 DEF Needed, Readable
  <2>5. TruthfulFrom(my_id)
    BY <1>1, <2>3, VerifiedIsTruthful DEF TruthfulFrom
  <2>6. QED BY <2>1, <2>4, <2>5 DEF DoneIsComplete
<1>2. IInv => DoneIsComplete
  BY <1>1 DEF DoneIsComplete
<1>3. QED
  BY <1>2, Invariance, PTL
===============================================================================
