--------------------------- MODULE FuseServerProofs ---------------------------
(***************************************************************************)
(* Who looks up, lists or reads gets what is in the tree: for any trees,   *)
(* any clients, any order of their requests and any sizes of replies.      *)
(***************************************************************************)
EXTENDS FuseServerSafety, FiniteSetTheorems, DataLemmas

-------------------------------------------------------------------------------
(* The tree and its numbers *)

LEMMA TreeIs ==
  ASSUME served \in DOMAIN Trees
  PROVE  /\ IsFileSystem(tree)
         /\ \A p \in DOMAIN tree : IsLeaf(tree[p])
BY FuseConstants DEF tree

LEMMA Kinds ==
  ASSUME served \in DOMAIN Trees, NEW p \in DOMAIN tree
  PROVE  /\ kind(p) = "directory" <=> tree[p].dir
         /\ kind(p) = "file" => ~tree[p].dir /\ tree[p].content.type \in {"inline", "external"}
         /\ fileattr(p).kind = kind(p) /\ fileattr(p).ino = Address(p)
         /\ fileattr(p).nlink = nlink(p) /\ fileattr(p).size = size(p)
<1>1. ~tree[p].dir => tree[p].content.type \in LeafTypes
  BY TreeIs DEF IsLeaf
<1>2. QED BY <1>1 DEF kind, fileattr, LeafTypes

\* The root is the only inode that has not its address for a number.
LEMMA RootApart ==
  ASSUME served \in DOMAIN Trees, NEW p \in DOMAIN tree
  PROVE  /\ Address(p) # Root
         /\ InoOf(p) = Root <=> p = <<>>
         /\ p # <<>> => InoOf(p) = Address(p)
<1>1. Len(Address(p)) = 2 /\ Len(Root) = 1
  BY DEF Address, Root
<1>2. QED BY <1>1 DEF InoOf

\* Two paths have the same number when they lead to the same inode.
LEMMA SameAddress ==
  ASSUME served \in DOMAIN Trees, NEW p \in DOMAIN tree, NEW q \in DOMAIN tree
  PROVE  Address(p) = Address(q) <=> p = q \/ SameLeaf(tree, p, q)
<1>1. tree[p].dir \in BOOLEAN /\ tree[q].dir \in BOOLEAN
  BY TreeIs DEF IsFileSystem
<1>2. /\ tree[p].dir => Address(p)[1] = "dir" /\ Address(p)[2] = p
      /\ ~tree[p].dir => Address(p)[1] = "leaf" /\ Address(p)[2] = tree[p].rc
      /\ tree[q].dir => Address(q)[1] = "dir" /\ Address(q)[2] = q
      /\ ~tree[q].dir => Address(q)[1] = "leaf" /\ Address(q)[2] = tree[q].rc
  BY DEF Address
<1>3. ASSUME Address(p) = Address(q) PROVE p = q \/ SameLeaf(tree, p, q)
  BY <1>1, <1>2, <1>3 DEF SameLeaf
<1>4. ASSUME SameLeaf(tree, p, q) PROVE Address(p) = Address(q)
  BY <1>4 DEF SameLeaf, Address
<1>5. QED BY <1>3, <1>4

LEMMA SameNumber ==
  ASSUME served \in DOMAIN Trees, NEW p \in DOMAIN tree, NEW q \in DOMAIN tree, InoOf(p) = InoOf(q)
  PROVE  /\ tree[p] = tree[q]
         /\ p = <<>> <=> q = <<>>
         /\ tree[p].dir => p = q
         /\ Address(p) = Address(q)
         /\ kind(p) = kind(q) /\ fileattr(p) = fileattr(q)
         /\ DataOf(p) = DataOf(q) /\ HandleOf(p) = HandleOf(q)
<1>1. p = <<>> <=> q = <<>>
  BY RootApart
<1>2. CASE p = <<>>
  BY <1>1, <1>2
<1>3. CASE p # <<>>
  <2>1. Address(p) = Address(q)
    BY <1>1, <1>3, RootApart
  <2>2. p = q \/ SameLeaf(tree, p, q)
    BY <2>1, SameAddress
  <2>3. CASE p = q
    BY <2>3
  <2>4. CASE SameLeaf(tree, p, q)
    <3>1. ~tree[p].dir /\ ~tree[q].dir /\ tree[p] = tree[q]
      BY <2>4, TreeIs DEF IsFileSystem, SameLeaf
    <3>2. kind(p) = kind(q)
      BY <3>1 DEF kind
    <3>3. size(p) = size(q)
      BY <3>1, <3>2, Zenon DEF size
    <3>4. nlink(p) = nlink(q)
      BY <3>1 DEF nlink
    <3>5. fileattr(p) = fileattr(q)
      BY <2>1, <3>1, <3>2, <3>3, <3>4 DEF fileattr
    <3>6. DataOf(p) = DataOf(q) /\ HandleOf(p) = HandleOf(q)
      BY <3>1 DEF DataOf, HandleOf
    <3>7. QED BY <1>1, <2>1, <3>1, <3>2, <3>5, <3>6
  <2>5. QED BY <2>2, <2>3, <2>4
<1>4. QED BY <1>2, <1>3

LEMMA LinksAre ==
  ASSUME served \in DOMAIN Trees, NEW p \in DOMAIN tree, NEW q \in DOMAIN tree
  PROVE  q \in Links(p) <=> InoOf(q) = InoOf(p)
<1>1. ASSUME q \in Links(p) PROVE InoOf(q) = InoOf(p)
  <2>1. CASE q = p
    BY <2>1
  <2>2. CASE q # p
    <3>1. SameLeaf(tree, p, q)
      BY <1>1, <2>2 DEF Links
    <3>2. p # <<>> /\ q # <<>>
      BY <3>1, TreeIs DEF SameLeaf, IsFileSystem
    <3>3. QED BY <3>1, <3>2, SameAddress, RootApart
  <2>3. QED BY <2>1, <2>2
<1>2. ASSUME InoOf(q) = InoOf(p) PROVE q \in Links(p)
  BY <1>2, SameNumber, SameAddress DEF Links
<1>3. QED BY <1>1, <1>2

-------------------------------------------------------------------------------
(* The entries of a directory *)

\* The name of an entry tells it from the others of its directory.
LEMMA EntryNamed ==
  ASSUME served \in DOMAIN Trees, NEW p \in DOMAIN tree, NEW q \in Entries(tree, p)
  PROVE  /\ q \in DOMAIN tree /\ q = Append(p, FileName(q))
         /\ p \in Seq(Names) /\ FileName(q) \in Names
         /\ q # <<>> /\ Parent(q) = p
<1>1. q \in Seq(Names) /\ p \in Seq(Names) /\ Len(q) = Len(p) + 1 /\ SubSeq(q, 1, Len(p)) = p
  BY TreeIs DEF Entries, Below, In, IsFileSystem
<1>2. FileName(q) \in Names /\ q # <<>>
  BY <1>1 DEF FileName
<1>3. Append(p, FileName(q)) \in Seq(Names) /\ Len(Append(p, FileName(q))) = Len(q)
  BY <1>1, <1>2
<1>4. ASSUME NEW i \in 1 .. Len(q) PROVE q[i] = Append(p, FileName(q))[i]
  <2>1. CASE i = Len(q)
    BY <1>1, <1>2, <2>1 DEF FileName
  <2>2. CASE i # Len(q)
    <3>1. i \in 1 .. Len(p)
      BY <1>1, <2>2
    <3>2. SubSeq(q, 1, Len(p))[i] = q[i]
      BY <1>1, <3>1
    <3>3. QED BY <1>1, <1>2, <3>1, <3>2
  <2>3. QED BY <2>1, <2>2
<1>5. q = Append(p, FileName(q))
  BY <1>1, <1>3, <1>4
<1>6. Parent(q) = p
  BY <1>1 DEF Parent
<1>7. QED BY <1>1, <1>2, <1>5, <1>6 DEF Entries

LEMMA NamesOrdered ==
  /\ \A a \in Names : ~NameBefore(a, a)
  /\ \A a, b, c \in Names : NameBefore(a, b) /\ NameBefore(b, c) => NameBefore(a, c)
  /\ \A a, b \in Names : a = b \/ NameBefore(a, b) \/ NameBefore(b, a)
<1>1. DOMAIN NameOrder \subseteq Nat
  BY FuseConstants
<1>2. ASSUME NEW a \in Names PROVE Rank(a) \in Nat /\ NameOrder[Rank(a)] = a
  <2>1. \E i \in DOMAIN NameOrder : NameOrder[i] = a
    BY <1>2 DEF Names
  <2>2. QED BY <1>1, <2>1 DEF Rank
<1>3. QED BY <1>2 DEF NameBefore

LEMMA SiblingsOrdered ==
  ASSUME served \in DOMAIN Trees, NEW p \in DOMAIN tree,
         NEW a \in Entries(tree, p), NEW b \in Entries(tree, p)
  PROVE  VisitedBefore(a, b) <=> NameBefore(FileName(a), FileName(b))
<1>1. /\ a \in Seq(Names) /\ b \in Seq(Names) /\ p \in Seq(Names)
      /\ Len(a) = Len(p) + 1 /\ Len(b) = Len(p) + 1
      /\ SubSeq(a, 1, Len(p)) = p /\ SubSeq(b, 1, Len(p)) = p
  BY TreeIs DEF Entries, Below, In, IsFileSystem
<1>2. \A i \in 1 .. Len(p) : a[i] = p[i] /\ b[i] = p[i] /\ p[i] \in Names
  <2>1. \A i \in 1 .. Len(p) : SubSeq(a, 1, Len(p))[i] = a[i] /\ SubSeq(b, 1, Len(p))[i] = b[i]
    BY <1>1
  <2>2. QED BY <1>1, <2>1
<1>3. ~Below(a, b)
  <2>1. SubSeq(b, 1, Len(a)) = b
    BY <1>1
  <2>2. QED BY <2>1 DEF Below, In
<1>4. ASSUME VisitedBefore(a, b) PROVE NameBefore(FileName(a), FileName(b))
  <2>1. PICK i \in 1 .. Len(a) : NameBefore(a[i], b[i])
    BY <1>3, <1>4 DEF VisitedBefore
  <2>2. i \notin 1 .. Len(p)
    BY <1>2, <2>1, NamesOrdered
  <2>3. i = Len(a) /\ i = Len(b)
    BY <1>1, <2>2
  <2>4. QED BY <2>1, <2>3 DEF FileName
<1>5. ASSUME NameBefore(FileName(a), FileName(b)) PROVE VisitedBefore(a, b)
  <2>1. Len(a) \in 1 .. Len(a) /\ Len(a) <= Len(b) /\ NameBefore(a[Len(a)], b[Len(a)])
    BY <1>1, <1>5 DEF FileName
  <2>2. SubSeq(a, 1, Len(a) - 1) = SubSeq(b, 1, Len(a) - 1)
    BY <1>1
  <2>3. QED BY <2>1, <2>2 DEF VisitedBefore
<1>6. QED BY <1>4, <1>5

\* sorted_entries has all entries of a directory, each once and in order.
LEMMA EntriesSorted ==
  ASSUME served \in DOMAIN Trees, NEW p \in DOMAIN tree, tree[p].dir
  PROVE  /\ sorted_entries(p) \in Seq(Entries(tree, p))
         /\ Len(sorted_entries(p)) = Cardinality(Entries(tree, p))
         /\ Cardinality(Entries(tree, p)) \in Nat
         /\ \A i, j \in DOMAIN sorted_entries(p) :
              i < j => NameBefore(FileName(sorted_entries(p)[i]), FileName(sorted_entries(p)[j]))
<1> DEFINE E == Entries(tree, p)
           n == Cardinality(E)
           s == sorted_entries(p)
           before == [b \in E |-> {a \in E : VisitedBefore(a, b)}]
<1>1. s = [i \in 1 .. n |-> CHOOSE x \in E : Cardinality({y \in E : VisitedBefore(y, x)}) = i - 1]
  <2>1. SortedEntries[served] = [q \in {r \in DOMAIN tree : tree[r].dir} |-> InOrder(Entries(tree, q), VisitedBefore)]
    BY DEF SortedEntries, tree
  <2>2. s = InOrder(Entries(tree, p), VisitedBefore)
    BY <2>1 DEF sorted_entries
  <2>3. InOrder(E, VisitedBefore) = [i \in 1 .. n |-> CHOOSE x \in E : Cardinality({y \in E : VisitedBefore(y, x)}) = i - 1]
    <3> HIDE DEF E
    <3>1. QED BY DEF InOrder
  <2>4. QED BY <2>2, <2>3
<1>2. IsFiniteSet(E) /\ n \in Nat
  <2>1. E \subseteq DOMAIN tree /\ IsFiniteSet(DOMAIN tree)
    BY TreeIs DEF Entries, IsFileSystem
  <2>2. IsFiniteSet(E)
    BY <2>1, FS_Subset
  <2>3. QED BY <2>2, FS_CardinalityType
<1>3. /\ \A a, b \in E : VisitedBefore(a, b) <=> NameBefore(FileName(a), FileName(b))
      /\ \A a \in E : FileName(a) \in Names /\ a = Append(p, FileName(a))
  BY SiblingsOrdered, EntryNamed
<1> HIDE DEF E, n, s
<1>4. \A b \in E : before[b] = {a \in E : VisitedBefore(a, b)}
  OBVIOUS
<1>5. before \in [E -> SUBSET E]
  OBVIOUS
<1> HIDE DEF before
<1>6. /\ \A b \in E : b \notin before[b]
      /\ \A a, b \in E : a \in before[b] => before[a] \subseteq before[b]
      /\ \A a, b \in E : a = b \/ a \in before[b] \/ b \in before[a]
  BY <1>3, <1>4, NamesOrdered
<1>7. ListedBy(s, before, E, n)
  <2> DEFINE G(i) == CHOOSE x \in E : Cardinality({y \in E : VisitedBefore(y, x)}) = i - 1
  <2>1. DOMAIN s = 1 .. n /\ s = [i \in DOMAIN s |-> s[i]]
    <3>1. s = [i \in 1 .. n |-> G(i)]
      BY <1>1
    <3> HIDE DEF G
    <3>2. QED BY <3>1
  <2>2. ASSUME NEW i \in 1 .. n, NEW b \in E, Cardinality(before[b]) = i - 1
        PROVE  s[i] \in E /\ Cardinality(before[s[i]]) = i - 1
    <3>1. Cardinality({y \in E : VisitedBefore(y, b)}) = i - 1
      BY <1>4, <2>2
    <3>2. s[i] = CHOOSE x \in E : Cardinality({y \in E : VisitedBefore(y, x)}) = i - 1
      BY <1>1
    <3>3. s[i] \in E /\ Cardinality({y \in E : VisitedBefore(y, s[i])}) = i - 1
      BY <3>1, <3>2
    <3>4. QED BY <1>4, <3>3
  <2>3. QED BY <2>1, <2>2 DEF ListedBy
<1>8. n = Cardinality(E)
  BY DEF n
<1>9. /\ s \in Seq(E) /\ Len(s) = n /\ DOMAIN s = 1 .. n
      /\ \A i, j \in 1 .. n : s[i] \in E /\ (i < j <=> s[i] \in before[s[j]])
  BY <1>2, <1>5, <1>6, <1>7, <1>8, Numbering
<1>10. ASSUME NEW i \in 1 .. n, NEW j \in 1 .. n, i < j
       PROVE  NameBefore(FileName(s[i]), FileName(s[j]))
  <2>1. s[i] \in E /\ s[j] \in E /\ s[i] \in before[s[j]]
    BY <1>9, <1>10
  <2>2. VisitedBefore(s[i], s[j])
    BY <1>4, <2>1
  <2>3. QED BY <1>3, <2>1, <2>2
<1>11. QED
  BY <1>2, <1>9, <1>10 DEF E, n, s

\* What a listing of the directory with this path consists of.
DirectoryList(p) ==
  <<[ino |-> InoOf(p), name |-> "."],
    [ino |-> IF p = <<>> THEN Root ELSE InoOf(Parent(p)), name |-> ".."]>>
  \o [i \in DOMAIN sorted_entries(p) |->
        [ino |-> Address(sorted_entries(p)[i]), name |-> FileName(sorted_entries(p)[i])]]

LEMMA ListIs ==
  ASSUME served \in DOMAIN Trees, NEW p \in DOMAIN tree, tree[p].dir
  PROVE  LET list == DirectoryList(p)
             n == Cardinality(Entries(tree, p))
         IN  /\ n \in Nat /\ \E X : list \in Seq(X)
             /\ Len(list) = n + 2
             /\ list[1] = [ino |-> InoOf(p), name |-> "."]
             /\ list[2] = [ino |-> IF p = <<>> THEN Root ELSE InoOf(Parent(p)), name |-> ".."]
             /\ \A i \in 1 .. n : /\ list[i + 2].ino = Address(sorted_entries(p)[i])
                                  /\ list[i + 2].name = FileName(sorted_entries(p)[i])
<1> DEFINE s == sorted_entries(p)
           n == Cardinality(Entries(tree, p))
           first == [ino |-> InoOf(p), name |-> "."]
           second == [ino |-> IF p = <<>> THEN Root ELSE InoOf(Parent(p)), name |-> ".."]
           rest == [i \in DOMAIN s |-> [ino |-> Address(s[i]), name |-> FileName(s[i])]]
           X == {first, second} \cup {rest[i] : i \in DOMAIN rest}
<1>1. n \in Nat /\ DOMAIN s = 1 .. n
  BY EntriesSorted
<1>2. \A i \in 1 .. n : rest[i].ino = Address(s[i]) /\ rest[i].name = FileName(s[i])
  BY <1>1
<1>3. rest \in [1 .. n -> {rest[i] : i \in DOMAIN rest}]
  BY <1>1
<1>4. DirectoryList(p) = <<first, second>> \o rest
  BY DEF DirectoryList
<1> HIDE DEF rest, first, second, n
<1>5. rest \in Seq(X) /\ DOMAIN rest = 1 .. n /\ <<first, second>> \in Seq(X) /\ Len(rest) = n
  BY <1>1, <1>3
<1> HIDE DEF X
<1>6. LET list == <<first, second>> \o rest
      IN  /\ list \in Seq(X) /\ Len(list) = n + 2 /\ list[1] = first /\ list[2] = second
          /\ \A i \in 1 .. n : list[i + 2] = rest[i]
  BY <1>1, <1>5
<1>7. QED BY <1>1, <1>2, <1>4, <1>6 DEF first, second, n

-------------------------------------------------------------------------------
(* The inductive invariant *)

ParentNumber(p) == IF p = <<>> THEN Root ELSE InoOf(Parent(p))

\* What the server has noted down of an inode: one of the paths that lead to it.
IsNoted(i, n) ==
  /\ n.path \in DOMAIN tree
  /\ InoOf(n.path) = i
  /\ tree[n.path].dir => n.parent = ParentNumber(n.path)

IsTold(i, attr) == \E p \in DOMAIN tree : i = Address(p) /\ attr = fileattr(p)

\* What the kernel knows of an inode is what it was told of a path.
IsKnown(i, k) ==
  /\ DOMAIN k = {"path", "attr"}
  /\ k.path \in DOMAIN tree
  /\ InoOf(k.path) = i
  /\ k.attr.kind = kind(k.path)
  /\ i # Root => k.attr = fileattr(k.path)

\* What a client has got of the directory at p is the beginning of the whole list.
IsListing(l, p) ==
  /\ tree[p].dir
  /\ l.offset \in 0 .. Len(DirectoryList(p))
  /\ l.got = SubSeq(DirectoryList(p), 1, l.offset)
  /\ l.state = "all" => l.offset = Len(DirectoryList(p))

\* What a client has got of the file at p is the beginning of its data, which is there.
IsReading(r, p) ==
  /\ p # <<>> /\ kind(p) = "file"
  /\ tree[p].content.type = "external" => tree[p].content.id \in DOMAIN ObjectData
  /\ r.offset \in 0 .. Len(DataOf(p))
  /\ r.got = SubSeq(DataOf(p), 1, r.offset)
  /\ r.state = "all" => r.offset = Len(DataOf(p))

Noting ==
  /\ running \in BOOLEAN
  /\ served \in DOMAIN Trees
  /\ Root \in DOMAIN inodes
  /\ \A i \in DOMAIN inodes : IsNoted(i, inodes[i]) /\ inodes[i].parent \in DOMAIN inodes
  /\ \A i \in DOMAIN attrs : IsTold(i, attrs[i]) /\ (i \in DOMAIN inodes \/ i = Address(<<>>))

Knowing ==
  /\ Root \in DOMAIN known
  /\ DOMAIN known \subseteq DOMAIN inodes
  /\ \A i \in DOMAIN known : IsKnown(i, known[i])

Listing ==
  /\ DOMAIN listing = Lister
  /\ \A c \in Lister :
       /\ DOMAIN listing[c] = DOMAIN Idle
       /\ listing[c].state \in {"idle", "open", "all"}
       /\ listing[c].ino \in DOMAIN known
       /\ listing[c].state # "idle" => IsListing(listing[c], known[listing[c].ino].path)

\* A handle belongs to one client.
Handling ==
  /\ next_fh \in 1 .. MaxHandles + 1
  /\ DOMAIN handles \subseteq 1 .. next_fh - 1
  /\ DOMAIN reading = Reader
  /\ \A c \in Reader :
       /\ DOMAIN reading[c] = DOMAIN Idle
       /\ reading[c].state \in {"idle", "open", "all", "invalid"}
       /\ reading[c].state = "open" => reading[c].fh # 0
       /\ reading[c].fh # 0 => reading[c].fh \in DOMAIN handles
       /\ \A d \in Reader : reading[c].fh # 0 /\ reading[d].fh = reading[c].fh => c = d

Reading ==
  \A c \in Reader :
    /\ reading[c].ino \in DOMAIN known
    /\ reading[c].state \in {"open", "all"} => IsReading(reading[c], known[reading[c].ino].path)
    /\ reading[c].state = "open" => handles[reading[c].fh] = HandleOf(known[reading[c].ino].path)

IInv == Noting /\ Knowing /\ Listing /\ Handling /\ Reading

\* The tree does not change, nor what is true of it.
LEMMA TreeStays ==
  ASSUME served' = served
  PROVE  /\ tree' = tree
         /\ \A p : /\ Address(p)' = Address(p) /\ InoOf(p)' = InoOf(p)
                   /\ kind(p)' = kind(p) /\ HandleOf(p)' = HandleOf(p) /\ DataOf(p)' = DataOf(p)
                   /\ fileattr(p)' = fileattr(p)
                   /\ DirectoryList(p)' = DirectoryList(p)
         /\ \A i, n : IsNoted(i, n)' = IsNoted(i, n) /\ IsTold(i, n)' = IsTold(i, n) /\ IsKnown(i, n)' = IsKnown(i, n)
         /\ \A l, p : IsListing(l, p)' = IsListing(l, p) /\ IsReading(l, p)' = IsReading(l, p)
<1>1. tree' = tree
  BY DEF tree
<1>2. \A p : /\ Address(p)' = Address(p) /\ kind(p)' = kind(p)
             /\ HandleOf(p)' = HandleOf(p) /\ DataOf(p)' = DataOf(p)
  BY <1>1 DEF Address, kind, HandleOf, DataOf
<1>3. \A p : InoOf(p)' = InoOf(p)
  BY <1>2 DEF InoOf
<1>4. \A p : size(p)' = size(p) /\ nlink(p)' = nlink(p)
  BY <1>1, <1>2, Zenon DEF size, nlink
<1>5. \A p : fileattr(p)' = fileattr(p)
  BY <1>1, <1>2, <1>4 DEF fileattr
<1>6. \A p : sorted_entries(p)' = sorted_entries(p)
  BY DEF sorted_entries
<1>7. \A p : DirectoryList(p)' = DirectoryList(p)
  BY <1>2, <1>3, <1>6 DEF DirectoryList
<1>8. \A p : ParentNumber(p)' = ParentNumber(p)
  BY <1>3 DEF ParentNumber
<1>9. \A i, n : IsNoted(i, n)' = IsNoted(i, n)
  BY <1>1, <1>3, <1>8 DEF IsNoted
<1>10. \A i, n : IsTold(i, n)' = IsTold(i, n) /\ IsKnown(i, n)' = IsKnown(i, n)
  BY <1>1, <1>2, <1>3, <1>5 DEF IsTold, IsKnown
<1>11. \A l, p : IsListing(l, p)' = IsListing(l, p) /\ IsReading(l, p)' = IsReading(l, p)
  BY <1>1, <1>2, <1>7 DEF IsListing, IsReading
<1>12. QED BY <1>1, <1>2, <1>3, <1>5, <1>7, <1>9, <1>10, <1>11

\* By another path of the same inode, a client has got the same.
LEMMA SameForLinks ==
  ASSUME served \in DOMAIN Trees, NEW p \in DOMAIN tree, NEW q \in DOMAIN tree, InoOf(p) = InoOf(q)
  PROVE  /\ \A l : IsListing(l, p) => IsListing(l, q)
         /\ \A r : IsReading(r, p) => IsReading(r, q)
<1>1. /\ tree[p] = tree[q]
      /\ p = <<>> <=> q = <<>>
      /\ tree[p].dir => p = q
      /\ kind(p) = kind(q) /\ DataOf(p) = DataOf(q)
  BY SameNumber
<1>2. \A l : IsListing(l, p) => IsListing(l, q)
  BY <1>1 DEF IsListing
<1>3. \A r : IsReading(r, p) => IsReading(r, q)
  BY <1>1 DEF IsReading
<1>4. QED BY <1>2, <1>3

\* Learning more of the tree changes nothing for who lists or reads.
LEMMA LearningKeeps ==
  ASSUME IInv, Knowing', served' = served, DOMAIN known \subseteq DOMAIN known',
         UNCHANGED <<handles, next_fh, listing, reading>>
  PROVE  Listing' /\ Handling' /\ Reading'
<1>1. ASSUME NEW i \in DOMAIN known
      PROVE  /\ known[i].path \in DOMAIN tree /\ known'[i].path \in DOMAIN tree
             /\ InoOf(known'[i].path) = InoOf(known[i].path)
  <2>1. IsKnown(i, known[i]) /\ IsKnown(i, known'[i])
    BY TreeStays DEF IInv, Knowing
  <2>2. QED BY <2>1 DEF IsKnown
<1>2. served \in DOMAIN Trees
  BY DEF IInv, Noting
<1>3. Listing'
  <2>1. ASSUME NEW c \in Lister, listing[c].state # "idle"
        PROVE  IsListing(listing[c], known'[listing[c].ino].path)
    BY <1>1, <1>2, <2>1, SameForLinks DEF IInv, Listing
  <2>2. QED BY <2>1, TreeStays DEF IInv, Listing
<1>4. Handling'
  BY DEF IInv, Handling
<1>5. Reading'
  <2>1. ASSUME NEW c \in Reader, reading[c].state \in {"open", "all"}
        PROVE  IsReading(reading[c], known'[reading[c].ino].path)
    BY <1>1, <1>2, <2>1, SameForLinks DEF IInv, Reading
  <2>2. ASSUME NEW c \in Reader, reading[c].state = "open"
        PROVE  handles[reading[c].fh] = HandleOf(known'[reading[c].ino].path)
    BY <1>1, <1>2, <2>2, SameNumber DEF IInv, Reading
  <2>3. QED BY <2>1, <2>2, TreeStays DEF IInv, Reading
<1>6. QED BY <1>3, <1>4, <1>5

LEMMA RootIs ==
  ASSUME served \in DOMAIN Trees
  PROVE  /\ <<>> \in DOMAIN tree /\ tree[<<>>].dir /\ InoOf(<<>>) = Root
         /\ kind(<<>>) = "directory"
<1>1. <<>> \in DOMAIN tree /\ tree[<<>>].dir
  BY TreeIs DEF IsFileSystem
<1>2. QED BY <1>1, Kinds DEF InoOf

LEMMA InitIInv == Init => IInv
<1> SUFFICES ASSUME Init PROVE IInv
  OBVIOUS
<1>1. served \in DOMAIN Trees
  BY DEF Init
<1>2. DOMAIN inodes = {Root} /\ inodes[Root].path = <<>> /\ inodes[Root].parent = Root
  BY DEF Init
<1>3. DOMAIN known = {Root} /\ DOMAIN known[Root] = {"path", "attr"} /\ known[Root].path = <<>> /\ known[Root].attr.kind = "directory"
  BY DEF Init
<1>4. IsNoted(Root, inodes[Root]) /\ IsKnown(Root, known[Root])
  BY <1>1, <1>2, <1>3, RootIs DEF IsNoted, IsKnown, ParentNumber
<1>5. DOMAIN attrs = {} /\ DOMAIN handles = {} /\ running = TRUE /\ next_fh = 1
  BY DEF Init
<1>6. Noting /\ Knowing
  BY <1>1, <1>2, <1>3, <1>4, <1>5 DEF Noting, Knowing
<1>7. Idle.ino = Root /\ Idle.state = "idle" /\ Idle.fh = 0
  BY DEF Idle
<1>8. Listing
  BY <1>3, <1>7 DEF Init, Listing
<1>9. Handling
  BY <1>5, <1>7, FuseConstants DEF Init, Handling
<1>10. Reading
  BY <1>3, <1>7 DEF Init, Reading
<1>11. QED BY <1>6, <1>8, <1>9, <1>10 DEF IInv

\* The number of a directory leads to its path, for the server and for the kernel.
LEMMA DirectoryKnown ==
  ASSUME IInv, NEW i \in DOMAIN known, known[i].attr.kind = "directory" \/ tree[known[i].path].dir
  PROVE  /\ inodes[i].path = known[i].path /\ known[i].path \in DOMAIN tree
         /\ tree[known[i].path].dir
         /\ inodes[i].parent = ParentNumber(known[i].path)
         /\ InoOf(known[i].path) = i
<1>1. served \in DOMAIN Trees /\ i \in DOMAIN inodes
  BY DEF IInv, Noting, Knowing
<1>2. IsKnown(i, known[i]) /\ IsNoted(i, inodes[i])
  BY <1>1 DEF IInv, Noting, Knowing
<1>3. tree[known[i].path].dir /\ known[i].path \in DOMAIN tree
  BY <1>1, <1>2, Kinds DEF IsKnown
<1>4. known[i].path = inodes[i].path
  BY <1>1, <1>2, <1>3, SameNumber DEF IsKnown, IsNoted
<1>5. QED BY <1>2, <1>3, <1>4 DEF IsKnown, IsNoted

LEMMA LookupKeeps ==
  ASSUME IInv, NEW parent \in DOMAIN known, NEW n \in Names, Lookup(parent, n)
  PROVE  IInv'
<1> DEFINE dir == inodes[parent].path
           p == Append(dir, n)
           node == [path |-> p, parent |-> parent]
<1>1. /\ served' = served /\ UNCHANGED <<handles, next_fh, listing, reading>>
      /\ p \in DOMAIN tree
      /\ inodes' = With(inodes, Address(p), node)
      /\ known[parent].attr.kind = "directory"
  BY DEF Lookup, lookup
<1>2. served \in DOMAIN Trees /\ parent \in DOMAIN inodes
  BY DEF IInv, Noting, Knowing
<1>3. /\ dir = known[parent].path /\ dir \in DOMAIN tree /\ tree[dir].dir /\ InoOf(dir) = parent
  BY <1>1, DirectoryKnown
<1>4. p # <<>> /\ Parent(p) = dir
  <2>1. dir \in Seq(Names)
    BY <1>2, <1>3, TreeIs DEF IsFileSystem
  <2> HIDE DEF dir
  <2>2. QED BY <2>1 DEF Parent
<1>5. InoOf(p) = Address(p) /\ Address(p) # Root /\ ParentNumber(p) = parent
  BY <1>1, <1>2, <1>3, <1>4, RootApart DEF ParentNumber
<1>6. IsNoted(Address(p), node) /\ IsTold(Address(p), fileattr(p))
  BY <1>1, <1>5 DEF IsNoted, IsTold
<1> HIDE DEF dir, p, node
<1>7. /\ DOMAIN inodes' = DOMAIN inodes \cup {Address(p)}
      /\ inodes'[Address(p)] = node /\ node.parent = parent
      /\ \A i \in DOMAIN inodes : i # Address(p) => inodes'[i] = inodes[i]
  BY <1>1 DEF With, node
<1>8. \A i \in DOMAIN inodes' : IsNoted(i, inodes'[i]) /\ inodes'[i].parent \in DOMAIN inodes'
  BY <1>2, <1>6, <1>7 DEF IInv, Noting
<1>9. CASE FileattrPanics(p)
  <2>1. running' = FALSE /\ UNCHANGED <<attrs, known>>
    BY <1>9 DEF Lookup, p, dir
  <2>2. Noting'
    <3>1. \A i, x : IsNoted(i, x)' = IsNoted(i, x) /\ IsTold(i, x)' = IsTold(i, x)
      BY <1>1, TreeStays
    <3>2. running' \in BOOLEAN /\ served' \in DOMAIN Trees /\ Root \in DOMAIN inodes'
      BY <1>1, <1>7, <2>1 DEF IInv, Noting
    <3>3. (\A i \in DOMAIN inodes : IsNoted(i, inodes[i]) /\ inodes[i].parent \in DOMAIN inodes)'
      BY <1>8, <3>1
    <3>4. (\A i \in DOMAIN attrs : IsTold(i, attrs[i]) /\ (i \in DOMAIN inodes \/ i = Address(<<>>)))'
      <4>1. \A i \in DOMAIN attrs : IsTold(i, attrs[i]) /\ (i \in DOMAIN inodes \/ i = Address(<<>>))
        BY DEF IInv, Noting
      <4>2. Address(<<>>)' = Address(<<>>)
        BY <1>1, TreeStays
      <4>3. QED BY <1>7, <2>1, <3>1, <4>1, <4>2
    <3>5. QED BY <3>2, <3>3, <3>4 DEF Noting
  <2>3. Knowing'
    BY <1>1, <1>7, <2>1, TreeStays DEF IInv, Knowing
  <2>4. QED BY <1>1, <2>1, <2>2, <2>3, LearningKeeps DEF IInv
<1>10. CASE ~FileattrPanics(p)
  <2> DEFINE k == [path |-> Append(known[parent].path, n), attr |-> fileattr(p)]
  <2>1. /\ attrs' = With(attrs, Address(p), fileattr(p))
        /\ known' = With(known, Address(p), k)
        /\ running' = running
    BY <1>10 DEF Lookup, p, dir
  <2>2. k.path = p /\ k.attr = fileattr(p)
    BY <1>3 DEF p
  <2>3. IsKnown(Address(p), k)
    BY <1>1, <1>2, <1>5, <2>2, Kinds DEF IsKnown
  <2> HIDE DEF k
  <2>4. /\ DOMAIN attrs' = DOMAIN attrs \cup {Address(p)} /\ attrs'[Address(p)] = fileattr(p)
        /\ \A i \in DOMAIN attrs : i # Address(p) => attrs'[i] = attrs[i]
    BY <2>1 DEF With
  <2>5. /\ DOMAIN known' = DOMAIN known \cup {Address(p)} /\ known'[Address(p)] = k
        /\ \A i \in DOMAIN known : i # Address(p) => known'[i] = known[i]
    BY <2>1 DEF With
  <2>6. \A i \in DOMAIN attrs' : IsTold(i, attrs'[i]) /\ (i \in DOMAIN inodes' \/ i = Address(<<>>))
    BY <1>6, <1>7, <2>4 DEF IInv, Noting
  <2>7. Noting'
    BY <1>1, <1>7, <1>8, <2>1, <2>6, TreeStays DEF IInv, Noting
  <2>8. \A i \in DOMAIN known' : IsKnown(i, known'[i])
    BY <2>3, <2>5 DEF IInv, Knowing
  <2>9. Knowing'
    BY <1>1, <1>7, <2>5, <2>8, TreeStays DEF IInv, Knowing
  <2>10. QED BY <1>1, <2>5, <2>7, <2>9, LearningKeeps DEF IInv
<1>11. QED BY <1>9, <1>10

LEMMA GetattrKeeps ==
  ASSUME IInv, NEW ino \in DOMAIN known, Getattr(ino)
  PROVE  IInv'
<1> DEFINE p == inodes[ino].path
<1>1. served' = served /\ UNCHANGED <<inodes, handles, next_fh, listing, reading>>
  BY DEF Getattr
<1>2. served \in DOMAIN Trees /\ ino \in DOMAIN inodes
  BY DEF IInv, Noting, Knowing
<1>3. IsNoted(ino, inodes[ino]) /\ IsKnown(ino, known[ino])
  BY <1>2 DEF IInv, Noting, Knowing
<1>4. p \in DOMAIN tree /\ InoOf(p) = ino /\ kind(p) = kind(known[ino].path) /\ fileattr(p) = fileattr(known[ino].path)
  BY <1>2, <1>3, SameNumber DEF IsNoted, IsKnown
<1> HIDE DEF p
<1>5. ASSUME NEW attr, attr = fileattr(p), known' = [known EXCEPT ![ino].attr = attr]
      PROVE  DOMAIN known' = DOMAIN known /\ Knowing'
  <2>1. /\ DOMAIN known' = DOMAIN known
        /\ \A i \in DOMAIN known : i # ino => known'[i] = known[i]
        /\ known'[ino] = [known[ino] EXCEPT !.attr = attr]
    BY <1>5
  <2>2. /\ known'[ino].path = known[ino].path /\ known'[ino].attr = attr
        /\ DOMAIN known'[ino] = {"path", "attr"}
    BY <1>3, <2>1 DEF IsKnown
  <2>3. IsKnown(ino, known'[ino])
    BY <1>2, <1>3, <1>4, <1>5, <2>2, Kinds DEF IsKnown
  <2>4. \A i \in DOMAIN known : IsKnown(i, known'[i])
    BY <2>1, <2>3 DEF IInv, Knowing
  <2>5. QED BY <1>1, <2>1, <2>4, TreeStays DEF IInv, Knowing
<1>6. CASE ino \in DOMAIN attrs
  <2>1. known' = [known EXCEPT ![ino].attr = attrs[ino]] /\ UNCHANGED <<running, attrs>>
    BY <1>6 DEF Getattr
  <2>2. attrs[ino] = fileattr(p)
    <3>1. PICK q \in DOMAIN tree : ino = Address(q) /\ attrs[ino] = fileattr(q)
      BY <1>6 DEF IInv, Noting, IsTold
    <3>2. p # <<>> /\ Address(p) = ino
      BY <1>2, <1>4, <3>1, RootApart
    <3>3. q # <<>>
      <4>1. SUFFICES ASSUME q = <<>> PROVE FALSE
        OBVIOUS
      <4>2. p = q
        BY <1>2, <1>4, <3>1, <3>2, <4>1, RootIs, SameAddress DEF SameLeaf
      <4>3. QED BY <3>2, <4>1, <4>2
    <3>4. InoOf(q) = InoOf(p)
      BY <1>2, <1>4, <3>1, <3>2, <3>3, RootApart
    <3>5. QED BY <1>2, <1>4, <3>1, <3>4, SameNumber
  <2>3. Knowing' /\ DOMAIN known' = DOMAIN known
    BY <1>5, <2>1, <2>2
  <2>4. Noting'
    BY <1>1, <2>1, TreeStays DEF IInv, Noting
  <2>5. QED BY <1>1, <2>3, <2>4, LearningKeeps DEF IInv
<1>7. CASE ino \notin DOMAIN attrs /\ FileattrPanics(p)
  <2>1. running' = FALSE /\ UNCHANGED <<attrs, known>>
    BY <1>7 DEF Getattr, p
  <2>2. Noting' /\ Knowing'
    BY <1>1, <2>1, TreeStays DEF IInv, Noting, Knowing
  <2>3. QED BY <1>1, <2>1, <2>2, LearningKeeps DEF IInv
<1>8. CASE ino \notin DOMAIN attrs /\ ~FileattrPanics(p)
  <2>1. /\ attrs' = With(attrs, Address(p), fileattr(p))
        /\ known' = [known EXCEPT ![ino].attr = fileattr(p)]
        /\ running' = running
    BY <1>8 DEF Getattr, p
  <2>2. /\ DOMAIN attrs' = DOMAIN attrs \cup {Address(p)} /\ attrs'[Address(p)] = fileattr(p)
        /\ \A i \in DOMAIN attrs : i # Address(p) => attrs'[i] = attrs[i]
    BY <2>1 DEF With
  <2>3. IsTold(Address(p), fileattr(p)) /\ (Address(p) \in DOMAIN inodes \/ Address(p) = Address(<<>>))
    BY <1>2, <1>4, RootApart DEF IsTold
  <2>4. \A i \in DOMAIN attrs' : IsTold(i, attrs'[i]) /\ (i \in DOMAIN inodes \/ i = Address(<<>>))
    BY <2>2, <2>3 DEF IInv, Noting
  <2>5. Noting'
    BY <1>1, <2>1, <2>4, TreeStays DEF IInv, Noting
  <2>6. Knowing' /\ DOMAIN known' = DOMAIN known
    BY <1>5, <2>1
  <2>7. QED BY <1>1, <2>5, <2>6, LearningKeeps DEF IInv
<1>9. QED BY <1>6, <1>7, <1>8

LEMMA AllEntriesAre ==
  ASSUME IInv, NEW i \in DOMAIN known, known[i].attr.kind = "directory" \/ tree[known[i].path].dir
  PROVE  AllEntries(i) = DirectoryList(known[i].path)
<1>1. /\ inodes[i].path = known[i].path
      /\ inodes[i].parent = ParentNumber(known[i].path)
      /\ InoOf(known[i].path) = i
  BY DirectoryKnown
<1>2. QED BY <1>1 DEF AllEntries, DirectoryList, ParentNumber

\* A step of a client that lists changes nothing for the others.
LEMMA ListerKeeps ==
  ASSUME IInv, NEW c \in Lister,
         UNCHANGED <<served, handles, next_fh, known, reading>>,
         DOMAIN listing' = Lister,
         \A d \in Lister \ {c} : listing'[d] = listing[d],
         DOMAIN listing'[c] = DOMAIN Idle,
         listing'[c].state \in {"open", "all"},
         listing'[c].ino \in DOMAIN known,
         IsListing(listing'[c], known[listing'[c].ino].path)
  PROVE  Listing' /\ Handling' /\ Reading'
<1>1. ASSUME NEW d \in Lister
      PROVE  /\ DOMAIN listing'[d] = DOMAIN Idle
             /\ listing'[d].state \in {"idle", "open", "all"}
             /\ listing'[d].ino \in DOMAIN known
             /\ listing'[d].state # "idle" => IsListing(listing'[d], known[listing'[d].ino].path)
  <2>1. CASE d = c
    BY <2>1
  <2>2. CASE d # c
    BY <2>2 DEF IInv, Listing
  <2>3. QED BY <2>1, <2>2
<1>2. Listing'
  <2>1. DOMAIN Idle' = DOMAIN Idle
    BY DEF Idle, Root
  <2>2. QED BY <1>1, <2>1, TreeStays DEF Listing
<1>3. Handling'
  BY DEF IInv, Handling, Idle, Root
<1>4. Reading'
  BY TreeStays DEF IInv, Reading
<1>5. QED BY <1>2, <1>3, <1>4

LEMMA OpendirKeeps ==
  ASSUME IInv, NEW c \in Lister, NEW ino \in DOMAIN known, Opendir(c, ino)
  PROVE  IInv'
<1> DEFINE p == known[ino].path
           l == [Idle EXCEPT !.ino = ino, !.state = "open"]
<1>1. /\ UNCHANGED <<served, running, inodes, attrs, handles, next_fh, known, reading>>
      /\ known[ino].attr.kind = "directory"
      /\ listing' = [listing EXCEPT ![c] = l]
  BY DEF Opendir, server
<1>2. l.ino = ino /\ l.state = "open" /\ l.offset = 0 /\ l.got = <<>> /\ DOMAIN l = DOMAIN Idle
  BY DEF Idle
<1> HIDE DEF l
<1>3. served \in DOMAIN Trees /\ p \in DOMAIN tree /\ tree[p].dir
  BY <1>1, DirectoryKnown DEF IInv, Noting
<1>4. IsListing(l, p)
  <2>1. PICK X : DirectoryList(p) \in Seq(X)
    BY <1>3, ListIs
  <2>2. 0 \in 0 .. Len(DirectoryList(p)) /\ SubSeq(DirectoryList(p), 1, 0) = <<>>
    BY <2>1, BeginningGrows
  <2>3. QED BY <1>2, <1>3, <2>2 DEF IsListing
<1>5. DOMAIN listing' = Lister /\ listing'[c] = l /\ \A d \in Lister \ {c} : listing'[d] = listing[d]
  BY <1>1 DEF IInv, Listing
<1>6. Listing' /\ Handling' /\ Reading'
  BY <1>1, <1>2, <1>4, <1>5, ListerKeeps
<1>7. Noting' /\ Knowing'
  BY <1>1, TreeStays DEF IInv, Noting, Knowing
<1>8. QED BY <1>6, <1>7 DEF IInv

LEMMA NotedKeeps ==
  ASSUME IInv, NEW ino \in DOMAIN known, known[ino].attr.kind = "directory" \/ tree[known[ino].path].dir,
         NEW paths \in SUBSET Entries(tree, known[ino].path),
         inodes' = Noted(paths, ino), UNCHANGED <<served, running, attrs, known>>
  PROVE  Noting' /\ Knowing'
<1> DEFINE p == known[ino].path
<1>1. /\ served \in DOMAIN Trees /\ ino \in DOMAIN inodes
      /\ p \in DOMAIN tree /\ tree[p].dir /\ InoOf(p) = ino
  BY DirectoryKnown DEF IInv, Noting, Knowing
<1>2. ASSUME NEW q \in paths
      PROVE  q \in DOMAIN tree /\ InoOf(q) = Address(q) /\ ParentNumber(q) = ino
  <2>1. q \in DOMAIN tree /\ q # <<>> /\ Parent(q) = p
    BY <1>1, EntryNamed
  <2>2. QED BY <1>1, <2>1, RootApart DEF ParentNumber
<1> HIDE DEF p
<1>3. DOMAIN inodes' = DOMAIN inodes \cup {Address(q) : q \in paths}
  BY DEF Noted
<1>4. ASSUME NEW i \in DOMAIN inodes'
      PROVE  IsNoted(i, inodes'[i]) /\ inodes'[i].parent \in DOMAIN inodes'
  <2>1. CASE \E q \in paths : Address(q) = i
    <3> DEFINE q == CHOOSE q \in paths : Address(q) = i
    <3>1. q \in paths /\ Address(q) = i
      BY <2>1
    <3>2. inodes'[i] = [path |-> q, parent |-> ino]
      BY <1>3, <2>1 DEF Noted
    <3> HIDE DEF q
    <3>3. inodes'[i].path = q /\ inodes'[i].parent = ino
      BY <3>2
    <3>4. QED BY <1>1, <1>2, <1>3, <3>1, <3>3 DEF IsNoted
  <2>2. CASE ~\E q \in paths : Address(q) = i
    <3>1. i \in DOMAIN inodes /\ inodes'[i] = inodes[i]
      BY <1>3, <2>2 DEF Noted
    <3>2. QED BY <1>3, <3>1 DEF IInv, Noting
  <2>3. QED BY <2>1, <2>2
<1>5. Noting'
  BY <1>3, <1>4, TreeStays DEF IInv, Noting
<1>6. Knowing'
  BY <1>3, TreeStays DEF IInv, Knowing
<1>7. QED BY <1>5, <1>6

LEMMA ReaddirKeeps ==
  ASSUME IInv, NEW c \in Lister, NEW n \in 1 .. 2, Readdir(c, n)
  PROVE  IInv'
<1> DEFINE l == listing[c]
           p == known[l.ino].path
           list == DirectoryList(p)
           count == Least(n, Len(list) - l.offset)
           noted == {sorted_entries(inodes[l.ino].path)[i - 2] :
                       i \in {k \in 3 .. Len(list) : l.offset < k /\ k <= l.offset + n + 1}}
<1>1. /\ UNCHANGED <<served, running, attrs, handles, next_fh, known, reading>>
      /\ l.state = "open" /\ l.ino \in DOMAIN known
      /\ DOMAIN listing = Lister /\ DOMAIN l = DOMAIN Idle
      /\ served \in DOMAIN Trees
      /\ IsListing(l, p)
  BY DEF Readdir, IInv, Listing, Noting
<1>2. /\ p \in DOMAIN tree /\ tree[p].dir /\ inodes[l.ino].path = p
      /\ AllEntries(l.ino) = list
  BY <1>1, DirectoryKnown, AllEntriesAre DEF IsListing
<1>3. /\ inodes' = Noted(noted, l.ino)
      /\ listing' = [listing EXCEPT ![c].offset = l.offset + count,
                                    ![c].got = @ \o SubSeq(list, l.offset + 1, l.offset + count),
                                    ![c].state = IF count = 0 THEN "all" ELSE "open"]
  BY <1>2 DEF Readdir, OffsetAfter
<1>4. PICK X : list \in Seq(X)
  BY <1>1, <1>2, ListIs
<1>5. Len(list) = Cardinality(Entries(tree, p)) + 2 /\ Cardinality(Entries(tree, p)) \in Nat
  BY <1>2, <1>1, ListIs
<1>6. noted \subseteq Entries(tree, p)
  <2>1. sorted_entries(p) \in Seq(Entries(tree, p)) /\ Len(sorted_entries(p)) = Cardinality(Entries(tree, p))
    BY <1>1, <1>2, EntriesSorted
  <2> HIDE DEF list, p, l
  <2>2. \A k \in 3 .. Len(list) : k - 2 \in 1 .. Len(sorted_entries(p))
    BY <1>5, <2>1
  <2>3. \A k \in 1 .. Len(sorted_entries(p)) : sorted_entries(p)[k] \in Entries(tree, p)
    BY <2>1
  <2>4. QED BY <1>2, <2>2, <2>3
<1> HIDE DEF noted
<1>7. Noting' /\ Knowing'
  BY <1>1, <1>2, <1>3, <1>6, NotedKeeps
<1>8. /\ DOMAIN listing' = Lister
      /\ \A d \in Lister \ {c} : listing'[d] = listing[d]
      /\ DOMAIN listing'[c] = DOMAIN Idle
      /\ listing'[c].ino = l.ino
      /\ listing'[c].offset = l.offset + count
      /\ listing'[c].got = l.got \o SubSeq(list, l.offset + 1, l.offset + count)
      /\ listing'[c].state = IF count = 0 THEN "all" ELSE "open"
  <2> HIDE DEF count, list
  <2>1. DOMAIN l = {"ino", "fh", "offset", "got", "state"} /\ l = listing[c]
    BY <1>1 DEF Idle
  <2>2. /\ DOMAIN listing' = Lister
        /\ \A d \in Lister \ {c} : listing'[d] = listing[d]
    BY <1>1, <1>3
  <2>3. /\ DOMAIN listing'[c] = DOMAIN listing[c]
        /\ listing'[c].ino = listing[c].ino
        /\ listing'[c].offset = listing[c].offset + count
        /\ listing'[c].got = listing[c].got \o SubSeq(list, listing[c].offset + 1, listing[c].offset + count)
        /\ listing'[c].state = IF count = 0 THEN "all" ELSE "open"
    BY <1>1, <1>3, <2>1
  <2>4. QED BY <2>1, <2>2, <2>3, <1>1
<1>9. /\ l.offset \in 0 .. Len(list) /\ l.got = SubSeq(list, 1, l.offset)
      /\ Len(list) \in Nat
  BY <1>1, <1>4 DEF IsListing
<1> HIDE DEF list, l, p
<1>10. /\ count \in Nat /\ l.offset + count \in 0 .. Len(list)
       /\ count = 0 => l.offset = Len(list)
  BY <1>9 DEF Least
<1> HIDE DEF count
<1>11. listing'[c].got = SubSeq(list, 1, l.offset + count)
  <2>1. l.offset \in 0 .. l.offset + count
    BY <1>9, <1>10
  <2>2. SubSeq(list, 1, l.offset) \o SubSeq(list, l.offset + 1, l.offset + count) = SubSeq(list, 1, l.offset + count)
    BY <1>4, <1>10, <2>1, BeginningGrows
  <2>3. QED BY <1>8, <1>9, <2>2
<1>12. IsListing(listing'[c], p)
  <2>1. listing'[c].state = "all" => l.offset + count = Len(list)
    BY <1>8, <1>9, <1>10
  <2>2. QED BY <1>2, <1>8, <1>10, <1>11, <2>1 DEF IsListing, list
<1>13. listing'[c].state \in {"open", "all"}
  BY <1>8
<1>14. Listing' /\ Handling' /\ Reading'
  BY <1>1, <1>8, <1>12, <1>13, ListerKeeps DEF p
<1>15. QED BY <1>7, <1>14 DEF IInv

LEMMA ReaderKeeps ==
  ASSUME IInv, UNCHANGED <<served, running, inodes, attrs, known, listing>>
  PROVE  Noting' /\ Knowing' /\ Listing'
<1>1. Noting' /\ Knowing'
  BY TreeStays DEF IInv, Noting, Knowing
<1>2. DOMAIN Idle' = DOMAIN Idle
  BY DEF Idle, Root
<1>3. Listing'
  BY <1>2, TreeStays DEF IInv, Listing
<1>4. QED BY <1>1, <1>3

LEMMA FileData ==
  ASSUME served \in DOMAIN Trees, NEW p \in DOMAIN tree, kind(p) = "file",
         tree[p].content.type = "external" => tree[p].content.id \in DOMAIN ObjectData
  PROVE  /\ DataOf(p) \in Seq(Byte)
         /\ Len(DataOf(p)) = size(p)
         /\ HandleOf(p).inline => HandleOf(p).data = DataOf(p)
         /\ ~HandleOf(p).inline => ObjectData[HandleOf(p).object] = DataOf(p)
<1>1. ~tree[p].dir /\ tree[p].content.type \in {"inline", "external"}
  BY Kinds
<1>2. IsLeaf(tree[p])
  BY TreeIs
<1>3. DataOf(p) \in Seq(Byte)
  BY <1>1, <1>2, FuseConstants DEF DataOf, IsLeaf
<1>4. CASE tree[p].content.type = "inline"
  <2>1. size(p) = Len(tree[p].content.data)
    BY <1>4, Zenon DEF size
  <2>2. HandleOf(p).inline /\ HandleOf(p).data = DataOf(p)
    BY <1>4 DEF HandleOf, DataOf
  <2>3. QED BY <1>3, <1>4, <2>1, <2>2 DEF DataOf
<1>5. CASE tree[p].content.type = "external"
  <2>1. tree[p].content.type # "inline" /\ tree[p].content.size = Len(ObjectData[tree[p].content.id])
    BY <1>1, <1>2, <1>5 DEF IsLeaf
  <2>2. size(p) = tree[p].content.size
    BY <2>1, Zenon DEF size
  <2>3. ~HandleOf(p).inline /\ ObjectData[HandleOf(p).object] = DataOf(p)
    BY <2>1 DEF HandleOf, DataOf
  <2>4. QED BY <1>3, <2>1, <2>2, <2>3 DEF DataOf
<1>6. QED BY <1>1, <1>4, <1>5

LEMMA OpenKeeps ==
  ASSUME IInv, NEW c \in Reader, NEW ino \in DOMAIN known, Open(c, ino)
  PROVE  IInv'
<1> DEFINE p == inodes[ino].path
           q == known[ino].path
<1>1. /\ UNCHANGED <<served, running, inodes, attrs, known, listing>>
      /\ known[ino].attr.kind = "file" /\ next_fh <= MaxHandles
  BY DEF Open
<1>2. served \in DOMAIN Trees /\ IsNoted(ino, inodes[ino]) /\ IsKnown(ino, known[ino])
  BY DEF IInv, Noting, Knowing
<1>3. /\ p \in DOMAIN tree /\ q \in DOMAIN tree /\ tree[p] = tree[q]
      /\ kind(q) = "file" /\ q # <<>> /\ HandleOf(p) = HandleOf(q)
  <2>1. p \in DOMAIN tree /\ q \in DOMAIN tree /\ InoOf(p) = InoOf(q) /\ kind(q) = "file"
    BY <1>1, <1>2 DEF IsNoted, IsKnown
  <2>2. QED BY <1>2, <2>1, SameNumber, RootIs
<1> HIDE DEF p, q
<1>4. Noting' /\ Knowing' /\ Listing'
  BY <1>1, ReaderKeeps
<1>5. /\ next_fh \in Nat \ {0} /\ DOMAIN handles \subseteq 1 .. next_fh - 1
      /\ MaxHandles \in Nat /\ next_fh \notin DOMAIN handles
      /\ DOMAIN reading = Reader
  BY FuseConstants DEF IInv, Handling
<1>6. CASE tree[p].content.type = "external" /\ tree[p].content.id \notin DOMAIN ObjectData
  <2> DEFINE r == [Idle EXCEPT !.ino = ino, !.state = "invalid"]
  <2>1. reading' = [reading EXCEPT ![c] = r] /\ UNCHANGED <<handles, next_fh>>
    BY <1>6 DEF Open, p
  <2>2. r.ino = ino /\ r.state = "invalid" /\ r.fh = 0 /\ DOMAIN r = DOMAIN Idle
    BY DEF Idle
  <2> HIDE DEF r
  <2>3. DOMAIN reading' = Reader /\ reading'[c] = r /\ \A d \in Reader \ {c} : reading'[d] = reading[d]
    BY <1>5, <2>1
  <2>4. Handling'
    BY <1>1, <2>1, <2>2, <2>3 DEF IInv, Handling, Idle, Root
  <2>5. Reading'
    BY <1>1, <2>1, <2>2, <2>3, TreeStays DEF IInv, Reading
  <2>6. QED BY <1>4, <2>4, <2>5 DEF IInv
<1>7. CASE ~(tree[p].content.type = "external" /\ tree[p].content.id \notin DOMAIN ObjectData)
  <2> DEFINE r == [Idle EXCEPT !.ino = ino, !.fh = next_fh, !.state = "open"]
  <2>1. /\ reading' = [reading EXCEPT ![c] = r]
        /\ handles' = With(handles, next_fh, HandleOf(p))
        /\ next_fh' = next_fh + 1
    BY <1>7 DEF Open, p, NextFh
  <2>2. /\ r.ino = ino /\ r.state = "open" /\ r.fh = next_fh /\ DOMAIN r = DOMAIN Idle
        /\ r.offset = 0 /\ r.got = <<>>
    BY DEF Idle
  <2> HIDE DEF r
  <2>3. DOMAIN reading' = Reader /\ reading'[c] = r /\ \A d \in Reader \ {c} : reading'[d] = reading[d]
    BY <1>5, <2>1
  <2>4. /\ DOMAIN handles' = DOMAIN handles \cup {next_fh} /\ handles'[next_fh] = HandleOf(q)
        /\ \A h \in DOMAIN handles : handles'[h] = handles[h]
    BY <1>3, <1>5, <2>1 DEF With
  <2>5. next_fh' \in 1 .. MaxHandles + 1 /\ DOMAIN handles' \subseteq 1 .. next_fh' - 1
    BY <1>1, <1>5, <2>1, <2>4
  <2>6. ASSUME NEW d \in Reader
        PROVE  /\ DOMAIN reading'[d] = DOMAIN Idle
               /\ reading'[d].state \in {"idle", "open", "all", "invalid"}
               /\ reading'[d].state = "open" => reading'[d].fh # 0
               /\ reading'[d].fh # 0 => reading'[d].fh \in DOMAIN handles'
               /\ \A e \in Reader : reading'[d].fh # 0 /\ reading'[e].fh = reading'[d].fh => d = e
    <3>1. \A e \in Reader \ {c} : reading'[e].fh # next_fh \/ reading'[e].fh = 0
      BY <1>5, <2>3 DEF IInv, Handling
    <3>2. CASE d = c
      BY <1>5, <2>2, <2>3, <2>4, <3>1, <3>2
    <3>3. CASE d # c
      BY <1>5, <2>2, <2>3, <2>4, <3>1, <3>3 DEF IInv, Handling
    <3>4. QED BY <3>2, <3>3
  <2>7. Handling'
    <3>1. DOMAIN Idle' = DOMAIN Idle
      BY DEF Idle, Root
    <3>2. QED BY <2>3, <2>5, <2>6, <3>1 DEF Handling
  <2>8. IsReading(r, q)
    <3>1. DataOf(q) \in Seq(Byte)
      BY <1>2, <1>3, <1>7, FileData
    <3>2. 0 \in 0 .. Len(DataOf(q)) /\ SubSeq(DataOf(q), 1, 0) = <<>>
      BY <3>1, BeginningGrows
    <3>3. QED BY <1>3, <1>7, <2>2, <3>2 DEF IsReading
  <2>9. ASSUME NEW d \in Reader
        PROVE  /\ reading'[d].ino \in DOMAIN known
               /\ reading'[d].state \in {"open", "all"} => IsReading(reading'[d], known[reading'[d].ino].path)
               /\ reading'[d].state = "open" => handles'[reading'[d].fh] = HandleOf(known[reading'[d].ino].path)
    <3>1. CASE d = c
      BY <2>2, <2>3, <2>4, <2>8, <3>1 DEF q
    <3>2. CASE d # c
      BY <2>3, <2>4, <3>2 DEF IInv, Reading, Handling
    <3>3. QED BY <3>1, <3>2
  <2>10. Reading'
    BY <1>1, <2>9, TreeStays DEF Reading
  <2>11. QED BY <1>4, <2>7, <2>10 DEF IInv
<1>8. QED BY <1>6, <1>7

LEMMA ReadKeeps ==
  ASSUME IInv, NEW c \in Reader, Read(c)
  PROVE  IInv'
<1> DEFINE r == reading[c]
           p == known[r.ino].path
           all == DataOf(p)
           end == Least(r.offset + MaxRead, Len(all))
           part == SubSeq(all, r.offset + 1, end)
<1>1. /\ UNCHANGED <<served, running, inodes, attrs, handles, next_fh, known, listing>>
      /\ r.state = "open" /\ r.fh \in DOMAIN handles
      /\ served \in DOMAIN Trees /\ r.ino \in DOMAIN known
      /\ IsReading(r, p) /\ handles[r.fh] = HandleOf(p)
      /\ DOMAIN reading = Reader /\ DOMAIN r = DOMAIN Idle
  BY DEF Read, server, IInv, Noting, Handling, Reading
<1>2. p \in DOMAIN tree
  BY <1>1 DEF IInv, Knowing, IsKnown
<1>3. /\ all \in Seq(Byte)
      /\ HandleOf(p).inline => HandleOf(p).data = all
      /\ ~HandleOf(p).inline => ObjectData[HandleOf(p).object] = all
  BY <1>1, <1>2, FileData DEF IsReading
<1>4. /\ r.offset \in 0 .. Len(all) /\ r.got = SubSeq(all, 1, r.offset)
      /\ Len(all) \in Nat /\ MaxRead \in Nat \ {0}
  BY <1>1, <1>3, FuseConstants DEF IsReading
<1>5. PICK data \in IF HandleOf(p).inline THEN {Slice(HandleOf(p).data, r.offset, MaxRead)}
                    ELSE pread(ObjectData[HandleOf(p).object], r.offset, MaxRead) :
        reading' = [reading EXCEPT ![c].got = @ \o data,
                                   ![c].offset = @ + Len(data),
                                   ![c].state = IF data = <<>> THEN "all" ELSE "open"]
  BY <1>1 DEF Read
<1>6. /\ DOMAIN reading' = Reader
      /\ \A d \in Reader \ {c} : reading'[d] = reading[d]
      /\ DOMAIN reading'[c] = DOMAIN Idle
      /\ reading'[c].ino = r.ino /\ reading'[c].fh = r.fh
      /\ reading'[c].offset = r.offset + Len(data)
      /\ reading'[c].got = r.got \o data
      /\ reading'[c].state = IF data = <<>> THEN "all" ELSE "open"
  <2>1. DOMAIN r = {"ino", "fh", "offset", "got", "state"}
    BY <1>1 DEF Idle
  <2>2. /\ DOMAIN reading' = Reader
        /\ \A d \in Reader \ {c} : reading'[d] = reading[d]
    BY <1>1, <1>5
  <2>3. /\ DOMAIN reading'[c] = DOMAIN reading[c]
        /\ reading'[c].ino = reading[c].ino /\ reading'[c].fh = reading[c].fh
        /\ reading'[c].offset = reading[c].offset + Len(data)
        /\ reading'[c].got = reading[c].got \o data
        /\ reading'[c].state = IF data = <<>> THEN "all" ELSE "open"
    BY <1>1, <1>5, <2>1
  <2>4. QED BY <1>1, <2>2, <2>3
<1>7. /\ end \in 0 .. Len(all) /\ r.offset \in 0 .. end
      /\ r.offset = end => r.offset = Len(all)
  BY <1>4 DEF Least
<1>8. Slice(all, r.offset, MaxRead) = part
  BY DEF Slice
<1>9. \E k \in 0 .. end - r.offset :
        data = SubSeq(all, r.offset + 1, r.offset + k) /\ (k = 0 => r.offset = Len(all))
  <2> HIDE DEF all, end, r
  <2>1. /\ Len(part) = end - r.offset
        /\ part = <<>> <=> r.offset = end
        /\ \A k \in 0 .. end - r.offset : SubSeq(part, 1, k) = SubSeq(all, r.offset + 1, r.offset + k)
    <3>1. all \in Seq(Byte)
      BY <1>3
    <3> DEFINE a == r.offset
    <3>2. end \in 0 .. Len(all) /\ a \in 0 .. end
      BY <1>7
    <3> HIDE DEF a
    <3>3. /\ Len(SubSeq(all, a + 1, end)) = end - a
          /\ SubSeq(all, a + 1, end) = <<>> <=> a = end
          /\ \A k \in 0 .. end - a :
               SubSeq(SubSeq(all, a + 1, end), 1, k) = SubSeq(all, a + 1, a + k)
      <4>1. \A s \in Seq(Byte) : \A b \in 0 .. Len(s) : \A k \in 0 .. b :
              /\ Len(SubSeq(s, k + 1, b)) = b - k
              /\ SubSeq(s, k + 1, b) = <<>> <=> k = b
              /\ \A j \in 0 .. b - k : SubSeq(SubSeq(s, k + 1, b), 1, j) = SubSeq(s, k + 1, k + j)
        BY BeginningGrows
      <4>2. QED BY <3>1, <3>2, <4>1
    <3>4. QED BY <3>3 DEF a
  <2>2. CASE data = part
    <3>1. end - r.offset \in 0 .. end - r.offset /\ r.offset + (end - r.offset) = end
      BY <1>7
    <3>2. data = SubSeq(all, r.offset + 1, r.offset + (end - r.offset))
      BY <2>2, <3>1
    <3>3. end - r.offset = 0 => r.offset = Len(all)
      BY <1>7
    <3>4. QED BY <3>1, <3>2, <3>3
  <2>3. CASE part # <<>> /\ \E k \in 1 .. Len(part) : data = SubSeq(part, 1, k)
    <3> HIDE DEF part
    <3>1. PICK k \in 1 .. end - r.offset : data = SubSeq(part, 1, k)
      BY <2>1, <2>3
    <3>2. k \in 0 .. end - r.offset /\ k # 0
      BY <1>7
    <3>3. QED BY <2>1, <3>1, <3>2
  <2>4. data = part \/ (part # <<>> /\ \E k \in 1 .. Len(part) : data = SubSeq(part, 1, k))
    <3> HIDE DEF part
    <3>1. CASE HandleOf(p).inline
      BY <1>3, <1>5, <1>8, <3>1 DEF all
    <3>2. CASE ~HandleOf(p).inline
      <4>1. data \in pread(all, r.offset, MaxRead)
        BY <1>3, <1>5, <3>2 DEF all
      <4>2. QED BY <1>8, <4>1 DEF pread
    <3>3. QED BY <3>1, <3>2
  <2>5. QED BY <2>2, <2>3, <2>4
<1>10. PICK k \in 0 .. end - r.offset :
         data = SubSeq(all, r.offset + 1, r.offset + k) /\ (k = 0 => r.offset = Len(all))
  BY <1>9
<1> HIDE DEF all, end, r, p
<1>11. /\ r.offset + k \in 0 .. Len(all) /\ r.offset \in 0 .. r.offset + k
       /\ (r.offset + k) - r.offset = k /\ k \in Nat
  BY <1>4, <1>7
<1>12. /\ Len(data) = k
       /\ r.got \o data = SubSeq(all, 1, r.offset + k)
       /\ data = <<>> <=> k = 0
  <2> DEFINE from == r.offset
             to == r.offset + k
  <2>1. to \in 0 .. Len(all) /\ from \in 0 .. to /\ to - from = k /\ from + k = to
    BY <1>11
  <2>2. r.got = SubSeq(all, 1, from) /\ data = SubSeq(all, from + 1, to)
    BY <1>4, <1>10
  <2>3. all \in Seq(Byte)
    BY <1>3
  <2> HIDE DEF from, to
  <2>4. /\ Len(SubSeq(all, from + 1, to)) = to - from
        /\ SubSeq(all, from + 1, to) = <<>> <=> from = to
        /\ SubSeq(all, 1, from) \o SubSeq(all, from + 1, to) = SubSeq(all, 1, to)
    BY <2>1, <2>3, BeginningGrows
  <2>5. from \in Nat /\ to \in Nat
    BY <2>1
  <2>6. from = to <=> k = 0
    BY <1>11, <2>1, <2>5
  <2>7. QED BY <2>1, <2>2, <2>4, <2>6 DEF to
<1>13. IsReading(reading'[c], p)
  <2>1. ASSUME reading'[c].state = "all" PROVE r.offset + k = Len(all)
    <3>1. k = 0
      BY <1>6, <1>12, <2>1
    <3>2. r.offset = Len(all) /\ r.offset \in Nat
      BY <1>4, <1>10, <3>1
    <3>3. QED BY <3>1, <3>2
  <2>2. reading'[c].offset = r.offset + k /\ reading'[c].got = SubSeq(all, 1, r.offset + k)
    BY <1>6, <1>12
  <2>3. QED BY <1>1, <1>11, <2>1, <2>2 DEF IsReading, all, p
<1>14. Noting' /\ Knowing' /\ Listing'
  BY <1>1, ReaderKeeps
<1>15. Handling'
  <2>1. DOMAIN Idle' = DOMAIN Idle
    BY DEF Idle, Root
  <2>2. \A d \in Reader : reading'[d].fh = reading[d].fh
    BY <1>6 DEF r
  <2>3. \A d \in Reader : reading'[d].state = "open" => reading[d].state = "open"
    BY <1>1, <1>6 DEF r
  <2>4. \A d \in Reader : reading'[d].state \in {"idle", "open", "all", "invalid"}
    BY <1>6 DEF IInv, Handling
  <2>5. \A d \in Reader : DOMAIN reading'[d] = DOMAIN Idle
    BY <1>6 DEF IInv, Handling
  <2>6. QED BY <1>1, <1>6, <2>1, <2>2, <2>3, <2>4, <2>5 DEF IInv, Handling
<1>16. Reading'
  <2>1. ASSUME NEW d \in Reader
        PROVE  /\ reading'[d].ino \in DOMAIN known
               /\ reading'[d].state \in {"open", "all"} => IsReading(reading'[d], known[reading'[d].ino].path)
               /\ reading'[d].state = "open" => handles[reading'[d].fh] = HandleOf(known[reading'[d].ino].path)
    <3>1. CASE d = c
      BY <1>1, <1>6, <1>13, <3>1 DEF p, r
    <3>2. CASE d # c
      BY <1>6, <3>2 DEF IInv, Reading
    <3>3. QED BY <3>1, <3>2
  <2>2. QED BY <1>1, <2>1, TreeStays DEF Reading
<1>17. QED BY <1>14, <1>15, <1>16 DEF IInv

LEMMA ReleaseKeeps ==
  ASSUME IInv, NEW c \in Reader, Release(c)
  PROVE  IInv'
<1> DEFINE r == reading[c]
<1>1. /\ UNCHANGED <<served, running, inodes, attrs, next_fh, known, listing>>
      /\ r.fh # 0 /\ DOMAIN reading = Reader /\ DOMAIN r = DOMAIN Idle
      /\ handles' = [fh \in DOMAIN handles \ {r.fh} |-> handles[fh]]
      /\ reading' = [reading EXCEPT ![c] = IF r.state = "open" THEN Idle ELSE [r EXCEPT !.fh = 0]]
  BY DEF Release, IInv, Handling
<1>2. /\ DOMAIN reading' = Reader
      /\ \A d \in Reader \ {c} : reading'[d] = reading[d]
      /\ reading'[c] = IF r.state = "open" THEN Idle ELSE [r EXCEPT !.fh = 0]
  BY <1>1
<1>3. /\ DOMAIN reading'[c] = DOMAIN Idle /\ reading'[c].fh = 0
      /\ reading'[c].state # "open" /\ reading'[c].state \in {"idle", "open", "all", "invalid"}
      /\ reading'[c].ino \in DOMAIN known
      /\ reading'[c].state = "all" => IsReading(reading'[c], known[reading'[c].ino].path)
  <2>1. CASE r.state = "open"
    <3>1. reading'[c] = Idle
      BY <1>2, <2>1
    <3>2. Idle.fh = 0 /\ Idle.state = "idle" /\ Idle.ino = Root
      BY DEF Idle
    <3>3. QED BY <3>1, <3>2 DEF IInv, Knowing
  <2>2. CASE r.state # "open"
    <3>1. DOMAIN r = {"ino", "fh", "offset", "got", "state"}
      BY <1>1 DEF Idle
    <3>2. reading'[c] = [r EXCEPT !.fh = 0]
      BY <1>2, <2>2
    <3>3. /\ DOMAIN reading'[c] = DOMAIN r /\ reading'[c].fh = 0
          /\ reading'[c].state = r.state /\ reading'[c].ino = r.ino
          /\ reading'[c].offset = r.offset /\ reading'[c].got = r.got
      BY <3>1, <3>2
    <3>4. r.ino \in DOMAIN known /\ (r.state = "all" => IsReading(r, known[r.ino].path))
      BY DEF IInv, Reading
    <3>5. r.state \in {"idle", "open", "all", "invalid"}
      BY DEF IInv, Handling
    <3>6. QED BY <1>1, <2>2, <3>3, <3>4, <3>5 DEF IsReading
  <2>3. QED BY <2>1, <2>2
<1>4. DOMAIN handles' = DOMAIN handles \ {r.fh} /\ \A h \in DOMAIN handles' : handles'[h] = handles[h]
  BY <1>1
<1>5. \A d \in Reader \ {c} : reading[d].fh # r.fh
  BY <1>1 DEF IInv, Handling
<1> HIDE DEF r
<1>6. Handling'
  <2>1. DOMAIN Idle' = DOMAIN Idle
    BY DEF Idle, Root
  <2>2. ASSUME NEW d \in Reader
        PROVE  /\ DOMAIN reading'[d] = DOMAIN Idle
               /\ reading'[d].state \in {"idle", "open", "all", "invalid"}
               /\ reading'[d].state = "open" => reading'[d].fh # 0
               /\ reading'[d].fh # 0 => reading'[d].fh \in DOMAIN handles'
               /\ \A e \in Reader : reading'[d].fh # 0 /\ reading'[e].fh = reading'[d].fh => d = e
    <3>1. CASE d = c
      BY <1>3, <3>1
    <3>2. CASE d # c
      <4>1. reading'[d] = reading[d] /\ reading[d].fh # r.fh
        BY <1>2, <1>5, <3>2
      <4>2. /\ DOMAIN reading[d] = DOMAIN Idle
            /\ reading[d].state \in {"idle", "open", "all", "invalid"}
            /\ reading[d].state = "open" => reading[d].fh # 0
            /\ reading[d].fh # 0 => reading[d].fh \in DOMAIN handles
            /\ \A e \in Reader : reading[d].fh # 0 /\ reading[e].fh = reading[d].fh => d = e
        BY DEF IInv, Handling
      <4>3. reading[d].fh # 0 => reading[d].fh \in DOMAIN handles'
        BY <1>4, <4>1, <4>2
      <4>4. ASSUME NEW e \in Reader, reading[d].fh # 0, reading'[e].fh = reading[d].fh PROVE d = e
        BY <1>2, <1>3, <4>2, <4>4
      <4>5. QED BY <4>1, <4>2, <4>3, <4>4
    <3>3. QED BY <3>1, <3>2
  <2>3. QED BY <1>1, <1>2, <1>4, <2>1, <2>2 DEF IInv, Handling
<1>7. Reading'
  <2>1. ASSUME NEW d \in Reader
        PROVE  /\ reading'[d].ino \in DOMAIN known
               /\ reading'[d].state \in {"open", "all"} => IsReading(reading'[d], known[reading'[d].ino].path)
               /\ reading'[d].state = "open" => handles'[reading'[d].fh] = HandleOf(known[reading'[d].ino].path)
    <3>1. CASE d = c
      BY <1>3, <3>1
    <3>2. CASE d # c
      <4>1. reading[d].state = "open" => handles'[reading[d].fh] = handles[reading[d].fh]
        BY <1>4, <1>5, <3>2 DEF IInv, Handling
      <4>2. QED BY <1>2, <3>2, <4>1 DEF IInv, Reading
    <3>3. QED BY <3>1, <3>2
  <2>2. QED BY <1>1, <2>1, TreeStays DEF Reading
<1>8. Noting' /\ Knowing' /\ Listing'
  BY <1>1, ReaderKeeps
<1>9. QED BY <1>6, <1>7, <1>8 DEF IInv

LEMMA NextIInv == IInv /\ [Next]_vars => IInv'
<1> SUFFICES ASSUME IInv, [Next]_vars PROVE IInv'
  OBVIOUS
<1>1. CASE Next
  <2>1. ASSUME NEW ino \in DOMAIN known,
               \/ \E n \in Names : Lookup(ino, n)
               \/ Getattr(ino)
               \/ \E c \in Lister : Opendir(c, ino)
               \/ \E c \in Reader : Open(c, ino)
        PROVE  IInv'
    BY <2>1, LookupKeeps, GetattrKeeps, OpendirKeeps, OpenKeeps
  <2>2. ASSUME NEW c \in Lister, NEW n \in 1 .. 2, Readdir(c, n) PROVE IInv'
    BY <2>2, ReaddirKeeps
  <2>3. ASSUME NEW c \in Reader, Read(c) \/ Release(c) PROVE IInv'
    BY <2>3, ReadKeeps, ReleaseKeeps
  <2>4. QED BY <1>1, <2>1, <2>2, <2>3 DEF Next
<1>2. CASE UNCHANGED vars
  <2>1. UNCHANGED <<served, running, inodes, attrs, known, listing, handles, next_fh, reading>>
    BY <1>2 DEF vars
  <2>2. Noting' /\ Knowing'
    BY <2>1, ReaderKeeps
  <2>3. QED BY <2>1, <2>2, LearningKeeps DEF IInv
<1>3. QED BY <1>1, <1>2

\* What is noted down, known, listed and read keeps to the tree in every behaviour.
THEOREM Invariance == Spec => []IInv
<1>1. QED BY InitIInv, NextIInv, PTL DEF Spec

-------------------------------------------------------------------------------
(* What clients see *)

LEMMA LinksCounted ==
  ASSUME served \in DOMAIN Trees, NEW p \in DOMAIN tree, kind(p) # "directory"
  PROVE  nlink(p) = Cardinality(Links(p))
<1>1. ~tree[p].dir
  BY Kinds
<1>2. Links(p) = {q \in DOMAIN tree : ~tree[q].dir /\ tree[q].rc = tree[p].rc}
  BY <1>1 DEF Links, SameLeaf
<1>3. QED BY <1>1, <1>2 DEF nlink, strong_count

LEMMA InodesAreKept == IInv => InodesKept
<1> SUFFICES ASSUME IInv PROVE InodesKept
  OBVIOUS
<1>1. served \in DOMAIN Trees
  BY DEF IInv, Noting
<1>2. TypeOK
  BY DEF IInv, Noting, IsNoted, Listing, Handling, TypeOK
<1>3. ASSUME NEW i \in DOMAIN known
      PROVE  /\ known[i].path \in DOMAIN tree /\ InoOf(known[i].path) = i
             /\ i # Root => known[i].attr = fileattr(known[i].path) /\ Address(known[i].path) = i
  <2>1. IsKnown(i, known[i])
    BY DEF IInv, Knowing
  <2>2. QED BY <1>1, <2>1, RootApart DEF IsKnown
<1>4. ASSUME NEW i \in DOMAIN known, NEW j \in DOMAIN known
      PROVE  known[j].path \in Links(known[i].path) <=> i = j
  BY <1>1, <1>3, LinksAre
<1>5. AttributesTrue
  <2>1. ASSUME NEW i \in DOMAIN known \ {Root}
        PROVE  /\ known[i].attr.kind = kind(known[i].path)
               /\ known[i].attr.ino = i
               /\ known[i].attr.nlink = nlink(known[i].path)
    BY <1>1, <1>3, Kinds
  <2>2. ASSUME NEW i \in DOMAIN known \ {Root}, known[i].attr.kind # "directory"
        PROVE  known[i].attr.nlink = Cardinality(Links(known[i].path))
    BY <1>1, <1>3, <2>1, <2>2, LinksCounted
  <2>3. QED BY <1>4, <2>1, <2>2 DEF AttributesTrue
<1>6. ASSUME NEW i \in DOMAIN known
      PROVE  /\ i \in DOMAIN inodes
             /\ inodes[i].path \in Links(known[i].path)
  <2>1. i \in DOMAIN inodes /\ IsNoted(i, inodes[i])
    BY DEF IInv, Noting, Knowing
  <2>2. QED BY <1>1, <1>3, <2>1, LinksAre DEF IsNoted
<1>7. ASSUME NEW i \in DOMAIN known, known[i].attr.kind = "directory", i # Root
      PROVE  inodes[i].parent = InoOf(Parent(known[i].path))
  <2>1. known[i].path # <<>>
    BY <1>1, <1>3, <1>7, RootApart
  <2>2. QED BY <1>7, <2>1, DirectoryKnown DEF ParentNumber
<1>8. QED BY <1>2, <1>5, <1>6, <1>7 DEF InodesKept

\* The number that a reply gave leads to what it was given for, by whichever of its
\* links it was noted down since, and the attributes told of it are true.
THEOREM InodesStayKept == Spec => []InodesKept
<1>1. QED BY Invariance, InodesAreKept, PTL

LEMMA ListingsAreComplete == IInv => ListingsComplete
<1> SUFFICES ASSUME IInv, NEW c \in Lister, listing[c].state = "all"
    PROVE  LET p == known[listing[c].ino].path
               got == listing[c].got
               entries == [i \in 1 .. Len(got) - 2 |-> got[i + 2]]
           IN  /\ Len(got) = Cardinality(Entries(tree, p)) + 2
               /\ got[1] = [ino |-> listing[c].ino, name |-> "."]
               /\ got[2] = [ino |-> IF p = <<>> THEN Root ELSE InoOf(Parent(p)), name |-> ".."]
               /\ \A i \in DOMAIN entries :
                    /\ Append(p, entries[i].name) \in DOMAIN tree
                    /\ entries[i].ino = Address(Append(p, entries[i].name))
                    /\ i > 1 => NameBefore(entries[i - 1].name, entries[i].name)
  BY DEF ListingsComplete
<1> DEFINE p == known[listing[c].ino].path
           n == Cardinality(Entries(tree, p))
           s == sorted_entries(p)
           got == listing[c].got
           list == DirectoryList(p)
           entries == [i \in 1 .. Len(got) - 2 |-> got[i + 2]]
<1>1. served \in DOMAIN Trees
  BY DEF IInv, Noting
<1>2. p \in DOMAIN tree /\ InoOf(p) = listing[c].ino /\ IsListing(listing[c], p)
  BY DEF IInv, Knowing, Listing, IsKnown
<1>3. tree[p].dir /\ got = SubSeq(list, 1, Len(list))
  BY <1>2 DEF IsListing
<1> HIDE DEF p
<1>4. /\ n \in Nat /\ Len(list) = n + 2 /\ \E X : list \in Seq(X)
      /\ list[1] = [ino |-> InoOf(p), name |-> "."]
      /\ list[2] = [ino |-> IF p = <<>> THEN Root ELSE InoOf(Parent(p)), name |-> ".."]
      /\ \A i \in 1 .. n : list[i + 2].ino = Address(s[i]) /\ list[i + 2].name = FileName(s[i])
  BY <1>1, <1>2, <1>3, ListIs
<1>5. /\ DOMAIN s = 1 .. n /\ \A i \in 1 .. n : s[i] \in Entries(tree, p)
      /\ \A i, j \in 1 .. n : i < j => NameBefore(FileName(s[i]), FileName(s[j]))
  BY <1>1, <1>2, <1>3, <1>4, EntriesSorted
<1>6. \A i \in 1 .. n : Append(p, FileName(s[i])) = s[i] /\ s[i] \in DOMAIN tree
  BY <1>1, <1>2, <1>5, EntryNamed
<1> HIDE DEF n, s, list
<1>7. got = list
  BY <1>3, <1>4
<1>8. /\ DOMAIN entries = 1 .. n
      /\ \A i \in 1 .. n : entries[i].ino = Address(s[i]) /\ entries[i].name = FileName(s[i])
  BY <1>4, <1>7
<1> HIDE DEF entries, got
<1>9. ASSUME NEW i \in 1 .. n
      PROVE  /\ Append(p, entries[i].name) \in DOMAIN tree
             /\ entries[i].ino = Address(Append(p, entries[i].name))
             /\ i > 1 => NameBefore(entries[i - 1].name, entries[i].name)
  <2>1. ASSUME i > 1 PROVE NameBefore(entries[i - 1].name, entries[i].name)
    <3>1. i - 1 \in 1 .. n /\ i - 1 < i
      BY <1>4, <2>1
    <3>2. QED BY <1>5, <1>8, <3>1
  <2>2. QED BY <1>6, <1>8, <2>1
<1>10. QED BY <1>2, <1>4, <1>7, <1>8, <1>9 DEF entries, got, p, n

\* Who has listed a directory to the end has got every entry once and in order, with
\* the number that a lookup gives, however the kernel divided the listing.
THEOREM ListingsStayComplete == Spec => []ListingsComplete
<1>1. QED BY Invariance, ListingsAreComplete, PTL

LEMMA ReadsAreWhole == IInv => ReadsWholeFile
<1> SUFFICES ASSUME IInv, NEW c \in Reader
    PROVE  LET p == known[reading[c].ino].path
           IN  /\ reading[c].state = "open" =>
                    reading[c].fh \in DOMAIN handles /\ handles[reading[c].fh] = HandleOf(p)
               /\ reading[c].state = "all" =>
                    /\ reading[c].got = DataOf(p)
                    /\ Len(reading[c].got) = known[reading[c].ino].attr.size
  BY DEF ReadsWholeFile
<1> DEFINE r == reading[c]
           p == known[r.ino].path
<1>1. served \in DOMAIN Trees
  BY DEF IInv, Noting
<1>2. r.ino \in DOMAIN known /\ p \in DOMAIN tree /\ IsKnown(r.ino, known[r.ino])
  BY DEF IInv, Knowing, Reading, IsKnown
<1>3. r.state = "open" => r.fh \in DOMAIN handles /\ handles[r.fh] = HandleOf(p)
  BY DEF IInv, Handling, Reading
<1>4. ASSUME r.state = "all" PROVE r.got = DataOf(p) /\ Len(r.got) = known[r.ino].attr.size
  <2>1. IsReading(r, p)
    BY <1>4 DEF IInv, Reading
  <2>2. DataOf(p) \in Seq(Byte) /\ Len(DataOf(p)) = size(p)
    BY <1>1, <1>2, <2>1, FileData DEF IsReading
  <2>3. r.ino # Root
    BY <1>1, <1>2, <2>1, RootApart DEF IsReading, IsKnown
  <2>4. known[r.ino].attr.size = size(p)
    BY <1>1, <1>2, <2>3, Kinds DEF IsKnown
  <2>5. r.got = SubSeq(DataOf(p), 1, Len(DataOf(p)))
    BY <1>4, <2>1 DEF IsReading
  <2> HIDE DEF p
  <2>6. r.got = DataOf(p)
    BY <2>2, <2>5
  <2>7. QED BY <2>2, <2>4, <2>6
<1>5. QED BY <1>3, <1>4

\* A handle stands for its file until it is released, and who reads to the end has the
\* whole file, as long as its attributes say.
THEOREM ReadsStayWhole == Spec => []ReadsWholeFile
<1>1. QED BY Invariance, ReadsAreWhole, PTL
===============================================================================
