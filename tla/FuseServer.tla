------------------------------- MODULE FuseServer -------------------------------
(***************************************************************************)
(* Serving a tree to the kernel (crates/composefs-fuse/src/lib.rs).        *)
(*                                                                         *)
(* One thread answers the requests one after the other; the kernel sends   *)
(* those of several clients in any order.  The tree does not change.  An   *)
(* inode is known by its address: that of the Directory, or that of the    *)
(* allocation which all hard links of a leaf share.  Only the root is      *)
(* known by the number 1.                                                  *)
(*                                                                         *)
(* The kernel (external) sends requests for inodes that it has got from a  *)
(* lookup, for handles that it has got from an open, and of the kind that  *)
(* fits the kind of the inode.                                             *)
(***************************************************************************)
EXTENDS Tree, Integers, Sequences, FiniteSets

CONSTANTS
  Byte,
  Trees,       \* the trees that may be served, by some name
  ObjectData,  \* the objects of the repository: id -> data, a sequence
  Lister,      \* processes that list directories
  Reader,      \* processes that read files
  MaxRead,     \* bytes asked for in one read
  MaxHandles   \* bound: opens in one behaviour

Names == {NameOrder[i] : i \in DOMAIN NameOrder} \ {".", ".."}

LeafTypes == {"inline", "external", "symlink", "chardev", "blockdev", "fifo", "socket"}

\* A FileSystem: every node but the root is in a directory, by a name, and the paths
\* of one allocation lead to the same leaf.
IsFileSystem(t) ==
  /\ IsFiniteSet(DOMAIN t)
  /\ <<>> \in DOMAIN t /\ t[<<>>].dir
  /\ \A p \in DOMAIN t :
       /\ p \in Seq(Names)
       /\ p # <<>> => Parent(p) \in DOMAIN t /\ t[Parent(p)].dir
       /\ t[p].dir \in BOOLEAN
       /\ \A q \in DOMAIN t : SameLeaf(t, p, q) => t[p] = t[q]

\* The size of an external file, where the object is there, is the object's.
IsLeaf(node) ==
  ~node.dir =>
    /\ node.content.type \in LeafTypes
    /\ node.content.type = "inline" => node.content.data \in Seq(Byte)
    /\ node.content.type = "external" /\ node.content.id \in DOMAIN ObjectData =>
         node.content.size = Len(ObjectData[node.content.id])

ASSUME FuseConstants ==
  /\ MaxRead \in Nat \ {0} /\ MaxHandles \in Nat
  /\ NameOrder \in Seq(Names \cup {".", ".."})
  /\ \A o \in DOMAIN ObjectData : ObjectData[o] \in Seq(Byte)
  /\ \A t \in DOMAIN Trees : IsFileSystem(Trees[t]) /\ \A p \in DOMAIN Trees[t] : IsLeaf(Trees[t][p])

VARIABLES
  served,     \* which tree
  running,    \* FALSE when the thread has panicked
  inodes,     \* ino -> [path, parent] of every inode that a reply has named
  attrs,      \* ino -> the attributes of an earlier reply
  handles,    \* fh -> data of a file, or the object it is in
  next_fh,
  known,      \* the kernel: ino -> path by which it was looked up, and what it was told
  listing,    \* per client: the directory it lists, where it is and what it has got
  reading     \* per client: the file it reads, by which handle, and what it has got

vars == <<served, running, inodes, attrs, handles, next_fh, known, listing, reading>>
server == <<running, inodes, attrs, handles, next_fh>>

tree == Trees[served]

Root == <<"1">>

\* InodeRef::ino: the address, also of the root.
Address(p) == IF tree[p].dir THEN <<"dir", p>> ELSE <<"leaf", tree[p].rc>>

kind(p) == IF tree[p].dir THEN "directory"
           ELSE IF tree[p].content.type \in {"inline", "external"} THEN "file" ELSE tree[p].content.type

nlink(p) ==
  IF tree[p].dir THEN 2 + Cardinality({q \in Entries(tree, p) : tree[q].dir})
  ELSE strong_count(tree, tree[p].rc)

size(p) ==
  CASE kind(p) # "file" -> 0
    [] tree[p].content.type = "inline" -> Len(tree[p].content.data)
    [] OTHER -> tree[p].content.size

fileattr(p) == [ino |-> Address(p), kind |-> kind(p), size |-> size(p), nlink |-> nlink(p),
                perm |-> tree[p].stat.mode, mtime |-> tree[p].stat.mtime]

\* The seconds are taken for an unsigned number; so late a time does not exist.
FileattrPanics(p) == tree[p].stat.mtime < 0

With(f, k, v) == [x \in DOMAIN f \cup {k} |-> IF x = k THEN v ELSE f[x]]

Idle == [ino |-> Root, fh |-> 0, offset |-> 0, got |-> <<>>, state |-> "idle"]

Init ==
  /\ served \in DOMAIN Trees
  /\ running = TRUE
  /\ inodes = [i \in {Root} |-> [path |-> <<>>, parent |-> Root]]
  /\ attrs = <<>> /\ handles = <<>>
  /\ next_fh = 1
  /\ known = [i \in {Root} |-> [path |-> <<>>, attr |-> [kind |-> "directory"]]]
  /\ listing = [c \in Lister |-> Idle]
  /\ reading = [c \in Reader |-> Idle]

(***************************************************************************)
(* lookup: only a directory has entries; the inode and its attributes are  *)
(* noted down, and the kernel is told both.  What is not there gives       *)
(* ENOENT, and nothing is noted down.                                      *)
(***************************************************************************)
Lookup(parent, n) ==
  /\ running
  /\ known[parent].attr.kind = "directory"
  /\ LET p == Append(inodes[parent].path, n)
     IN  /\ lookup(tree, p)
         /\ inodes' = With(inodes, Address(p), [path |-> p, parent |-> parent])
         /\ IF FileattrPanics(p)
            THEN running' = FALSE /\ UNCHANGED <<attrs, known>>
            ELSE /\ attrs' = With(attrs, Address(p), fileattr(p))
                 /\ known' = With(known, Address(p),
                                  [path |-> Append(known[parent].path, n), attr |-> fileattr(p)])
                 /\ UNCHANGED running
  /\ UNCHANGED <<served, handles, next_fh, listing, reading>>

(***************************************************************************)
(* getattr answers from what it has noted down, if it has.                 *)
(***************************************************************************)
Getattr(ino) ==
  /\ running
  /\ ino \in DOMAIN known
  /\ LET p == inodes[ino].path
     IN  IF ino \in DOMAIN attrs
         THEN /\ known' = [known EXCEPT ![ino].attr = attrs[ino]]
              /\ UNCHANGED <<running, attrs>>
         ELSE IF FileattrPanics(p) THEN running' = FALSE /\ UNCHANGED <<attrs, known>>
         ELSE /\ attrs' = With(attrs, Address(p), fileattr(p))
              /\ known' = [known EXCEPT ![ino].attr = fileattr(p)]
              /\ UNCHANGED running
  /\ UNCHANGED <<served, inodes, handles, next_fh, listing, reading>>

(***************************************************************************)
(* readdir: ".", "..", and the sorted entries.  Each entry is put into the *)
(* reply with the offset at which to go on after it, until one does not    *)
(* fit; n is how many do.  The inode of the one that does not fit is noted *)
(* down all the same.                                                      *)
(***************************************************************************)
SortedEntries ==
  [t \in DOMAIN Trees |->
     [p \in {q \in DOMAIN Trees[t] : Trees[t][q].dir} |-> InOrder(Entries(Trees[t], p), VisitedBefore)]]

sorted_entries(p) == SortedEntries[served][p]

AllEntries(ino) ==
  LET p == inodes[ino].path
  IN  <<[ino |-> ino, name |-> "."], [ino |-> inodes[ino].parent, name |-> ".."]>>
        \o [i \in DOMAIN sorted_entries(p) |->
              [ino |-> Address(sorted_entries(p)[i]), name |-> FileName(sorted_entries(p)[i])]]

Least(a, b) == IF a < b THEN a ELSE b

\* Deliberate error: the entry that did not fit is passed over.
OffsetPast(entries, offset, n) == Least(offset + n + 1, Len(entries))

OffsetAfter(entries, offset, n) == offset + n

\* Deliberate error: the entries of a directory are noted as those of its parent.
NotedAbove(paths, parent) ==
  [i \in DOMAIN inodes \cup {Address(p) : p \in paths} |->
     IF \E p \in paths : Address(p) = i
     THEN [path |-> CHOOSE p \in paths : Address(p) = i, parent |-> inodes[parent].parent] ELSE inodes[i]]

Noted(paths, parent) ==
  [i \in DOMAIN inodes \cup {Address(p) : p \in paths} |->
     IF \E p \in paths : Address(p) = i
     THEN [path |-> CHOOSE p \in paths : Address(p) = i, parent |-> parent] ELSE inodes[i]]

Opendir(c, ino) ==
  /\ running
  /\ ino \in DOMAIN known /\ known[ino].attr.kind = "directory"
  /\ listing[c].state # "open"
  /\ listing' = [listing EXCEPT ![c] = [Idle EXCEPT !.ino = ino, !.state = "open"]]
  /\ UNCHANGED <<served, server, known, reading>>

\* Deliberate error: no reply is sent when there is nothing left.
ReaddirNoEnd(c, n) ==
  /\ running
  /\ listing[c].state = "open"
  /\ listing[c].offset < Len(AllEntries(listing[c].ino))
  /\ LET ino == listing[c].ino
         offset == listing[c].offset
         entries == AllEntries(ino)
         count == Least(n, Len(entries) - offset)
         noted == {sorted_entries(inodes[ino].path)[i - 2] :
                     i \in {k \in 3 .. Len(entries) : offset < k /\ k <= offset + n + 1}}
     IN  /\ inodes' = Noted(noted, ino)
         /\ listing' = [listing EXCEPT ![c].offset = OffsetAfter(entries, offset, count),
                                       ![c].got = @ \o SubSeq(entries, offset + 1, offset + count),
                                       ![c].state = IF count = 0 THEN "all" ELSE "open"]
  /\ UNCHANGED <<served, running, attrs, handles, next_fh, known, reading>>

Readdir(c, n) ==
  /\ running
  /\ listing[c].state = "open"
  /\ LET ino == listing[c].ino
         offset == listing[c].offset
         entries == AllEntries(ino)
         count == Least(n, Len(entries) - offset)
         noted == {sorted_entries(inodes[ino].path)[i - 2] :
                     i \in {k \in 3 .. Len(entries) : offset < k /\ k <= offset + n + 1}}
     IN  /\ inodes' = Noted(noted, ino)
         /\ listing' = [listing EXCEPT ![c].offset = OffsetAfter(entries, offset, count),
                                       ![c].got = @ \o SubSeq(entries, offset + 1, offset + count),
                                       ![c].state = IF count = 0 THEN "all" ELSE "open"]
  /\ UNCHANGED <<served, running, attrs, handles, next_fh, known, reading>>

(***************************************************************************)
(* open: an external file's object is opened, an inline file's data is     *)
(* copied.  Handles are numbered and no number is given out twice.         *)
(***************************************************************************)
HandleOf(p) ==
  IF tree[p].content.type = "inline" THEN [inline |-> TRUE, data |-> tree[p].content.data]
  ELSE [inline |-> FALSE, object |-> tree[p].content.id]

\* Deliberate error: the number of a handle that has been released is used again.
FhInUse == Cardinality(DOMAIN handles) + 1

NextFh == next_fh

Open(c, ino) ==
  /\ running
  /\ next_fh <= MaxHandles
  /\ ino \in DOMAIN known /\ known[ino].attr.kind = "file"
  /\ reading[c].state # "open"
  /\ LET p == inodes[ino].path
     IN  IF tree[p].content.type = "external" /\ tree[p].content.id \notin DOMAIN ObjectData  \* EINVAL
         THEN /\ reading' = [reading EXCEPT ![c] = [Idle EXCEPT !.ino = ino, !.state = "invalid"]]
              /\ UNCHANGED <<handles, next_fh>>
         ELSE /\ handles' = With(handles, NextFh, HandleOf(p))
              /\ next_fh' = next_fh + 1
              /\ reading' = [reading EXCEPT ![c] = [Idle EXCEPT !.ino = ino, !.fh = NextFh, !.state = "open"]]
  /\ UNCHANGED <<served, running, inodes, attrs, known, listing>>

(***************************************************************************)
(* read: one pread of the object, which may give less than was asked for   *)
(* but nothing only at its end, or a part of the copied data.              *)
(***************************************************************************)
Slice(data, offset, n) == SubSeq(data, offset + 1, Least(offset + n, Len(data)))

pread(data, offset, n) ==
  LET all == Slice(data, offset, n)
  IN  IF all = <<>> THEN {<<>>} ELSE {SubSeq(all, 1, k) : k \in 1 .. Len(all)}

Read(c) ==
  /\ running
  /\ reading[c].state = "open"
  /\ reading[c].fh \in DOMAIN handles     \* otherwise EBADF
  /\ LET h == handles[reading[c].fh]
     IN  \E data \in IF h.inline THEN {Slice(h.data, reading[c].offset, MaxRead)}
                     ELSE pread(ObjectData[h.object], reading[c].offset, MaxRead) :
           reading' = [reading EXCEPT ![c].got = @ \o data,
                                      ![c].offset = @ + Len(data),
                                      ![c].state = IF data = <<>> THEN "all" ELSE "open"]
  /\ UNCHANGED <<served, server, known, listing>>

Release(c) ==
  /\ running
  /\ reading[c].fh # 0
  /\ handles' = [fh \in DOMAIN handles \ {reading[c].fh} |-> handles[fh]]
  /\ reading' = [reading EXCEPT ![c] = IF @.state = "open" THEN Idle ELSE [@ EXCEPT !.fh = 0]]
  /\ UNCHANGED <<served, running, inodes, attrs, next_fh, known, listing>>

Next ==
  \/ \E ino \in DOMAIN known :
       \/ \E n \in Names : Lookup(ino, n)
       \/ Getattr(ino)
       \/ \E c \in Lister : Opendir(c, ino)
       \/ \E c \in Reader : Open(c, ino)
  \/ \E c \in Lister : \E n \in 1 .. 2 : Readdir(c, n)
  \/ \E c \in Reader : Read(c) \/ Release(c)

Spec == Init /\ [][Next]_vars

\* Who has begun to list a directory goes on.
FairSpec == Spec /\ \A c \in Lister : WF_vars(\E n \in 1 .. 2 : Readdir(c, n))
===============================================================================
