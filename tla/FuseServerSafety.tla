---------------------------- MODULE FuseServerSafety ----------------------------
(***************************************************************************)
(* What clients see of a served tree.                                      *)
(***************************************************************************)
EXTENDS FuseServer

TypeOK ==
  /\ running \in BOOLEAN
  /\ \A i \in DOMAIN inodes : inodes[i].path \in DOMAIN tree /\ inodes[i].parent \in DOMAIN inodes
  /\ DOMAIN attrs \subseteq DOMAIN inodes \cup {Address(<<>>)}
  /\ DOMAIN handles \subseteq 1 .. next_fh - 1
  /\ next_fh \in 1 .. MaxHandles + 1
  /\ \A c \in Lister : listing[c].state \in {"idle", "open", "all"}
  /\ \A c \in Reader : reading[c].state \in {"idle", "open", "all", "invalid"}

InoOf(p) == IF p = <<>> THEN Root ELSE Address(p)

Links(p) == {q \in DOMAIN tree : q = p \/ SameLeaf(tree, p, q)}

DataOf(p) == IF tree[p].content.type = "inline" THEN tree[p].content.data ELSE ObjectData[tree[p].content.id]

\* The attributes the kernel has been told (fileattr, at once or out of attrs): the
\* kind is that of the file, the number of links that of its names, and all of these
\* are known by the same inode number.
AttributesTrue ==
  \A i \in DOMAIN known \ {Root} :
    LET p == known[i].path attr == known[i].attr
    IN  /\ attr.kind = kind(p)
        /\ attr.ino = i
        /\ attr.kind # "directory" => attr.nlink = Cardinality(Links(p))
        /\ \A j \in DOMAIN known : known[j].path \in Links(p) <=> i = j

(***************************************************************************)
(* An inode that the kernel knows keeps its meaning (the map inodes of     *)
(* TreeFuse, into which lookup and readdir both write): its number still   *)
(* leads to what was looked up, by whichever of its links, and ".." of a   *)
(* directory to where it is.  What it was told of it is true               *)
(* (AttributesTrue).                                                       *)
(***************************************************************************)
InodesKept ==
  /\ TypeOK
  /\ AttributesTrue
  /\ \A i \in DOMAIN known :
       /\ i \in DOMAIN inodes
       /\ inodes[i].path \in Links(known[i].path)
       /\ known[i].attr.kind = "directory" /\ i # Root =>
            inodes[i].parent = InoOf(Parent(known[i].path))

(***************************************************************************)
(* Who lists a directory gets itself, its parent and every entry, in order *)
(* and each once, with the number that a lookup gives, however the entries *)
(* were divided among replies (the offsets of readdir), and whatever other *)
(* clients did meanwhile.                                                  *)
(***************************************************************************)
ListingsComplete ==
  \A c \in Lister : listing[c].state = "all" =>
    LET p == known[listing[c].ino].path
        got == listing[c].got
        entries == [i \in 1 .. Len(got) - 2 |-> got[i + 2]]
    IN  /\ Len(got) = Cardinality(Entries(tree, p)) + 2
        /\ got[1] = [ino |-> listing[c].ino, name |-> "."]
        /\ got[2] = [ino |-> IF p = <<>> THEN Root ELSE InoOf(Parent(p)), name |-> ".."]
        /\ \A i \in DOMAIN entries :
             /\ Append(p, entries[i].name) \in DOMAIN tree
             /\ entries[i].ino = Address(Append(p, entries[i].name))
             /\ i > 1 => NameBefore(entries[i - 1].name, entries[i].name)

(***************************************************************************)
(* A handle stands for the file it was opened for until it is released     *)
(* (next_fh, handles), and who reads it to the end has the file, as long   *)
(* as the attributes say.                                                  *)
(***************************************************************************)
ReadsWholeFile ==
  \A c \in Reader :
    LET p == known[reading[c].ino].path
    IN  /\ reading[c].state = "open" =>
             reading[c].fh \in DOMAIN handles /\ handles[reading[c].fh] = HandleOf(p)
        /\ reading[c].state = "all" =>
             /\ reading[c].got = DataOf(p)
             /\ Len(reading[c].got) = known[reading[c].ino].attr.size

(***************************************************************************)
(* Listing a directory comes to an end, unless the server has panicked: no *)
(* reply repeats an offset.                                                *)
(***************************************************************************)
ListingsEnd ==
  []running => \A c \in Lister : listing[c].state = "open" ~> listing[c].state = "all"
================================================================================
