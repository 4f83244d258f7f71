----------------------------- MODULE ErofsReader ------------------------------
(***************************************************************************)
(* Reading an image (crates/composefs/src/erofs/reader.rs): inodes, their  *)
(* attributes and directory blocks, and collect_objects, by which gc finds *)
(* out what an image needs.  An image is what mkfs_erofs gives.            *)
(***************************************************************************)
EXTENDS ErofsWriter

root(img) == img.root_nid

is_dir(ino) == ino.type = "directory"

\* The numbers of the blocks that hold the data of an inode.
blocks(ino) ==
  CASE ino.layout = "plain"  -> ino.u .. (ino.u + (ino.size + BLOCK_SIZE - 1) \div BLOCK_SIZE) - 1
    [] ino.layout = "inline" -> ino.u .. (ino.u + ino.size \div BLOCK_SIZE) - 1
    [] ino.layout = "chunk"  -> {}

\* What follows the inode and its attributes.
inline(ino) == IF ino.layout = "plain" THEN <<>> ELSE ino.tail

xattrs(img, ino) ==
  IF ino.icount = 0 THEN {} ELSE {img.xattr[x] : x \in ino.shared} \cup ino.local

DirectoryEntries(img, ino) ==
  UNION {Range(img.block[b]) : b \in blocks(ino)} \cup Range(inline(ino))

(***************************************************************************)
(* collect_objects: the nids that are known but not visited are visited    *)
(* one by one, the smallest first, and what a directory leads to is added. *)
(***************************************************************************)
visit_xattr(attr) ==
  IF attr.prefix = 4 /\ attr.suffix = <<"overlay", "metacopy">> /\ attr.value.kind = "metacopy"
  THEN {attr.value.of} ELSE {}

visit_directory(img, ino, visited) ==
  IF is_dir(ino)
  THEN {e.nid : e \in {d \in DirectoryEntries(img, ino) : d.name \notin {".", ".."}}} \ visited
  ELSE {}

visit_nid(img, c) ==
  LET nid == CHOOSE n \in c.to_visit : \A m \in c.to_visit : n <= m
      ino == img.inode[nid]
      visited == c.visited \cup {nid}
  IN  [visited  |-> visited,
       to_visit |-> (c.to_visit \ {nid}) \cup visit_directory(img, ino, visited),
       objects  |-> c.objects \cup UNION {visit_xattr(a) : a \in xattrs(img, ino)}]

Collected(img) ==
  LET after[n \in 0 .. img.inos] ==
        IF n = 0 THEN [visited |-> {}, to_visit |-> {root(img)}, objects |-> {}]
        ELSE LET c == after[n - 1] IN IF c.to_visit = {} THEN c ELSE visit_nid(img, c)
  IN  after[img.inos]

collect_objects(img) == Collected(img).objects
===============================================================================
