-------------------------------- MODULE FsScan ---------------------------------
(***************************************************************************)
(* Trees read from a disk and written to one (crates/composefs/src/fs.rs). *)
(*                                                                         *)
(* A disk is a function from paths to inodes: [dir, ino, stat] and, for    *)
(* what is not a directory, a type and what the type has: data, target or  *)
(* rdev.  The order of readdir() is open; the result does not depend on    *)
(* it, except for the identity of hard links, which is that of the inode.  *)
(* A file is read with a single read(), which may give less than there is: *)
(* "short" are the files to which that happens.                            *)
(***************************************************************************)
EXTENDS Tree, Naturals, Integers, Sequences, FiniteSets

CONSTANTS
  INLINE_CONTENT_MAX,
  Sized,              \* the contents of large files: data |-> [id, size], what fs-verity says of them
  ContainerXattrs,    \* CONTAINER_XATTR_ALLOWLIST
  Cut,                \* for a content, what a read() of it gives that is cut short
  Umasked             \* the mode and owner of a file that is made with a mode, by the mode

SizeOf(data) == IF data \in DOMAIN Sized THEN Sized[data].size ELSE Len(data)

Read(data, whole) == IF whole \/ data \notin DOMAIN Cut THEN data ELSE Cut[data]

\* What ensure_object (ObjectStore) or compute_verity gives for what has been read of a
\* large file.  The size is the one that fstat() gave.
read_leaf_content(inode, whole) ==
  CASE inode.type = "regular" ->
         IF SizeOf(inode.data) > INLINE_CONTENT_MAX
         THEN [type |-> "external", id |-> Sized[Read(inode.data, whole)].id, size |-> SizeOf(inode.data)]
         ELSE [type |-> "inline", data |-> Read(inode.data, whole)]
    [] inode.type = "symlink" -> [type |-> "symlink", target |-> inode.target]
    [] inode.type \in {"chardev", "blockdev"} -> [type |-> inode.type, rdev |-> inode.rdev]
    [] inode.type \in {"fifo", "socket"} -> [type |-> inode.type]

\* FilesystemReader: all files are remembered by their inode number, so
\* that the paths of one inode are one leaf, with one stat.
read_leaf(inode, short) ==
  LeafOf(inode.ino, inode.stat, read_leaf_content(inode, inode.ino \notin short))

\* "short" are numbers of inodes here: each is read once.
read_filesystem(disk, short) ==
  [p \in DOMAIN disk |-> IF disk[p].dir THEN Dir(disk[p].stat) ELSE read_leaf(disk[p], short)]

read_filesystem_filtered(disk, short, kept) == filter_xattrs(read_filesystem(disk, short), kept)

\* Deliberate error: the attributes of the host are kept.
ReadUnfiltered(disk, short) == transform_for_oci(read_filesystem(disk, short))

read_container_root(disk, short) ==
  transform_for_oci(read_filesystem_filtered(disk, short, ContainerXattrs))

(***************************************************************************)
(* write_to_path makes a file of its own for every path of a leaf, in an   *)
(* empty directory.  The files are those of whoever writes them, with what *)
(* the umask leaves of the mode, at the time of writing and without        *)
(* attributes; the root is there already.                                  *)
(***************************************************************************)
DataOf(content) ==
  IF content.type = "inline" THEN content.data
  ELSE CHOOSE d \in DOMAIN Sized : Sized[d].id = content.id

\* read_file compares the length of an object with the size that the tree has for it.
CanRead(content) == content.type = "external" => SizeOf(DataOf(content)) = content.size

\* A symlink is made without a mode.
WrittenStat(node) ==
  [mode |-> IF ~node.dir /\ node.content.type = "symlink" THEN "symlink" ELSE Umasked[node.stat.mode],
   mtime |-> 0, xattrs |-> <<>>]

\* Of an object is written what a single read() gives.
write_leaf_to_disk(content, whole) ==
  CASE content.type = "inline"   -> [type |-> "regular", data |-> DataOf(content)]
    [] content.type = "external" -> [type |-> "regular", data |-> Read(DataOf(content), whole)]
    [] OTHER -> content

\* The inode of a file with this content.
FileOf(content, whole, ino, stat) ==
  LET c == write_leaf_to_disk(content, whole)
  IN  [f \in DOMAIN c \cup {"dir", "ino", "stat"} |->
         CASE f = "dir"  -> FALSE
           [] f = "ino"  -> ino
           [] f = "stat" -> stat
           [] OTHER -> c[f]]

write_to_path(tree, short) ==
  LET number == InOrder(DOMAIN tree, VisitedBefore)
  IN  [p \in DOMAIN tree |->
         IF tree[p].dir
         THEN [dir |-> TRUE, stat |-> IF p = <<>> THEN Uninitialized ELSE WrittenStat(tree[p])]
         ELSE FileOf(tree[p].content, p \notin short,
                     CHOOSE i \in DOMAIN number : number[i] = p, WrittenStat(tree[p]))]
===============================================================================
