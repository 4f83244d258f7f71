------------------------------- MODULE ImageBuild ------------------------------
(***************************************************************************)
(* An image from layers: the tree that create_filesystem (Layers) returns  *)
(* is written as an erofs image by commit_image                            *)
(* (crates/composefs/src/filesystem_ops.rs), of which gc later reads what  *)
(* objects it needs.                                                       *)
(***************************************************************************)
EXTENDS LayersSafety, ErofsReader, Dumpfile, FsScan, Integers

VARIABLE erofs    \* what write_image has been given

NoImage == [inos |-> 0]

Image_vars == <<tree, phase, applied, layers, erofs>>

Image_Init == LayersInit /\ erofs = NoImage

commit_image ==
  /\ phase = "done"
  /\ erofs.inos = 0
  /\ erofs' = mkfs_erofs(tree)
  /\ UNCHANGED layersVars

Image_Next == (LayersNext /\ UNCHANGED erofs) \/ commit_image

Image_Spec == Image_Init /\ [][Image_Next]_Image_vars

(***************************************************************************)
(* What an image, a dumpfile and a scan of a tree promise.                 *)
(***************************************************************************)

\* A string with a number of characters, which is 0 for the empty one alone.
IsText(s) == Len(s) \in Nat /\ (Len(s) = 0 <=> s = "")

\* What get_entry (TarSplit) makes of an entry: the data is in the tree up to the
\* size from which a scan of a disk makes an object of it as well.
IsXattrs(x) ==
  /\ x = [k \in DOMAIN x |-> Value(x[k].kind, x[k].of)]
  /\ \A k \in DOMAIN x : IsText(x[k].of)

IsStat(stat) ==
  /\ stat = [mode |-> stat.mode, mtime |-> stat.mtime, xattrs |-> stat.xattrs]
  /\ IsXattrs(stat.xattrs)

IsContent(c) ==
  \/ /\ c.type = "inline" /\ c = [type |-> "inline", data |-> c.data]
     /\ IsText(c.data) /\ Len(c.data) = SizeOf(c.data) /\ Len(c.data) <= INLINE_CONTENT_MAX
  \/ \E d \in DOMAIN Sized : /\ c = [type |-> "external", id |-> Sized[d].id, size |-> SizeOf(d)]
                            /\ SizeOf(d) > INLINE_CONTENT_MAX
  \/ c.type = "symlink" /\ c = [type |-> "symlink", target |-> c.target] /\ IsText(c.target)
  \/ c.type \in {"chardev", "blockdev"} /\ c = [type |-> c.type, rdev |-> c.rdev]
  \/ c.type \in {"fifo", "socket"} /\ c = [type |-> c.type]

Ordered == {NameOrder[i] : i \in DOMAIN NameOrder}

\* An object is told from others by its fs-verity digest, which is not empty; what is
\* in a tree fits into a line of a dumpfile; SELinux labels are not in
\* CONTAINER_XATTR_ALLOWLIST (fs.rs); and what is cut short is shorter.
ASSUME ImageConstants ==
  /\ \A e \in Entry : /\ e.item # "hardlink" => IsStat(e.stat)
                      /\ e.item = "leaf" => IsContent(e.content)
  /\ DOMAIN NameOrder \subseteq Nat /\ {"run", "a"} \subseteq Ordered
  /\ \A d \in DOMAIN Sized : Sized[d].size \in Nat /\ IsText(Sized[d].id) /\ Sized[d].id \notin {"", "-"}
  /\ \A c, d \in DOMAIN Sized : Sized[c].id = Sized[d].id => c = d
  /\ INLINE_CONTENT_MAX \in Nat /\ MAX_INLINE_CONTENT \in Nat \ {0}
  /\ INLINE_CONTENT_MAX <= MAX_INLINE_CONTENT
  /\ <<"security", "selinux">> \notin ContainerXattrs
  /\ \A d \in DOMAIN Cut : SizeOf(Cut[d]) < SizeOf(d) /\ (d \in DOMAIN Sized => Cut[d] \in DOMAIN Sized)

\* A string is the sequence of its characters.
ASSUME Lengths == Len("") = 0 /\ Len("-") = 1 /\ Len("host") = 4

Committed == erofs.inos > 0

ExternalIds == {tree[p].content.id : p \in {q \in DOMAIN tree :
                  ~tree[q].dir /\ tree[q].content.type = "external"}}

(***************************************************************************)
(* gc keeps the objects of a live image: collect_objects (erofs/reader.rs) *)
(* visits every inode of the image that mkfs_erofs (erofs/writer.rs) wrote *)
(* and finds the objects of its files, through shared and local attributes *)
(* and whatever blocks a directory is spread over -- and nothing else, not *)
(* an attribute of the file itself that looks like a reference.            *)
(***************************************************************************)
CollectsObjects ==
  Committed =>
    LET c == Collected(erofs)
    IN  /\ c.to_visit = {}
        /\ c.visited = DOMAIN erofs.inode
        /\ c.objects = ExternalIds

Dirents(ino) ==
  LET blks == [b \in 1 .. Cardinality(blocks(ino)) |-> erofs.block[ino.u + b - 1]]
      upto[b \in 0 .. Len(blks)] == IF b = 0 THEN <<>> ELSE upto[b - 1] \o blks[b]
  IN  upto[Len(blks)] \o inline(ino)

Child(nid, name) ==
  LET d == Dirents(erofs.inode[nid]) IN d[CHOOSE i \in DOMAIN d : d[i].name = name].nid

Nids ==
  LET nid[p \in DOMAIN tree] == IF p = <<>> THEN erofs.root_nid ELSE Child(nid[Parent(p)], FileName(p))
  IN  nid

Unescaped(a) ==
  IF a.prefix = 4 /\ Len(a.suffix) > 2 /\ a.suffix[1] = "overlay" /\ a.suffix[2] = "overlay"
  THEN [a EXCEPT !.suffix = Tail(a.suffix)] ELSE a

OfOverlay(a) == a.prefix = 4 /\ Len(a.suffix) > 1 /\ a.suffix[1] = "overlay" /\ a.suffix[2] # "overlay"

SeenXattrs(ino) == {Unescaped(a) : a \in {b \in xattrs(erofs, ino) : ~OfOverlay(b)}}

HoldsNode(ino, node) ==
  /\ ino.type = FileType(node)
  /\ ino.mode = node.stat.mode /\ ino.mtime = node.stat.mtime
  /\ SeenXattrs(ino) = {XAttr(k, node.stat.xattrs[k]) : k \in DOMAIN node.stat.xattrs}
  /\ ~node.dir =>
       /\ ino.nlink = strong_count(tree, node.rc)
       /\ CASE node.content.type = "inline"   -> ino.size = Len(node.content.data)
                                                   /\ (ino.size > 0 => inline(ino) = node.content.data)
            [] node.content.type = "external" -> ino.size = node.content.size
                                                   /\ {Metacopy(node.content.id), Redirect(node.content.id)}
                                                        \subseteq xattrs(erofs, ino)
            [] node.content.type = "symlink"  -> inline(ino) = node.content.target
            [] node.content.type \in {"chardev", "blockdev"} -> ino.u = node.content.rdev
            [] OTHER -> ino.size = 0

HoldsDir(p, nid) ==
  LET d == Dirents(erofs.inode[nid[p]])
      names == {FileName(q) : q \in Entries(tree, p)} \cup {".", ".."}
  IN  /\ {d[i].name : i \in DOMAIN d} = names
      /\ Len(d) = Cardinality(names)
      /\ \A i \in 1 .. Len(d) - 1 : NameBefore(d[i].name, d[i + 1].name)
      /\ Child(nid[p], ".") = nid[p]
      /\ Child(nid[p], "..") = nid[IF p = <<>> THEN p ELSE Parent(p)]
      /\ \A i \in DOMAIN d : d[i].type = erofs.inode[d[i].nid].type
      /\ erofs.inode[nid[p]].nlink = 2 + Cardinality({q \in Entries(tree, p) : tree[q].dir})

TailStart(ino) == ino.offset + 64 + IF ino.icount = 0 THEN 0 ELSE 12 + 4 * (ino.icount - 1)
TailBytes(ino) ==
  CASE ino.layout = "plain" -> 0
    [] ino.layout = "chunk" -> 4
    [] ino.layout = "inline" -> ino.size % BLOCK_SIZE

Extents ==
  {<<ino.offset, TailStart(ino) + TailBytes(ino)>> : ino \in {erofs.inode[n] : n \in DOMAIN erofs.inode}}
  \cup {<<4 * x, 4 * x + AttrSize(erofs.xattr[x])>> : x \in DOMAIN erofs.xattr}

\* The second pass of write_erofs finds everything where the first one put it:
\* inodes, with their attributes and tails, do not overlap, neither do shared
\* attributes, and all are before the blocks.  The blocks of a directory have at
\* most BLOCK_SIZE bytes.  A tail is in one block, if it has room in one that
\* starts with up to 31 bytes of its inode.
PlacesFit ==
  /\ Cardinality(DOMAIN erofs.inode) = erofs.inos
  /\ \A d, e \in Extents : d = e \/ d[2] <= e[1] \/ e[2] <= d[1]
  /\ \A e \in Extents : Header <= e[1] /\ \A b \in DOMAIN erofs.block : e[2] <= b * BLOCK_SIZE
  /\ \A b \in DOMAIN erofs.block : Total(erofs.block[b], DirEntSize) <= BLOCK_SIZE
  /\ \A n \in DOMAIN erofs.inode :
       LET ino == erofs.inode[n] start == TailStart(ino) end == start + TailBytes(ino) - 1
       IN  ino.layout = "inline" /\ TailBytes(ino) \in 1 .. BLOCK_SIZE - 32
             => start \div BLOCK_SIZE = end \div BLOCK_SIZE

(***************************************************************************)
(* The image is the tree, when a kernel walks it: found by their names,    *)
(* which are sorted over all the blocks of a directory, are inodes with    *)
(* the type, stat, data and number of links of the tree's, the paths of a  *)
(* leaf have one inode, and ".." leads back.  Attributes read through      *)
(* overlayfs, which drops its own and undoes the escape, are those of the  *)
(* tree.  Nothing overlaps in it (PlacesFit).                              *)
(***************************************************************************)
ImageHoldsTree ==
  Committed =>
    LET nid == Nids
    IN  /\ PlacesFit
        /\ \A p \in DOMAIN tree :
             /\ HoldsNode(erofs.inode[nid[p]], tree[p])
             /\ tree[p].dir => HoldsDir(p, nid)
             /\ \A q \in DOMAIN tree : nid[p] = nid[q] <=> p = q \/ SameLeaf(tree, p, q)

Leaves == {p \in DOMAIN tree : ~tree[p].dir}

Dumpable ==
  /\ \A p \in DOMAIN tree : tree[p].stat.mtime >= 0
  /\ \A p \in Leaves : /\ strong_count(tree, tree[p].rc) = 1
                       /\ tree[p].content.type # "socket"
                       /\ tree[p].content.type = "symlink" => tree[p].content.target \notin {"", "-"}

Mistaken ==
  \/ \E p \in DOMAIN tree : \E k \in DOMAIN tree[p].stat.xattrs : tree[p].stat.xattrs[k].of = ""
  \/ \E p \in Leaves : tree[p].content.type = "inline" /\ tree[p].content.data = "-"

SameTree(t, u) ==
  /\ DOMAIN t = DOMAIN u
  /\ \A p \in DOMAIN t : /\ t[p].dir = u[p].dir /\ t[p].stat = u[p].stat
                         /\ ~t[p].dir => t[p].content = u[p].content
  /\ \A p, q \in DOMAIN t : SameLeaf(t, p, q) <=> SameLeaf(u, p, q)

(***************************************************************************)
(* A dumpfile (dumpfile.rs) reads back as the tree it was written of, or   *)
(* is refused: hard links, sockets, times before 1970 and links to "-" do  *)
(* not get through, but never turn into something else.  What does, are a  *)
(* file that has nothing but "-" in it and empty values of attributes;     *)
(* they are left out here.                                                 *)
(***************************************************************************)
DumpReadsBack ==
  phase = "done" /\ ~Mistaken =>
    LET r == dumpfile_to_filesystem(write_dumpfile(tree))
    IN  r.ok = Dumpable /\ (r.ok => SameTree(r.fs, tree))

HostStat == [mode |-> "host", mtime |-> 9, xattrs |-> <<>>]
Labelled(stat) == [stat EXCEPT !.xattrs =
  [k \in DOMAIN @ \cup {<<"security", "selinux">>} |->
     IF k = <<"security", "selinux">> THEN Value("data", "host") ELSE @[k]]]

Inode(node, p) ==
  IF node.dir THEN [dir |-> TRUE, ino |-> 0, stat |-> Labelled(IF p = <<>> THEN HostStat ELSE node.stat)]
  ELSE FileOf(node.content, TRUE, node.rc, Labelled(node.stat))

Mounted ==
  [p \in DOMAIN tree \cup {q \in {<<"run", "a">>} : get_directory(tree, <<"run">>)} |->
     IF p \in DOMAIN tree THEN Inode(tree[p], p)
     ELSE [dir |-> TRUE, ino |-> 0, stat |-> HostStat]]

\* The layers bring no attributes but those that read_container_root keeps.
BringsContainerXattrs(image) == \A p \in DOMAIN image : DOMAIN image[p].stat.xattrs \subseteq ContainerXattrs

SameFromMount ==
  phase = "layer" /\ CanTransform(tree) =>
    LET image == transform_for_oci(tree)
        scan == read_container_root(Mounted, {})
    IN  /\ scan = filter_xattrs(image, ContainerXattrs)
        /\ scan = image <=> BringsContainerXattrs(image)

Inodes == {tree[p].rc : p \in Leaves}

\* What there is of a file that has been cut short.  An object does not pass for the
\* file: it is not as long as the file is said to be.
CutShort(content, whole) ==
  /\ content.type = whole.type
  /\ content # whole => CASE content.type = "inline"   -> SizeOf(content.data) < SizeOf(whole.data)
                          [] content.type = "external" -> CanRead(whole) /\ ~CanRead(content)

\* A read() that is cut short makes a difference to its own file alone.
ShortReadsShow ==
  phase \in {"layer", "done"} =>
    LET whole == read_filesystem(Mounted, {})
    IN  \A short \in SUBSET Inodes :
          LET scan == read_filesystem(Mounted, short)
          IN  /\ DOMAIN scan = DOMAIN whole
              /\ \A p \in DOMAIN scan :
                   scan[p] # whole[p] =>
                     /\ ~whole[p].dir /\ whole[p].rc \in short
                     /\ scan[p] = [whole[p] EXCEPT !.content = scan[p].content]
                     /\ CutShort(scan[p].content, whole[p].content)

\* A tree unpacked with write_to_path and read again has the same paths with the
\* same kinds of nodes and contents, but for the objects of which not all was read;
\* hard links are now files of their own, as its documentation says.
UnpackedReadsBack ==
  phase = "done" =>
    \A short \in SUBSET Leaves :
      LET t == read_filesystem(write_to_path(tree, short), {})
      IN  /\ DOMAIN t = DOMAIN tree
          /\ \A p \in DOMAIN t : t[p].dir = tree[p].dir
          /\ \A p \in Leaves : /\ t[p].content = tree[p].content \/ p \in short
                               /\ tree[p].content.type = "external" \/ t[p].content = tree[p].content
          /\ \A p, q \in DOMAIN t : SameLeaf(t, p, q) => p = q

(***************************************************************************)
(* A container's root, mounted on a build host, is scanned as the image    *)
(* that is made of its layers (fs.rs): the host has its own idea of the    *)
(* root directory, adds labels to all files and puts things into /run, all *)
(* of which read_container_root takes out again.  Hard links are still     *)
(* hard links, and what is inline and what is an object is decided as in a *)
(* layer.  But the scan drops attributes that the layers bring as well: it *)
(* is the same only if they bring none but security.capability.  A read()  *)
(* that is cut short is not noticed when it happens: a small file is       *)
(* shorter then, and of a large one the object is, but not the size that   *)
(* the image has for it (ShortReadsShow).  And what write_to_path unpacks  *)
(* is read as the same files (UnpackedReadsBack).                          *)
(***************************************************************************)
ScansAgree == SameFromMount /\ ShortReadsShow /\ UnpackedReadsBack

(***************************************************************************)
(* "ensure consistent composefs digests between build-time (mounted        *)
(* filesystem) and install-time (OCI tar layers) views" (generic_tree.rs,  *)
(* transform_for_oci).  But only the first are filtered.                   *)
(***************************************************************************)
DigestsAgree ==
  phase = "layer" /\ CanTransform(tree) => read_container_root(Mounted, {}) = transform_for_oci(tree)
===============================================================================
