----------------------------- MODULE ErofsWriter ------------------------------
(***************************************************************************)
(* mkfs_erofs (crates/composefs/src/erofs/writer.rs): the image of a tree. *)
(*                                                                         *)
(* The writer numbers the inodes, makes extended attributes with several   *)
(* users shared, finds out in a first pass where everything goes, and      *)
(* writes it in a second one.  The model computes the same places and      *)
(* gives the image as what can be read where: inodes by their number       *)
(* (offset / 32), shared attributes by theirs (offset / 4), directory      *)
(* blocks by theirs.  Everything has the size that the code gives it,      *)
(* except for the block, which is smaller so that small trees fill it.     *)
(***************************************************************************)
EXTENDS Tree, Naturals, Sequences, FiniteSets, SequencesExt

CONSTANT BLOCK_SIZE

ASSUME BlockSize == BLOCK_SIZE \in Nat /\ BLOCK_SIZE % 32 = 0 /\ BLOCK_SIZE > 0

\* f itself: TLC evaluates it once here, and otherwise at each application of f
\* anew, as it does not notice that it is the same function.
Fixed(f) == CHOOSE g \in {f} : g = g

round_up(n, to) == ((n + to - 1) \div to) * to

Total(s, Size(_)) ==
  LET sum[i \in 0 .. Len(s)] == IF i = 0 THEN 0 ELSE sum[i - 1] + Size(s[i]) IN sum[Len(s)]

\* A leaf with several links gets its inode where it is met first.
collect(tree) == InOrder({Owner(tree, p) : p \in DOMAIN tree}, VisitedBefore)

FileType(node) == IF node.dir THEN "directory" ELSE
  CASE node.content.type \in {"inline", "external"} -> "regular"
    [] OTHER -> node.content.type

(***************************************************************************)
(* Extended attributes.  A key is the sequence of its dotted components;   *)
(* the well known first ones are replaced by a number (XATTR_PREFIXES).    *)
(* The inode of an external file has two of its own, which overlayfs uses; *)
(* keys of the file that would look like them are escaped.                 *)
(***************************************************************************)
Prefix(key) ==
  CASE key[1] = "user" -> 1
    [] key = <<"system", "posix_acl_access">> -> 2
    [] key = <<"system", "posix_acl_default">> -> 3
    [] key[1] = "trusted" -> 4
    [] key[1] = "lustre" -> 5
    [] key[1] = "security" -> 6
    [] OTHER -> 0

Suffix(key) ==
  CASE Prefix(key) = 0 -> key
    [] Prefix(key) \in {2, 3} -> <<>>
    [] OTHER -> Tail(key)

XAttr(key, value) == [prefix |-> Prefix(key), suffix |-> Suffix(key), value |-> value]

\* Deliberate error: a file's own attribute passes for a reference to an object.
EscapeNothing(key) == key

Escape(key) ==
  IF Len(key) > 2 /\ key[1] = "trusted" /\ key[2] = "overlay"
  THEN <<"trusted", "overlay">> \o Tail(key) ELSE key

Value(kind, of) == [kind |-> kind, of |-> of]
Metacopy(id) == XAttr(<<"trusted", "overlay", "metacopy">>, Value("metacopy", id))
Redirect(id) == XAttr(<<"trusted", "overlay", "redirect">>, Value("redirect", id))

push_inode(node) ==
  {XAttr(Escape(k), node.stat.xattrs[k]) : k \in DOMAIN node.stat.xattrs}
    \cup IF FileType(node) = "regular" /\ node.content.type = "external"
         THEN {Metacopy(node.content.id), Redirect(node.content.id)} ELSE {}

share_xattrs(attrs) ==
  LET users(a) == {i \in DOMAIN attrs : a \in attrs[i]}
  IN  {a \in UNION {attrs[i] : i \in DOMAIN attrs} : Cardinality(users(a)) > 1}

SuffixSize(suffix) ==    \* with the dots
  IF suffix = <<>> THEN 0 ELSE Total(suffix, Len) + Len(suffix) - 1
\* Of sha256: four bytes before the digest; a slash and two in the path of the object.
ValueSize(v) == CASE v.kind = "metacopy" -> 36 [] v.kind = "redirect" -> 66 [] OTHER -> Len(v.of)
AttrSize(a) == round_up(4 + SuffixSize(a.suffix) + ValueSize(a.value), 4)

XAttrsSize(shared, local) ==
  IF shared = {} /\ local = {} THEN 0
  ELSE 12 + 4 * Cardinality(shared) + Total(SetToSeq(local), AttrSize)

(***************************************************************************)
(* Directories: as many entries in a block as fit; the rest goes behind    *)
(* the inode if it is small enough, and into a block of its own otherwise. *)
(***************************************************************************)
DirEnt(name, inode, type) == [name |-> name, inode |-> inode, type |-> type]
DirEntSize(e) == 12 + Len(e.name)

AddEntry(d, e) ==
  IF d.bytes + DirEntSize(e) <= BLOCK_SIZE
  THEN [d EXCEPT !.rest = Append(@, e), !.bytes = @ + DirEntSize(e)]
  ELSE [blocks |-> Append(d.blocks, d.rest), rest |-> <<e>>, bytes |-> DirEntSize(e)]

from_entries(entries) ==
  LET added[i \in 0 .. Len(entries)] ==
        IF i = 0 THEN [blocks |-> <<>>, rest |-> <<>>, bytes |-> 0]
        ELSE AddEntry(added[i - 1], entries[i])
      d == added[Len(entries)]
      full == d.bytes > BLOCK_SIZE \div 2
      blocks == IF full THEN Append(d.blocks, d.rest) ELSE d.blocks
  IN  [blocks |-> blocks,
       inline |-> IF full THEN <<>> ELSE d.rest,
       size   |-> BLOCK_SIZE * Len(blocks) + IF full THEN 0 ELSE d.bytes,
       nlink  |-> Cardinality({i \in DOMAIN entries : entries[i].type = "directory"})]

Number(inodes, p) == CHOOSE i \in DOMAIN inodes : inodes[i] = p

\* Deliberate error: the second name of a hard link leads to the next inode.
CollectDirUnlinked(tree, inodes, p) ==
  LET number(q) == Number(inodes, Owner(tree, q)) + IF Owner(tree, q) = q THEN 0 ELSE 1
      children == {DirEnt(FileName(q), IF number(q) > Len(inodes) THEN 1 ELSE number(q), FileType(tree[q])) :
                     q \in Entries(tree, p)}
      dots == {DirEnt(".", Number(inodes, p), "directory"),
               DirEnt("..", Number(inodes, IF p = <<>> THEN p ELSE Parent(p)), "directory")}
  IN  from_entries(InOrder(children \cup dots, LAMBDA a, b : NameBefore(a.name, b.name)))

collect_dir(tree, inodes, p) ==
  LET children == {DirEnt(FileName(q), Number(inodes, Owner(tree, q)), FileType(tree[q])) :
                     q \in Entries(tree, p)}
      dots == {DirEnt(".", Number(inodes, p), "directory"),
               DirEnt("..", Number(inodes, IF p = <<>> THEN p ELSE Parent(p)), "directory")}
  IN  from_entries(InOrder(children \cup dots, LAMBDA a, b : NameBefore(a.name, b.name)))

(***************************************************************************)
(* The inodes: what write_inode puts into the header, and behind it.       *)
(***************************************************************************)
LeafMeta(c, nlink) ==
  LET meta(layout, u, size, tail) ==
        [layout |-> layout, u |-> u, size |-> size, nlink |-> nlink, tail |-> tail]
  IN  CASE c.type = "inline" -> meta(IF Len(c.data) = 0 THEN "plain" ELSE "inline", 0, Len(c.data), c.data)
        [] c.type = "external" -> meta("chunk", 31, c.size, "null_chunk")
        [] c.type = "symlink"  -> meta("inline", 0, Len(c.target), c.target)
        [] c.type \in {"chardev", "blockdev"} -> meta("plain", c.rdev, 0, "")
        [] c.type \in {"fifo", "socket"} -> meta("plain", 0, 0, "")

DirMeta(d, block) ==
  [layout |-> IF d.inline = <<>> THEN "plain" ELSE "inline",
   u      |-> IF d.blocks # <<>> THEN block ELSE 0,
   size   |-> d.size, nlink |-> d.nlink, tail |-> d.inline]

TailSize(node, meta) ==
  IF node.dir THEN Total(meta.tail, DirEntSize)
  ELSE CASE meta.layout = "chunk" -> 4 [] meta.layout = "inline" -> meta.size [] OTHER -> 0

\* The inode goes to the next multiple of 32, or further if what is behind
\* it would be cut by the end of a block.
InodeStart(pos, meta, xattr_size) ==
  LET start == round_up(pos, 32)
      end_of_metadata == start + 64 + xattr_size - 1
      inline_end == end_of_metadata + 1 + (meta.size % BLOCK_SIZE)
  IN  IF meta.layout = "inline" /\ end_of_metadata \div BLOCK_SIZE # inline_end \div BLOCK_SIZE
      THEN round_up(start + BLOCK_SIZE - (end_of_metadata % BLOCK_SIZE), 32)
      ELSE start

Header == 1024 + 128    \* the composefs header and the superblock

(***************************************************************************)
(* write_erofs, first for the places and then for the content.             *)
(***************************************************************************)
mkfs_erofs(tree) ==
  LET inodes == Fixed(collect(tree))
      N      == Len(inodes)
      node   == Fixed([i \in 1 .. N |-> tree[inodes[i]]])
      attrs  == Fixed([i \in 1 .. N |-> push_inode(node[i])])
      common == share_xattrs(attrs)
      table  == Fixed(SetToSeq(common))
      dirs   == Fixed([i \in {j \in 1 .. N : node[j].dir} |-> collect_dir(tree, inodes, inodes[i])])
      xsize  == Fixed([i \in 1 .. N |-> XAttrsSize(attrs[i] \cap common, attrs[i] \ common)])
      meta(i, block) == IF node[i].dir THEN DirMeta(dirs[i], block)
                        ELSE LeafMeta(node[i].content, strong_count(tree, node[i].rc))
      \* The first pass: the place of each inode and where the next may begin ...
      after[i \in 0 .. N] ==
        IF i = 0 THEN [start |-> 0, stop |-> Header]
        ELSE LET prev  == Fixed(after[i - 1])
                 start == Fixed(InodeStart(prev.stop, meta(i, 0), xsize[i]))
             IN  [start |-> start,
                  stop  |-> round_up(start + 64 + xsize[i] + TailSize(node[i], meta(i, 0)), 32)]
      place == Fixed(after)
      nid   == Fixed([i \in 1 .. N |-> place[i].start \div 32])
      \* ... of the shared attributes ...
      next[k \in 1 .. Len(table) + 1] ==
        IF k = 1 THEN place[N].stop ELSE next[k - 1] + AttrSize(table[k - 1])
      xattr == Fixed(next)
      at(a) == xattr[CHOOSE k \in DOMAIN table : table[k] = a] \div 4
      \* ... and of the blocks.
      first[i \in 1 .. N + 1] ==
        IF i = 1 THEN round_up(xattr[Len(table) + 1], BLOCK_SIZE) \div BLOCK_SIZE
        ELSE first[i - 1] + IF node[i - 1].dir THEN Len(dirs[i - 1].blocks) ELSE 0
      block == Fixed(first)
      written(entries) ==
        [k \in DOMAIN entries |-> [name |-> entries[k].name, nid |-> nid[entries[k].inode],
                                   type |-> entries[k].type]]
      number(n) == CHOOSE i \in 1 .. N : nid[i] = n
      header == Fixed([i \in 1 .. N |-> LET m == meta(i, block[i]) IN
        [m EXCEPT !.tail = IF node[i].dir THEN written(@) ELSE @] @@
        [type |-> FileType(node[i]), mode |-> node[i].stat.mode, mtime |-> node[i].stat.mtime,
         icount |-> IF xsize[i] = 0 THEN 0 ELSE 1 + (xsize[i] - 12) \div 4,
         shared |-> {at(a) : a \in attrs[i] \cap common}, local |-> attrs[i] \ common,
         offset |-> place[i].start]])
      shared == {at(a) : a \in common}
  IN  [root_nid |-> nid[1],
       inos     |-> N,
       blocks   |-> block[N + 1],
       inode    |-> [n \in {nid[i] : i \in 1 .. N} |-> header[number(n)]],
       xattr    |-> [x \in shared |-> CHOOSE a \in common : at(a) = x],
       block    |-> [b \in block[1] .. block[N + 1] - 1 |->
                       LET i == CHOOSE j \in DOMAIN dirs : block[j] <= b /\ b < block[j + 1]
                       IN  written(dirs[i].blocks[b - block[i] + 1])]]
===============================================================================
