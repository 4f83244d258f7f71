--------------------------------- MODULE Tree ---------------------------------
(***************************************************************************)
(* File system trees (crates/composefs/src/generic_tree.rs, tree.rs).      *)
(*                                                                         *)
(* A tree is a function from paths (sequences of names, the root is <<>>)  *)
(* to nodes.  A directory has a stat.  A leaf has besides its content the  *)
(* identity of the Rc that holds it: the leaves of two paths are the same  *)
(* allocation, and so hard links of each other, when their rc is the same. *)
(* The entries of a Directory are the paths one longer than its own.       *)
(***************************************************************************)
EXTENDS Naturals, Sequences, FiniteSets

CONSTANT NameOrder    \* all names in the order of their bytes, with "." and ".."

Dir(stat) == [dir |-> TRUE, stat |-> stat]
LeafOf(rc, stat, content) == [dir |-> FALSE, rc |-> rc, stat |-> stat, content |-> content]

IsNode(node) ==
  DOMAIN node = IF node.dir THEN {"dir", "stat"} ELSE {"dir", "rc", "stat", "content"}

\* mode stands for st_mode, st_uid and st_gid; xattrs is a function.
Uninitialized == [mode |-> "0", mtime |-> 0, xattrs |-> <<>>]

new(stat) == [p \in {<<>>} |-> Dir(stat)]

Parent(p)   == SubSeq(p, 1, Len(p) - 1)
FileName(p) == p[Len(p)]
In(p, q)    == Len(p) <= Len(q) /\ SubSeq(q, 1, Len(p)) = p    \* q is p or below it
Below(p, q) == p # q /\ In(p, q)
Ancestors(p) == {SubSeq(p, 1, n) : n \in 0 .. Len(p)}

(***************************************************************************)
(* Directory: get_directory and its variants walk the path from the root.  *)
(* A missing component is not found, a leaf in the way is an error of its  *)
(* own, which get_directory_opt reports and does not call "none".          *)
(***************************************************************************)
get_directory_opt(tree, p) ==
  IF \E q \in Ancestors(p) : q \in DOMAIN tree /\ ~tree[q].dir THEN "not_a_directory"
  ELSE IF p \in DOMAIN tree THEN "found" ELSE "none"

get_directory(tree, p) == get_directory_opt(tree, p) = "found"

split(tree, p) == p # <<>> /\ get_directory(tree, Parent(p))

lookup(tree, p) == p \in DOMAIN tree

ref_leaf(tree, p) == lookup(tree, p) /\ ~tree[p].dir

Entries(tree, p) == {q \in DOMAIN tree : Below(p, q) /\ Len(q) = Len(p) + 1}

(***************************************************************************)
(* sorted_entries: a directory is a BTreeMap of names.  Whoever walks a    *)
(* tree visits a directory before its entries, and these in that order.    *)
(***************************************************************************)
Rank(name) == CHOOSE i \in DOMAIN NameOrder : NameOrder[i] = name
NameBefore(a, b) == Rank(a) < Rank(b)
VisitedBefore(p, q) ==
  \/ Below(p, q)
  \/ \E i \in 1 .. Len(p) :
       i <= Len(q) /\ SubSeq(p, 1, i - 1) = SubSeq(q, 1, i - 1) /\ NameBefore(p[i], q[i])

InOrder(S, Before(_, _)) ==
  [i \in 1 .. Cardinality(S) |-> CHOOSE x \in S : Cardinality({y \in S : Before(y, x)}) = i - 1]

SameLeaf(tree, p, q) == ~tree[p].dir /\ ~tree[q].dir /\ tree[p].rc = tree[q].rc

\* Of the paths of a leaf, the one that a walk meets first.
Owner(tree, p) ==
  IF tree[p].dir THEN p
  ELSE LET links == {q \in DOMAIN tree : SameLeaf(tree, p, q)}
       IN  CHOOSE q \in links : \A r \in links \ {q} : VisitedBefore(q, r)

Without(tree, gone) == [q \in DOMAIN tree \ gone |-> tree[q]]

remove(tree, p) == Without(tree, {q \in DOMAIN tree : In(p, q)})

clear(tree, p) == Without(tree, {q \in DOMAIN tree : Below(p, q)})

insert(tree, p, node) ==
  [q \in {r \in DOMAIN tree : ~In(p, r)} \cup {p} |-> IF q = p THEN node ELSE tree[q]]

\* Deliberate error: a directory replaces a directory with all that is in it.
MergeNothing(tree, p, node) == insert(tree, p, node)

\* A directory put over a directory keeps the entries that are there.
merge(tree, p, node) ==
  IF node.dir /\ lookup(tree, p) /\ tree[p].dir
  THEN [tree EXCEPT ![p].stat = node.stat]
  ELSE insert(tree, p, node)

(***************************************************************************)
(* FileSystem.                                                             *)
(***************************************************************************)
set_root_stat(tree, stat) == [tree EXCEPT ![<<>>].stat = stat]

filter_xattrs(tree, kept) ==
  [p \in DOMAIN tree |->
     [tree[p] EXCEPT !.stat.xattrs = [k \in DOMAIN @ \cap kept |-> @[k]]]]

copy_root_metadata_from_usr(tree) == set_root_stat(tree, tree[<<"usr">>].stat)

canonicalize_run(tree) ==
  IF get_directory(tree, <<"run">>)
  THEN clear([tree EXCEPT ![<<"run">>].stat.mtime = tree[<<"usr">>].stat.mtime], <<"run">>)
  ELSE tree

\* /usr must be a directory, and nothing but a directory may be at /run.
CanTransform(tree) ==
  /\ get_directory(tree, <<"usr">>)
  /\ get_directory_opt(tree, <<"run">>) # "not_a_directory"

transform_for_oci(tree) == canonicalize_run(copy_root_metadata_from_usr(tree))

(***************************************************************************)
(* Rc::strong_count of a leaf that nothing but the tree refers to.         *)
(***************************************************************************)
strong_count(tree, rc) == Cardinality({p \in DOMAIN tree : ~tree[p].dir /\ tree[p].rc = rc})
===============================================================================
