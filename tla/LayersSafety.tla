----------------------------- MODULE LayersSafety -----------------------------
(***************************************************************************)
(* What create_filesystem promises: the tree is the stack of the layers.   *)
(* The stack is defined here from the list of the entries alone: what is   *)
(* seen at a path is what the last entry for the path has put there, if    *)
(* nothing that came later hides it.                                       *)
(***************************************************************************)
EXTENDS Layers

Index == 1 .. Len(applied)
Item(i) == applied[i].entry
IsWhiteout(e) == e.path # <<>> /\ FileName(e.path) \in DOMAIN WhiteoutOf
IsOpaque(e)   == e.path # <<>> /\ FileName(e.path) = Opaque
IsPlain(e)    == ~IsWhiteout(e) /\ ~IsOpaque(e)

\* Entry e hides what was at p before it.
Hides(e, p) ==
  \/ IsWhiteout(e) /\ In(Append(Parent(e.path), WhiteoutOf[FileName(e.path)]), p)
  \/ IsOpaque(e) /\ Below(Parent(e.path), p)
  \/ IsPlain(e) /\ e.item # "directory" /\ Below(e.path, p)

\* Layers as tools write them: a whiteout is about the layers below its own,
\* and hides nothing that its own layer has.
WellOrdered ==
  \A i, j \in Index :
    (i < j /\ applied[i].layer = applied[j].layer /\ ~IsPlain(Item(j)))
      => ~Hides(Item(j), Item(i).path)

EntriesFor(p, n) == {i \in 1 .. n : IsPlain(Item(i)) /\ Item(i).path = p}
LastFor(p, n) == CHOOSE i \in EntriesFor(p, n) : \A j \in EntriesFor(p, n) : j <= i

\* Of the layers above, a whiteout; or any later entry, if it is a file in the way.
Hidden(p, i) ==
  \E j \in Index : /\ j > i
                   /\ Hides(Item(j), p)
                   /\ IsPlain(Item(j)) \/ applied[j].layer > applied[i].layer

Seen == {p \in {Item(i).path : i \in Index} :
           p # <<>> /\ EntriesFor(p, Len(applied)) # {}
                    /\ ~Hidden(p, LastFor(p, Len(applied)))}

\* The entry whose inode entry i has put at its path.
Origin[i \in Index] ==
  IF Item(i).item = "hardlink" THEN Origin[LastFor(Item(i).target, i - 1)] ELSE i

StackedNode(i) ==
  LET o == Origin[i] e == Item(o)
  IN  IF e.item = "directory" THEN Dir(e.stat) ELSE LeafOf(o, e.stat, e.content)

Stack ==
  [p \in Seen \cup {<<>>} |->
     IF p # <<>> THEN StackedNode(LastFor(p, Len(applied)))
     ELSE IF EntriesFor(p, Len(applied)) = {} THEN Dir(Uninitialized)
     ELSE Dir(Item(LastFor(p, Len(applied))).stat)]

\* Every node is in a directory.
LayersTypeOK ==
  /\ phase \in {"layer", "entries", "done", "failed"}
  /\ layers \in 0 .. MaxLayers
  /\ Len(applied) <= MaxEntries
  /\ <<>> \in DOMAIN tree /\ tree[<<>>].dir
  /\ \A p \in DOMAIN tree \ {<<>>} : Parent(p) \in DOMAIN tree /\ tree[Parent(p)].dir

\* transform_for_oci (generic_tree.rs) changes the root, /run and what is below
\* /run, and nothing else: no other path loses its node, and no stat of a hard
\* link outside of /run is touched through one inside.
TransformIsLocal ==
  LET run   == <<"run">>
      below == {p \in Seen : Below(run, p) /\ Stack[run].dir}
  IN  /\ DOMAIN tree = (Seen \cup {<<>>}) \ below
      /\ \A p \in DOMAIN tree \ {<<>>, run} : tree[p] = Stack[p]
      /\ tree[<<>>].stat = Stack[<<"usr">>].stat
      /\ run \in DOMAIN tree =>
           tree[run].stat = [Stack[run].stat EXCEPT !.mtime = Stack[<<"usr">>].stat.mtime]

(***************************************************************************)
(* As long as whiteouts come before what their own layer puts in the same  *)
(* place, the tree that process_entry (image.rs) builds entry by entry is  *)
(* the stack of the layers, with hard links to one inode, whatever         *)
(* replaces, merges with and hides what; and create_filesystem then        *)
(* changes the root and /run alone.                                        *)
(***************************************************************************)
TreeIsStack ==
  /\ LayersTypeOK
  /\ WellOrdered /\ phase \in {"layer", "entries"} => tree = Stack
  /\ WellOrdered /\ phase = "done" => TransformIsLocal
===============================================================================
