------------------------------ MODULE MCTarSplit ------------------------------
(* Archives of blocks of two bytes; files with more than one byte are large.  *)
EXTENDS TarSplitSafety

CONSTANTS l1, l2   \* the layers

Entry(type, name, size) == [type |-> type, name |-> name, size |-> size]
Regular(name, size) == Entry("regular", name, size)
Dir == Entry("directory", "d", 0)
End == Entry("end", "", 0)
Whole(entries) == [entries |-> entries, cut |-> 0]

\* With padding and without, the same file twice, a long name, small files.
MCWhole == {
  Whole(<<Dir, Regular("a", 3), Regular("b", 2), End>>),
  Whole(<<Regular("a", 3), Regular("c", 1), Regular("a", 3)>>),
  Whole(<<Entry("longname", "n", 2), Regular("a", 2), Regular("c", 0), End, Dir>>)}

\* The end is missing: in a header, a file, the padding.
MCCut == {[entries |-> <<Regular("a", 3), Regular("b", 3)>>, cut |-> n] : n \in {1, 3, 5}}

MCArchives == MCWhole \cup MCCut

\* For several layers: two files, and one of a stream that ends early.
MCLayers == {
  Whole(<<Regular("a", 2), Regular("b", 2)>>),
  [entries |-> <<Regular("b", 2)>>, cut |-> 1]}

\* One layer of any kind beside an empty one, or two at the same time, of which
\* the second ends early.
MCImports ==
  {[l \in {l1, l2} |-> IF l = l1 THEN a ELSE Whole(<<>>)] : a \in MCArchives}
  \cup {f \in [{l1, l2} -> MCLayers] : f[l2].cut = 1}
===============================================================================
