------------------------------ MODULE MCFuseServer ------------------------------
(***************************************************************************)
(* A tree with a hard link from the root into a directory, one that has a  *)
(* file from before 1970, and one with files whose data are objects, of    *)
(* which one is lost.                                                      *)
(***************************************************************************)
EXTENDS FuseServerSafety, TLC

Stat(t) == [mode |-> "m", mtime |-> t, xattrs |-> <<>>]
Inline == [type |-> "inline", data |-> <<"x", "y", "z">>]
External(id) == [type |-> "external", id |-> id, size |-> 2]
Leaf(rc, content) == LeafOf(rc, Stat(1), content)

Linked ==
  (<<>> :> Dir(Stat(1))) @@
  (<<"a">> :> Leaf("rc1", Inline)) @@
  (<<"d">> :> Dir(Stat(2))) @@
  (<<"d", "a">> :> Leaf("rc1", Inline)) @@
  (<<"d", "b">> :> Dir(Stat(1)))

Early == (<<>> :> Dir(Stat(1))) @@ (<<"a">> :> LeafOf("rc1", Stat(0 - 1), [type |-> "symlink", target |-> "b"]))

Stored == (<<>> :> Dir(Stat(0 - 1))) @@ (<<"a">> :> Leaf("rc1", External("o2"))) @@ (<<"b">> :> Leaf("rc2", External("o1")))

MCTrees == ("linked" :> Linked) @@ ("early" :> Early) @@ ("stored" :> Stored)
MCObjectData == "o1" :> <<"u", "v">>
MCNameOrder == <<".", "..", "a", "b", "d">>
================================================================================
