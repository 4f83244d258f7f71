---------------------------- MODULE MCHttpDownload ----------------------------
(***************************************************************************)
(* A config "c" with layers "l1" and "l2", which have an object in common; *)
(* "l1" also stores "l2" as if it were a file.  The other names are of a   *)
(* config with two checksums for a layer, of one with a wrong checksum, of *)
(* one that needs what the server has wrongly or has not, and of a file.   *)
(***************************************************************************)
EXTENDS HttpDownloadSafety, TLC

Stream(named, files, sum) == [stream |-> TRUE, named |-> named, objects |-> files, body |-> sum]
File == [stream |-> FALSE, named |-> <<>>, objects |-> {}, body |-> None]
Ref(to, sum) == [id |-> to, body |-> sum]

MCData ==
  ("c"    :> Stream(<<Ref("l1", "s1"), Ref("l2", "s2")>>, {}, "sc")) @@
  ("l1"   :> Stream(<<>>, {"o1", "o2", "l2"}, "s1")) @@
  ("l2"   :> Stream(<<>>, {"o2", "o3"}, "s2")) @@
  ("two"  :> Stream(<<Ref("l2", "s2"), Ref("l2", "s1")>>, {}, "st")) @@
  ("lie"  :> Stream(<<Ref("l2", "s1")>>, {}, "sl")) @@
  ("bad"  :> Stream(<<Ref("b", "sb")>>, {"o1"}, "sx")) @@
  ("b"    :> Stream(<<>>, {"lost"}, "sb")) @@
  ("o1"   :> File) @@ ("o2" :> File) @@ ("o3" :> File) @@ ("lost" :> File)

MCChecksums == {"sc", "s1", "s2", "st", "sl", "sx", "sb"}

MCNames ==
  ("good" :> [symlink |-> TRUE, id |-> "c"]) @@
  ("data" :> [symlink |-> FALSE, id |-> "c"]) @@
  ("two"  :> [symlink |-> TRUE, id |-> "two"]) @@
  ("lie"  :> [symlink |-> TRUE, id |-> "lie"]) @@
  ("bad"  :> [symlink |-> TRUE, id |-> "bad"]) @@
  ("file" :> [symlink |-> TRUE, id |-> "o1"])

MCObjects == [id \in DOMAIN MCData |-> IF id = "lost" THEN "o3" ELSE id]

MCPresent == SUBSET {"c", "l2", "o1", "o2"}
===============================================================================
