-------------------------------- MODULE MCImage --------------------------------
(***************************************************************************)
(* A small instance of ImageBuild.  Blocks have 128 bytes: /usr with the   *)
(* two long names needs blocks of its own, and the target of the link is   *)
(* as long as a tail can be that fits whatever comes before it.            *)
(***************************************************************************)
EXTENDS ImageBuild

Long(c) == "a-name-of-sixty-bytes-of-which-two-do-not-fit-into-one-blk-" \o c
Target == "../a/link/whose/target/fills/a/block/but/for/thirty-two/bytes/which/are/for/the/end/of/the/inode"

Stat1(n) == [mode |-> "m", mtime |-> n, xattrs |-> <<>>]
Attr(n, key, value) == [mode |-> "m", mtime |-> n, xattrs |-> [k \in {key} |-> value]]

Directory(p, stat)   == [path |-> p, item |-> "directory", stat |-> stat]
File(p, stat, c)     == [path |-> p, item |-> "leaf", stat |-> stat, content |-> c]
HardLink(p, to)      == [path |-> p, item |-> "hardlink", stat |-> Stat1(0), target |-> to]
Whiteout(p)          == File(p, Stat1(0), [type |-> "inline", data |-> ""])
Inline(data)         == [type |-> "inline", data |-> data]
External             == [type |-> "external", id |-> "o1", size |-> 3]
Nested               == Attr(4, <<"trusted", "overlay", "metacopy">>, Value("metacopy", "o2"))
Capability           == Attr(5, <<"security", "capability">>, Value("data", "cap"))

MCEntry == {
  Directory(<<>>, Attr(1, <<"system", "posix_acl_access">>, Value("data", ""))),
  Directory(<<"usr">>, Stat1(2)),
  Directory(<<"usr">>, Capability),
  Directory(<<"run">>, Stat1(1)),
  File(<<"usr", "a">>, Stat1(3), Inline("ab")),
  File(<<"usr", Long("1")>>, Nested, External),
  File(<<"usr", Long("2")>>, Capability, External),
  File(<<"run", "a">>, Stat1(3), External),
  File(<<"usr">>, Stat1(0 - 1), [type |-> "chardev", rdev |-> 5]),
  File(<<"lib">>, Stat1(3), [type |-> "symlink", target |-> Target]),
  File(<<"lib">>, Stat1(3), [type |-> "socket"]),
  HardLink(<<"usr", Long("1")>>, <<"usr", "a">>),
  HardLink(<<"usr", "a">>, <<"run", "a">>),
  Whiteout(<<".wh.usr">>),
  Whiteout(<<"usr", ".wh..wh..opq">>),
  Whiteout(<<"usr", ".wh.a">>)}

MCWhiteoutOf == [n \in {".wh.a", ".wh.usr"} |-> IF n = ".wh.a" THEN "a" ELSE "usr"]

MCNameOrder == <<".", "..", "a", Long("1"), Long("2"), "lib", "run", "usr">>

MCSized == [data \in {"big", "bi"} |-> IF data = "big" THEN [id |-> "o1", size |-> 3] ELSE [id |-> "o3", size |-> 2]]
MCCut   == [data \in {"big", "ab"} |-> IF data = "big" THEN "bi" ELSE "a"]
MCUmasked == [mode \in {"m"} |-> "n"]

MCContainerXattrs == {<<"security", "capability">>}
===============================================================================
