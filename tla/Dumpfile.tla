------------------------------- MODULE Dumpfile --------------------------------
(***************************************************************************)
(* The text form of a tree (crates/composefs/src/dumpfile.rs writes it and *)
(* puts it back together, dumpfile_parse.rs parses a line).                *)
(*                                                                         *)
(* A dumpfile is a sequence of lines and a line a record of its fields.    *)
(* Escaping is one to one and leaves fields as they are, but for the two   *)
(* special cases that the format has for "-".  A number field is a number, *)
(* or "-" in the lines of hard links.                                      *)
(***************************************************************************)
EXTENDS Tree, Naturals, Integers, Sequences, FiniteSets

CONSTANT MAX_INLINE_CONTENT

write_escaped(bytes) == IF Len(bytes) = 0 THEN "-" ELSE bytes

Attrs(stat) == [k \in DOMAIN stat.xattrs |->
                  [stat.xattrs[k] EXCEPT !.of = write_escaped(@)]]

write_entry(path, stat, ifmt, size, nlink, rdev, payload, content, digest) ==
  [path |-> path, size |-> size, hardlink |-> FALSE, ifmt |-> ifmt, mode |-> stat.mode,
   numeric |-> TRUE, nlink |-> nlink, rdev |-> rdev, mtime |-> stat.mtime,
   payload |-> write_escaped(payload), content |-> write_escaped(content), digest |-> digest,
   xattrs |-> Attrs(stat)]

write_directory(path, stat, nlink) == write_entry(path, stat, "directory", 0, nlink, 0, "", "", "-")

write_leaf(path, stat, c, nlink) ==
  CASE c.type = "inline"   -> write_entry(path, stat, "regular", Len(c.data), nlink, 0, "", c.data, "-")
    [] c.type = "external" -> write_entry(path, stat, "regular", c.size, nlink, 0, c.id, "", c.id)
    [] c.type = "symlink"  -> write_entry(path, stat, "symlink", Len(c.target), nlink, 0, c.target, "", "-")
    [] c.type \in {"chardev", "blockdev"} -> write_entry(path, stat, c.type, 0, nlink, c.rdev, "", "", "-")
    [] c.type \in {"fifo", "socket"}      -> write_entry(path, stat, c.type, 0, nlink, 0, "", "", "-")

write_hardlink(path, target) ==
  [path |-> path, size |-> 0, hardlink |-> TRUE, ifmt |-> "symlink", mode |-> "0",
   numeric |-> FALSE, nlink |-> 0, rdev |-> 0, mtime |-> 0,
   payload |-> target, content |-> "-", digest |-> "-", xattrs |-> <<>>]

\* Deliberate error: every path of a leaf is a leaf.
LineOfLeaf(tree, p) ==
  IF tree[p].dir
  THEN write_directory(p, tree[p].stat, 2 + Cardinality({q \in Entries(tree, p) : tree[q].dir}))
  ELSE write_leaf(p, tree[p].stat, tree[p].content, strong_count(tree, tree[p].rc))

\* DumpfileWriter: the first path of a leaf gets the leaf, the others a hard link to it.
Line(tree, p) ==
  IF tree[p].dir
  THEN write_directory(p, tree[p].stat, 2 + Cardinality({q \in Entries(tree, p) : tree[q].dir}))
  ELSE LET nlink == strong_count(tree, tree[p].rc)
       IN  IF nlink > 1 /\ Owner(tree, p) # p THEN write_hardlink(p, Owner(tree, p))
           ELSE write_leaf(p, tree[p].stat, tree[p].content, nlink)

write_dumpfile(tree) ==
  LET order == InOrder(DOMAIN tree, VisitedBefore) IN [i \in DOMAIN order |-> Line(tree, order[i])]

(***************************************************************************)
(* Entry::parse: an item, or "error".                                      *)
(***************************************************************************)
optional_str(s) == s # "-"

check_nonregfile(l) == ~optional_str(l.content) /\ ~optional_str(l.digest)
check_rdev(l) == l.rdev = 0

ItemOf(l) ==
  CASE l.hardlink -> IF l.ifmt # "directory" /\ optional_str(l.payload) THEN "hardlink" ELSE "error"
    [] ~l.hardlink /\ l.ifmt = "regular" ->
         IF ~check_rdev(l) THEN "error"
         ELSE IF optional_str(l.payload) THEN "external"
         ELSE IF Len(l.content) <= MAX_INLINE_CONTENT /\ ~optional_str(l.digest) THEN "inline" ELSE "error"
    [] ~l.hardlink /\ l.ifmt = "symlink" ->
         IF check_nonregfile(l) /\ check_rdev(l) /\ optional_str(l.payload) THEN "symlink" ELSE "error"
    [] ~l.hardlink /\ l.ifmt \in {"fifo", "directory"} ->
         IF check_nonregfile(l) /\ check_rdev(l) THEN l.ifmt ELSE "error"
    [] ~l.hardlink /\ l.ifmt \in {"chardev", "blockdev"} ->
         IF check_nonregfile(l) THEN l.ifmt ELSE "error"
    [] OTHER -> "error"    \* sockets

\* The numbers come first; the seconds of mtime have no sign.
Parse(l) == IF l.numeric /\ l.mtime >= 0 THEN ItemOf(l) ELSE "error"

(***************************************************************************)
(* dumpfile_to_filesystem.                                                 *)
(***************************************************************************)
entry_to_stat(l) == [mode |-> l.mode, mtime |-> l.mtime, xattrs |-> l.xattrs]

ContentOf(l) ==
  CASE Parse(l) = "inline"   -> [type |-> "inline", data |-> IF optional_str(l.content) THEN l.content ELSE ""]
    [] Parse(l) = "external" -> [type |-> "external", id |-> l.digest, size |-> l.size]
    [] Parse(l) = "symlink"  -> [type |-> "symlink", target |-> l.payload]
    [] Parse(l) \in {"chardev", "blockdev"} -> [type |-> l.ifmt, rdev |-> l.rdev]
    [] Parse(l) = "fifo"     -> [type |-> "fifo"]

CanAdd(fs, l) ==
  /\ Parse(l) # "error"
  /\ l.path # <<>> => split(fs, l.path)
  /\ Parse(l) = "hardlink" => ref_leaf(fs, l.payload)
  /\ Parse(l) = "external" => optional_str(l.digest)

\* The number of the line is the identity of the leaf that it makes.
add_entry_to_filesystem(fs, l, number) ==
  IF l.path = <<>> THEN set_root_stat(fs, entry_to_stat(l))
  ELSE insert(fs, l.path,
         CASE Parse(l) = "directory" -> Dir(entry_to_stat(l))
           [] Parse(l) = "hardlink"  -> fs[l.payload]
           [] OTHER -> LeafOf(number, entry_to_stat(l), ContentOf(l)))

dumpfile_to_filesystem(dump) ==
  LET read[i \in 1 .. Len(dump)] ==
        IF i = 1
        THEN [ok |-> Parse(dump[1]) # "error" /\ dump[1].path = <<>>, fs |-> new(entry_to_stat(dump[1]))]
        ELSE IF read[i - 1].ok /\ CanAdd(read[i - 1].fs, dump[i])
        THEN [ok |-> TRUE, fs |-> add_entry_to_filesystem(read[i - 1].fs, dump[i], i)]
        ELSE [ok |-> FALSE, fs |-> read[i - 1].fs]
  IN  read[Len(dump)]
===============================================================================
