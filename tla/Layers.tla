-------------------------------- MODULE Layers --------------------------------
(***************************************************************************)
(* From the layers of an OCI image to a file system                        *)
(* (crates/composefs-oci/src/image.rs): create_filesystem reads the        *)
(* entries of one layer after the other and process_entry puts each into   *)
(* the tree; whiteouts take away what earlier entries have put there.      *)
(* The entries are those that get_entry (TarSplit) may return; which come, *)
(* and where a layer ends, is left open.                                   *)
(***************************************************************************)
EXTENDS Naturals, Sequences, FiniteSets, Tree

CONSTANTS
  Entry,       \* tar entries: [path, item, stat] and content or target
  WhiteoutOf,  \* for the names ".wh.<name>" the name that they hide
  Opaque,      \* the name ".wh..wh..opq"
  MaxLayers,   \* bound: layers of an image
  MaxEntries   \* bound: entries of all layers together

\* The names that there are, in trees and in layers.
Names == {NameOrder[i] : i \in DOMAIN NameOrder} \cup DOMAIN WhiteoutOf \cup {Opaque}

ASSUME LayersConstants ==
  /\ \A e \in Entry : e.path \in Seq(Names) /\ (e.item = "hardlink" => e.target \in Seq(Names))
  /\ \A e \in Entry : e.item \in {"directory", "leaf", "hardlink"}
  /\ Opaque \notin DOMAIN WhiteoutOf /\ \A n \in DOMAIN WhiteoutOf : WhiteoutOf[n] \in Names
  /\ MaxLayers \in Nat /\ MaxEntries \in Nat

VARIABLES
  tree,     \* the FileSystem
  phase,    \* "layer": between layers, "entries": inside one, "done", "failed"
  applied,  \* the entries that have been processed, with the number of their layer
  layers    \* the number of layers that have been opened

layersVars == <<tree, phase, applied, layers>>

LayersInit ==
  /\ tree = new(Uninitialized)
  /\ phase = "layer"
  /\ applied = <<>>
  /\ layers = 0

(***************************************************************************)
(* process_entry.  A hard link is resolved before anything else, and the   *)
(* directory of the entry must be there; otherwise the tree stays as it    *)
(* is and the whole image fails.                                           *)
(***************************************************************************)
Accepts(e) ==
  IF e.path = <<>> THEN e.item = "directory"
  ELSE /\ e.item = "hardlink" => split(tree, e.target) /\ ref_leaf(tree, e.target)
       /\ split(tree, e.path)

NodeOf(e, rc) ==
  CASE e.item = "directory" -> Dir(e.stat)
    [] e.item = "leaf"      -> LeafOf(rc, e.stat, e.content)
    [] e.item = "hardlink"  -> tree[e.target]

Processed(e, rc) ==
  LET dir  == Parent(e.path)
      name == FileName(e.path)
  IN  CASE e.path = <<>> -> set_root_stat(tree, e.stat)
        [] e.path # <<>> /\ name = Opaque -> clear(tree, dir)
        [] e.path # <<>> /\ name \in DOMAIN WhiteoutOf ->
             remove(tree, Append(dir, WhiteoutOf[name]))
        [] OTHER -> merge(tree, e.path, NodeOf(e, rc))

process_entry(e) ==
  /\ phase = "entries"
  /\ Len(applied) < MaxEntries
  /\ Accepts(e)
  /\ tree' = Processed(e, Len(applied) + 1)
  /\ applied' = Append(applied, [entry |-> e, layer |-> layers])
  /\ UNCHANGED <<phase, layers>>

\* The error goes through to the caller of create_filesystem; the tree is dropped.
Fail ==
  /\ phase' = "failed"
  /\ tree' = new(Uninitialized)
  /\ applied' = <<>>
  /\ layers' = 0

EntryFails(e) ==
  /\ phase = "entries"
  /\ Len(applied) < MaxEntries
  /\ ~Accepts(e)
  /\ Fail

(***************************************************************************)
(* create_filesystem.  A layer fails if the config has no reference to it, *)
(* if its checksum is wrong (computed when the config is not verified), or *)
(* if get_entry does.                                                      *)
(***************************************************************************)
OpenLayer ==
  /\ phase = "layer"
  /\ layers < MaxLayers
  /\ layers' = layers + 1
  /\ phase' = "entries"
  /\ UNCHANGED <<tree, applied>>

LayerEnds ==
  /\ phase = "entries"
  /\ phase' = "layer"
  /\ UNCHANGED <<tree, applied, layers>>

ReadFails ==
  /\ phase \in {"layer", "entries"}
  /\ Fail

Transform ==
  /\ phase = "layer"
  /\ CanTransform(tree)
  /\ tree' = transform_for_oci(tree)
  /\ phase' = "done"
  /\ UNCHANGED <<applied, layers>>

TransformFails ==
  /\ phase = "layer"
  /\ ~CanTransform(tree)
  /\ Fail

LayersNext ==
  \/ \E e \in Entry : process_entry(e) \/ EntryFails(e)
  \/ OpenLayer
  \/ LayerEnds
  \/ ReadFails
  \/ Transform
  \/ TransformFails

LayersSpec == LayersInit /\ [][LayersNext]_layersVars
===============================================================================
