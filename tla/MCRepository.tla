----------------------------- MODULE MCRepository -----------------------------
(* A layer stream with one file, a config stream that names the layer, and an  *)
(* image backed by the same file.                                              *)
EXTENDS RepositorySafety, TLC

CONSTANTS file, layerObject, configObject, image, layer, config, p1, p2

MCObject  == {file, layerObject, configObject, image}
MCProc    == {p1, p2}
MCStream  == {layer, config}
MCImage   == {image}
MCObjectOf == (layer :> layerObject) @@ (config :> configObject)
MCDataRefs == [o \in MCObject |-> IF o = layerObject THEN {file} ELSE {}]
MCNamedRefs == [o \in MCObject |-> IF o = configObject THEN {layerObject} ELSE {}]
MCImageObjects == (image :> {file})
MCRootSets == {{}, {layer}}
NoFaults == {}
AllFaults == {"kill_gc", "gc_io", "unchecked_name"}
Symmetry == Permutations(MCProc)
===============================================================================
