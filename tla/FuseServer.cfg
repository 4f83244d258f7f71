SPECIFICATION FairSpec
CONSTANTS
  NameOrder <- MCNameOrder
  Byte = {"x", "y", "z", "u", "v"}
  Trees <- MCTrees
  ObjectData <- MCObjectData
  Lister = {"c1"}
  Reader = {"c1", "c2"}
  MaxRead = 2
  MaxHandles = 3
INVARIANTS
  InodesKept
  ListingsComplete
  ReadsWholeFile
PROPERTY
  ListingsEnd
CHECK_DEADLOCK FALSE
