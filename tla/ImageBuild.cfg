SPECIFICATION Image_Spec
CONSTANTS
  Entry <- MCEntry
  WhiteoutOf <- MCWhiteoutOf
  Opaque = ".wh..wh..opq"
  MaxLayers = 2
  MaxEntries = 4
  NameOrder <- MCNameOrder
  BLOCK_SIZE = 128
  MAX_INLINE_CONTENT = 4
  INLINE_CONTENT_MAX = 2
  Sized <- MCSized
  ContainerXattrs <- MCContainerXattrs
  Cut <- MCCut
  Umasked <- MCUmasked
INVARIANTS
  TreeIsStack
  CollectsObjects
  ImageHoldsTree
  DumpReadsBack
  ScansAgree
CHECK_DEADLOCK FALSE
