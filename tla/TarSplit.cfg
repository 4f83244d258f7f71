SPECIFICATION FairSpec
CONSTANTS
  l1 = l1
  l2 = l2
  Layer = {l1, l2}
  Imports <- MCImports
  BLOCK = 2
  INLINE_CONTENT_MAX = 1
  Permits = 2
  Capacity = 1
INVARIANTS
  ResultIsSplit
  NothingLostInFlight
  ReadsBack
PROPERTY
  ImportsEnd
CHECK_DEADLOCK FALSE
