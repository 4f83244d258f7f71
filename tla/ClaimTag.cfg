SPECIFICATION Spec
CONSTANTS
  Process = {"p1"}
  Images <- MCImages
  Threads = 2
  MaxFaults = 0
INVARIANT TagLeadsToImage
CHECK_DEADLOCK FALSE
