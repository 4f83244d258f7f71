SPECIFICATION FairSpec
CONSTANTS
  Process = {"p1", "p2"}
  Images <- MCImages
  Threads = 2
  MaxFaults = 1
INVARIANTS
  ConfigComplete
  LayersVerified
PROPERTIES
  StreamsStable
  PullsSucceed
CHECK_DEADLOCK FALSE
