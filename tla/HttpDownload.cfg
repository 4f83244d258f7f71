SPECIFICATION FairSpec
CONSTANTS
  Checksums <- MCChecksums
  Data <- MCData
  Names <- MCNames
  Objects <- MCObjects
  Present <- MCPresent
  MaxTasks = 2
  MaxFaults = 1
INVARIANTS
  DoneIsComplete
  TasksBounded
PROPERTIES
  DownloadSucceeds
CHECK_DEADLOCK FALSE
