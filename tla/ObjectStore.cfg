SPECIFICATION FairSpec
CONSTANTS
  Task = {t1, t2}
  Object = {o1}
  Child = {c1, c2}
  Absent = Absent
  MaxFailures = 1
INVARIANTS
  StoreKeepsWord
  NoFalseErrors
PROPERTIES
  AppearsComplete
  StoreEnds
