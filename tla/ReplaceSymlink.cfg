SPECIFICATION LinkSpec
CONSTANTS
  Proc = {p1, p2, p3}
  Target = {a, b}
  Name = {n1, n2}
  None = None
  MaxTries = 2
INVARIANT
  LinkIInv
PROPERTY
  ImplementsAtomicLink
