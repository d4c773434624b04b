CONSTANTS
  Writers = {w1, w2}
  Contents = {c1, c2}
  Inodes = {n1, n2, n3}
  Null = Null
  External = External
  MaxFaults = 1
  MaxCrashes = 0
  MaxSwaps = 0
SYMMETRY Symmetry
SPECIFICATION Spec
INVARIANTS
  SuccessIsDurable
CHECK_DEADLOCK FALSE
