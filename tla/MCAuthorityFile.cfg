CONSTANTS
  Writers = {w1, w2, w3}
  Contents = {c1, c2}
  Inodes = {n1, n2, n3, n4}
  Null = Null
  External = External
  MaxFaults = 1
  MaxCrashes = 1
  MaxSwaps = 1
SYMMETRY Symmetry
SPECIFICATION Spec

  
PROPERTIES
  ImplementsWriteOnce
CHECK_DEADLOCK FALSE
