CONSTANTS
  Keys = {k1, k2}
  Requests = {q1, q2}
  Instances = {i1, i2}
  Null = Null
  MaxDowns = 1
  MaxFaults = 1
SPECIFICATION FairSpec
INVARIANTS
  SucceededHasItsArtifact
PROPERTIES
  EveryJobEnds
  ImplementsJobTable
CHECK_DEADLOCK FALSE
