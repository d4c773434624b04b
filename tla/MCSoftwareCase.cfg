CONSTANTS
  MaxInterrupts = 1
  Null = Null
SPECIFICATION LiveSpec
INVARIANTS
  NothingLeft
  PassedIsEarned
  ResultMeansRemoved
PROPERTIES
  CaseEnds
CHECK_DEADLOCK FALSE
