CONSTANTS
  Null = Null
SPECIFICATION Spec
INVARIANTS
  FailureIsAResult
CHECK_DEADLOCK FALSE
