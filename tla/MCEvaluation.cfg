CONSTANTS
  Cases = {c1, c2}
  CheckGroups <- TwoGroups
  Opinions <- FiveOpinions
  Judges = 2
  MinimumCases = 2
  Null = Null
SPECIFICATION Spec
INVARIANTS
  WinIsPreferred
  PassedDoesNoHarm
  WrittenIsAccepted
  
CHECK_DEADLOCK FALSE
