CONSTANTS
  Prompts = {good, plain, bad}
  Garbled = {bad}
  Passing = {good, bad}
  MaxCandidates = 3
  MaxRetries = 1
  Malformed = Malformed
  None = None
SPECIFICATION OptimizeSpec
INVARIANTS
  AnswerIsOfLastAttempt
  ResultIsTheSelected
PROPERTIES
  EveryRequestEnds
CHECK_DEADLOCK FALSE
