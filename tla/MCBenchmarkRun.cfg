CONSTANTS
  Domains = {d1, d2}
  Prompts = {x1, x2}
  Outputs = {o1, o2}
  Configs <- ThreeConfigs
  Passing = {o1}
  MaxTrouble = 1
  Null = Null
SPECIFICATION FairSpec
INVARIANTS
  
  SummaryIsTrue
PROPERTIES
  
  RunCompletes
CHECK_DEADLOCK FALSE
