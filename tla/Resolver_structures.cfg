SPECIFICATION Spec
CONSTANTS
  Chains <- SomeChains
  TargetDte = 30
  FarOffset = 30
  StepPct = 1
  Capitals = {200000, 500000}
  RiskFractions = {20, 80}
  MaxRisks = {60}
  SpreadFractions = {0, 25, 100}
CHECK_DEADLOCK FALSE
INVARIANTS RiskAsDeclared StrikesOrdered SizedWithinMeans FillsCost
