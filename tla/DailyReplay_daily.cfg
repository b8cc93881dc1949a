SPECIFICATION Spec
CONSTANTS
  a = a
  b = b
  c = c
  Symbols <- ABC
  Unit = 12
  Strategies <- AllStrategies
  Windows <- SomeWindows
  Histories <- SomeHistories
  Tapes <- SomeTapes
  Capital = 1000
  MaxGross = 12
  SlippageBps = 100
  LastDay = 4
CHECK_DEADLOCK FALSE
INVARIANTS BookFollows WithinGross RightSide
