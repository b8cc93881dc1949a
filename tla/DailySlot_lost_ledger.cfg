SPECIFICATION Spec
CONSTANTS
  s1 = s1
  s2 = s2
  Symbols <- TwoSymbols
  Quantities <- Sizes
  DeadBand = 2
  MaxDays = 3
  MaxStarts = 3
CHECK_DEADLOCK FALSE
PROPERTY LedgerComplete
