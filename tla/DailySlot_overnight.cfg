SPECIFICATION Spec
CONSTANTS
  s1 = s1
  s2 = s2
  Symbols <- TwoSymbols
  Quantities <- Sizes
  DeadBand = 2
  MaxDays = 2
  MaxStarts = 3
SYMMETRY Interchangeable
CHECK_DEADLOCK FALSE
INVARIANTS Balanced BookedOnce
PROPERTY DecidedOnce
