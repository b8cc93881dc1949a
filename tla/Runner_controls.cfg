SPECIFICATION FairSpec
CONSTANTS
  s1 = s1
  s2 = s2
  WinrateFloor = FALSE
  Allocated = TRUE
  NumSlots = 1
  Symbols <- OneSymbol
  Commands <- HaltResume
  MaxRequests = 2
  MaxBuys = 1
  MaxCrashes = 1
INVARIANTS PauseStands
PROPERTY RequestAnswered
