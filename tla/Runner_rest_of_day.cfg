SPECIFICATION Spec
CONSTANTS
  s1 = s1
  s2 = s2
  WinrateFloor = FALSE
  Allocated = TRUE
  NumSlots = 2
  Symbols <- OneSymbol
  Commands <- NoCommands
  MaxRequests = 0
  MaxBuys = 2
  MaxCrashes = 1
PROPERTY NoEntriesAfterHalt
