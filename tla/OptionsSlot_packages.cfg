SPECIFICATION Spec
CONSTANTS
  Values <- CreditAndDebit
  Capital = 1
  CloseAfter = 1
  MaxIds = 2
  MaxDays = 3
  MaxStarts = 3
CHECK_DEADLOCK FALSE
INVARIANTS Balanced Settled DueClosed
PROPERTIES PricedFromMark
