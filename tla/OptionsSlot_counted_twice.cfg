SPECIFICATION Spec
CONSTANTS
  Values <- CreditAndDebit
  Capital = 1
  CloseAfter = 1
  MaxIds = 2
  MaxDays = 2
  MaxStarts = 2
CHECK_DEADLOCK FALSE
PROPERTY SizedFromCash
