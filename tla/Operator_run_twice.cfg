SPECIFICATION Spec
CONSTANTS
  Tasks <- Nightly
  At <- AtNight
  Watchdog = TRUE
  Horizon = 6
  MaxUpsets = 1
CHECK_DEADLOCK FALSE
INVARIANT RunOnce
