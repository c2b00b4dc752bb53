SPECIFICATION Spec
CONSTANTS
  Installs = TRUE
  MaxSignals = 1
  Kills = FALSE
CHECK_DEADLOCK FALSE
INVARIANTS
  ForwardedOnce
