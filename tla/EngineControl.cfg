SPECIFICATION Spec
CONSTANTS
  MaxStarts = 2
  MaxResets = 1
  MaxOpens = 2
  MaxRequests = 2
  Request = {r1, r2}
  StartPaused = TRUE
SYMMETRY Alike
INVARIANTS
  TypeOK
  FlagTellsHold
  NumberIsNewAfterReset
PROPERTIES
  PauseHolds
\* loops end, block for ever or panic
CHECK_DEADLOCK FALSE
