SPECIFICATION Spec
CONSTANTS
  Pair = {p1, p2}
  Threshold = 2
  MaxRound = 2
  MaxChecks = 4
  MaxRestarts = 0
  MaxResets = 1
  MaxFaults = 0
INVARIANTS
  ResetClears
CHECK_DEADLOCK FALSE
