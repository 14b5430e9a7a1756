SPECIFICATION Spec
CONSTANTS
  Pair = {p1, p2}
  Threshold = 2
  MaxRound = 2
  MaxChecks = 5
  MaxRestarts = 1
  MaxResets = 1
  MaxFaults = 1
SYMMETRY Alike
INVARIANTS
  TypeOK
  UptimeIsHistory
  CounterIsStreak
  PenaltyPerViolation
  LoadSLAsIsTheLoop
\* the bounds end the run
CHECK_DEADLOCK FALSE
