SPECIFICATION Spec
CONSTANTS
  Pair = {p1, p2}
  Runner = {r1}
  MaxStarts = 2
  MaxResets = 1
  MaxOpens = 2
SYMMETRY Alike
INVARIANTS
  TypeOK
  FreshAfterReset
  LossesAccountedFor
  OneMoreAtMost
PROPERTIES
  ImplementsSeasonLog
\* the bounds end the run
CHECK_DEADLOCK FALSE
