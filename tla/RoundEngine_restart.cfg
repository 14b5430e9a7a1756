SPECIFICATION Spec
CONSTANTS
  Team = {t1, t2}
  Service = {s1}
  Runner = {r1}
  Verdict = {TRUE}
  MaxRounds = 2
  MaxRestarts = 1
  MaxFaults = 1
  Garbled = Garbled
SYMMETRY Alike
INVARIANTS
  TypeOK
  OneResultPerPair
  RoundNumberIsNew
PROPERTIES
  ImplementsRoundLog
\* the loop may have returned for good ("dead"), or MaxRounds is reached
CHECK_DEADLOCK FALSE
