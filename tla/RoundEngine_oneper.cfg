SPECIFICATION Spec
CONSTANTS
  Team = {t1, t2}
  Service = {s1}
  Runner = {r1}
  Verdict = {TRUE}
  MaxRounds = 2
  MaxRestarts = 1
  MaxFaults = 0
  Garbled = Garbled
INVARIANTS
  ChecksAreOnePerRound
CHECK_DEADLOCK FALSE
