SPECIFICATION FairSpec
CONSTANTS
  Team = {t1, t2}
  Service = {s1}
  Runner = {r1}
  Verdict = {TRUE}
  MaxRounds = 2
  MaxRestarts = 0
  MaxFaults = 2
  Garbled = Garbled
PROPERTIES
  StoppedEngineRestarts
CHECK_DEADLOCK FALSE
