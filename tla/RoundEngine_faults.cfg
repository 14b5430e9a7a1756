SPECIFICATION FairSpec
CONSTANTS
  Team = {t1, t2}
  Service = {s1}
  Runner = {r1, r2}
  Verdict = {FALSE}
  MaxRounds = 3
  MaxRestarts = 0
  MaxFaults = 2
  Garbled = Garbled
INVARIANTS
  NothingVanishes
PROPERTIES
  SavedRoundIsComplete
  RoundCloses
\* the bounds end the run, and the loop may return for good
CHECK_DEADLOCK FALSE
