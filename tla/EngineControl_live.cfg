SPECIFICATION FairSpec
CONSTANTS
  MaxStarts = 2
  MaxResets = 1
  MaxOpens = 2
  MaxRequests = 1
  Request = {r1}
  StartPaused = FALSE
PROPERTIES
  StaleLoopsEnd
  UnpausedRuns
\* loops end, block for ever or panic
CHECK_DEADLOCK FALSE
