SPECIFICATION FairSpec
CONSTANTS
  MaxStarts = 2
  MaxResets = 1
  MaxOpens = 1
  MaxRequests = 0
  Request = {r1}
  StartPaused = FALSE
PROPERTY
  ResetStartsLoopAgain
\* loops end, block for ever or panic
CHECK_DEADLOCK FALSE
