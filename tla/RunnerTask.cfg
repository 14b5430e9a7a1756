SPECIFICATION FairSpec
CONSTANTS
  Delivery = {d1, d2}
  Attempts = 3
  MaxFaults = 2
INVARIANTS
  TypeOK
  AttemptsApart
  VerdictIsEarned
  ShownIsPushed
PROPERTIES
  ImplementsTaskFate
  TakenIsSettled
  RunningEnds
\* nothing is left to do when every task is settled
CHECK_DEADLOCK FALSE
