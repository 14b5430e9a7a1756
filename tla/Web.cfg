SPECIFICATION WebSpec
CONSTANTS
  CredTeam = {t1, t2}
  Credlist <- Lists
  NewPassword = {"new"}
  PcrRequest = {h1, h2}
  MaxSeedings = 3
  MaxCredEvents = 3
  InjTeam = {t1, t2}
  FileName = {f1}
  Handler = {h1, h2}
  MaxInjects = 2
  MaxInjRequests = 4
  MaxInjFaults = 1
  ViewTeam = {t1, t2}
  SlaPenalty = 2
  MaxViewRound = 2
  MaxViewEvents = 2
  Content <- Contents
  Garbled = Garbled
  Reload = {h1, h2}
  MaxChanges = 2
SYMMETRY Alike
INVARIANTS
  WebTypeOK
  HistoryIsComplete
  SeedingHeals
  OnePcrPerTeam
  EverySubmissionKept
  DirectoryMatchesRow
  DeletedStaysDeleted
  SeriesIsScore
  QuietIsCurrent
  RoundOutlastsChecks
\* the bounds end the run
CHECK_DEADLOCK FALSE
