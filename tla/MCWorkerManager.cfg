SPECIFICATION FairSpec
CONSTANTS
  Run = {r1, r2}
  Context = {c1, c2}
  None = None
  MaxActive = 1
  MaxRetries = 1
  SavesMayFail = TRUE
INVARIANTS
  TypeOK
  EveryExecutionReachable
  WorkersBounded
  StoppedMeansQuiet
  SettledSurvives
  ListedIsKept
  RetryAnnouncedWhileWaiting
PROPERTY StopEnds
