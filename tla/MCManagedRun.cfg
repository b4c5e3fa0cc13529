SPECIFICATION FairSpec
CONSTANTS
  t1 = t1
  t2 = t2
  t3 = t3
  Task = {t1, t2}
  Graphs <- OnlyPair
  Configs <- Edited
  MaxParallel = 2
  ResultKinds = {"patch"}
  UserCommit = UserCommit
  NoCommit = NoCommit
  MaxUserCommits = 0
  SavesMayFail = FALSE
  Id = Id
  Ctx = Ctx
  None = None
  MaxActive = 1
  MaxRetries = 0
PROPERTIES
  IsManaged
  CancelEnds
  ExecutionEnds
