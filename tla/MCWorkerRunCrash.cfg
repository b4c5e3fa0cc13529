SPECIFICATION Spec
CONSTANTS
  t1 = t1
  t2 = t2
  t3 = t3
  Task = {t1, t2}
  Graphs <- OnlyPair
  Configs <- Retrying
  MaxParallel = 2
  ResultKinds = {"patch"}
  UserCommit = UserCommit
  NoCommit = NoCommit
  MaxUserCommits = 1
  SavesMayFail = TRUE
INVARIANTS
  TypeOK
  CopiesAgree
  NoStrandedTask
  MergesRecoverable
PROPERTIES
  MergedForever
  CancelStops
