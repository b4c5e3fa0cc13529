SPECIFICATION Spec
CONSTANTS
  t1 = t1
  t2 = t2
  t3 = t3
  Task = {t1, t2, t3}
  Graphs <- JoinAndLine
  Configs <- Plain
  MaxParallel = 2
  ResultKinds = {"unchanged", "patch"}
  UserCommit = UserCommit
  NoCommit = NoCommit
  MaxUserCommits = 0
  SavesMayFail = FALSE
INVARIANTS
  StartedAfterDependencies
  ReviewsClosed
  BranchInOrder
PROPERTIES
  CompletedWorkKept
  KeepsPromise
