SPECIFICATION Spec
CONSTANTS
  QueueLimit = 2
  PendingLimit = 2
  HistoryLimit = 2
  WireLimit = 1
  MaxOutput = 4
  MaxFaults = 1
INVARIANTS TypeOK ShownOnce NothingForgotten
CHECK_DEADLOCK FALSE
