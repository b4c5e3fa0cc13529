SPECIFICATION FairSpec
CONSTANTS
  QueueLimit = 2
  PendingLimit = 2
  HistoryLimit = 2
  WireLimit = 1
  MaxOutput = 4
  MaxFaults = 0
PROPERTIES PublisherGoesOn
CHECK_DEADLOCK FALSE
