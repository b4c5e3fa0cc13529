SPECIFICATION Spec
CONSTANTS
  d1 = d1
  d2 = d2
  d3 = d3
  Deps <- Three
  Work = Work
  Foreign = Foreign
  None = None
  MaxOthers = 1
  MaxHistory = 2
INVARIANTS
  TypeOK
  RecordIsTruthful
  SettledInOrder
  ReadyMeansSettled
  WorkAboveBase
  EveryConflictAsked
