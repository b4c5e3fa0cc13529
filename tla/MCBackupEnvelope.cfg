SPECIFICATION Spec
CONSTANTS
  Machine = {laptop, desktop}
  Row = {chat}
  Timed = {chat}
  SharedPassword = TRUE
  MaxWrites = 2
  MaxRows = 1
  MaxCommits = 4
  MaxFaults = 0
SYMMETRY Symmetric
INVARIANTS EnvelopeTravels
CHECK_DEADLOCK FALSE
