SPECIFICATION Spec
CONSTANTS
  Machine = {laptop, desktop}
  Row = {chat, server}
  Timed = {chat}
  SharedPassword = FALSE
  MaxWrites = 2
  MaxRows = 1
  MaxCommits = 4
  MaxFaults = 1
SYMMETRY Symmetric
INVARIANTS TypeOK ImportedIsHeld
PROPERTIES ExportKeepsRows TipKeepsRows
CHECK_DEADLOCK FALSE
