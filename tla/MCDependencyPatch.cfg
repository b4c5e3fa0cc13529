SPECIFICATION Spec
CONSTANTS
  d1 = d1
  d2 = d2
  d3 = d3
  Deps <- Two
  Work = Work
  Foreign = Foreign
  None = None
  MaxOthers = 1
  MaxHistory = 2
INVARIANT PatchIsOwn
