SPECIFICATION Spec
CONSTANTS
  c1 = c1  c2 = c2  o1 = o1  s1 = s1  s2 = s2  r1 = r1  r2 = r2  d1 = d1  d2 = d2
  Client = {c1, c2}
  Owner = {o1}
  Source = {s1, s2}
  Ref = {r1, r2}
  Digest = {d1, d2}
  Draft = {draft}
  Version <- MCVersion
  LegacyPlan <- MCLegacyPlan
  NoCheckpoint = NoCheckpoint
  NoClient = NoClient
  MaxRevision = 4
  MaxRetained = 3
  MaxCalls = 4
  MaxFaults = 1
SYMMETRY Symmetric
INVARIANTS TypeOK RetainedIntact
PROPERTIES HoldsUntilReleased ApprovalsAreGiven NoLostUpdate
CHECK_DEADLOCK FALSE
