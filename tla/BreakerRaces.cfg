SPECIFICATION FairSpec
CONSTANTS
  p1 = p1
  p2 = p2
  c1 = c1
  c2 = c2
  Procs = {p1, p2}
  Calls = {c1, c2}
  Placements <- MCPlacements
  Tokens = {k1, k2, k3}
  FailureThreshold = 1
  SuccessThreshold = 2
  MaxProbes = 1
  None = None
INVARIANTS
  ProbesWithinLimit
PROPERTIES
  OnlyProbesDecide
  KeepsContract
  ObjectsKeepContract
  Recovers
