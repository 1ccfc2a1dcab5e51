SPECIFICATION Spec
CONSTANTS
  p1 = p1
  p2 = p2
  Points <- MCPoints
  Distance <- MCDistance
  None = None
  HnswThreshold = 2
  InitialCapacity = 2
  M = 1
  EfConstruction = 2
  EfSearch = 2
  Asked = {1, 2}
  MaxLevel = 1
  PoolMax = 4
  MaxExpired = 1
  MaxSessions = 2
SYMMETRY PointSymmetry
CHECK_DEADLOCK FALSE
INVARIANTS
  AllWithinReach
