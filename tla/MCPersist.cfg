SPECIFICATION Spec
CONSTANTS
  k1 = k1
  k2 = k2
  k3 = k3
  half = half
  Keys = {k1, k2, k3, half}
  Nameless = half
  HashOf <- MCHashOf
  InitialBuckets = 3
  MaxBuckets = 6
  MaxMemory = 2
  Word = 8
  PoolMax = 3
  MaxSessions = 3
SYMMETRY MCSymmetry
CHECK_DEADLOCK FALSE
INVARIANTS
  ReadsKept
  ListedKept
  CountersKept
  ChainsSound
