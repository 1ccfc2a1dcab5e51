\* Callers batch new keys only; a millisecond may see one look-up more than there are hot slots.
SPECIFICATION Spec
CONSTANTS
  Keys = {k1, k2}
  Group = {k1}
  Sizes = {1, 2}
  TTLs = {0, 1}
  MaxMemory = 2
  HotSize = 1
  PoolMax = 4
  MaxNow = 3
  CallsPerMs = 2
  MaxCandidates = 1
  Careful = TRUE
INVARIANTS TypeOK ReadsLatest NeverOverCommitted CountIsExact ReadableIsListed
PROPERTY PermanentStays
CHECK_DEADLOCK FALSE
VIEW MCView
