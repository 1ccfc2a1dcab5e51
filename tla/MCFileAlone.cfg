SPECIFICATION Spec
CONSTANTS
  Clients = {c1, c2}
  Questions = {q1, q2, q3}
  Inodes = {i1, i2}
  None = None
  Alone = TRUE
  WritesFail = TRUE
  MaxKills = 2
INVARIANTS
  TypeOK
  TargetComplete
  StoredStays
PROPERTY
  SaveIsAtomic
SYMMETRY Interchangeable
CHECK_DEADLOCK FALSE
