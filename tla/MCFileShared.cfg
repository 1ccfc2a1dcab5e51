SPECIFICATION Spec
CONSTANTS
  Clients = {c1, c2}
  Questions = {q1}
  Inodes = {i1, i2, i3, i4}
  None = None
  Alone = FALSE
  WritesFail = TRUE
  MaxKills = 1
PROPERTY
  BrokenFileIsKept
SYMMETRY Interchangeable
CHECK_DEADLOCK FALSE
