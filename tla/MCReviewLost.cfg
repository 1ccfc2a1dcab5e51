SPECIFICATION ReviewSpec
CONSTANTS
  Questions = {q1, q2}
  Uids = {d1}
  Long = {}
  MaxRows = 2
  Notifies = {FALSE}
  BufferSize = 20
  DailyNewLimit = 2
  Given = {1, 4}
  MaxTotal = 6
  MaxDay = 4
  MaxLazyDay = 4
  MaxCrashes = 0
  MaxFailures = 0
INVARIANT
  NoItemIsLost
CHECK_DEADLOCK FALSE
