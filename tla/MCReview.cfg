SPECIFICATION ReviewSpec
CONSTANTS
  Questions = {q1, q2}
  Uids = {d1}
  Long = {}
  MaxRows = 2
  Notifies = {FALSE}
  BufferSize = 20
  DailyNewLimit = 1
  Given = {1, 4}
  MaxTotal = 6
  MaxDay = 62
  MaxLazyDay = 5
  MaxCrashes = 1
  MaxFailures = 2
INVARIANTS
  OnlyUnsavedAnswersAtRisk
  ReviewCoversOverdue
PROPERTY
  EverythingMastered
CHECK_DEADLOCK FALSE
