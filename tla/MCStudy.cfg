SPECIFICATION Spec
CONSTANTS
  Questions = {q1, q2}
  Uids = {d1}
  Long = {}
  MaxRows = 2
  DailyNewLimit = 1
  Notifies = {TRUE, FALSE}
  Given = {1, 4}
  MaxTotal = 3
  MaxDay = 5
INVARIANTS
  TypeOK
  RecordsIndexed
  MasteryIndexed
  DueIndexExact
  QueueWellFormed
