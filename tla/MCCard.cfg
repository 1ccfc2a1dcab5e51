SPECIFICATION FairSpec
CONSTANTS
  Given = {1, 4}
  Practice = {"recognition", "usage"}
  Scores = {0}
  MaxEF = 260
  MaxReps = 10
  MaxFails = 3
  MaxDay = 1
INVARIANTS
  ModeFitsCard
PROPERTIES
  SuccessNeverShortensInterval
  MasteredInTheEnd
