SPECIFICATION FairSpec
CONSTANTS
  c1 = c1
  c2 = c2
  Clients = {c1, c2}
  Keys = {k}
  Values = {"plain", "line break", "over 4096", "over 65535", "says close"}
  KindOf <- MCKindOf
  RestsOf <- MCRestsOf
  None = None
  MaxCalls <- MCMaxCalls
  Asked <- MCAsked
CHECK_DEADLOCK FALSE
INVARIANTS
  ToldTheTruth
  ExecutedInOrder
PROPERTIES
  EveryCallReturns
  StopsInTheEnd
