\* One worker at most, one break of the connection, four tool calls.
SPECIFICATION FairSpec
CONSTANTS
  s = s
  p = p
  q = q
  x = x
  Call = {s, p, q, x}
  Instance = {i}
  Tools <- FleetTools
  MaxWorkers = 1
  MaxCost = 0
  MaxSpent = 1
  MaxBreaks = 1
  Abort = Abort
  None = None
INVARIANTS
  LatchEndsWaits
  WaitsTellTruth
  StoppedForGood
  FirstBreachAborts
PROPERTIES
  AnswerHeard
  RequestsEnd
  StopEnds
CHECK_DEADLOCK FALSE
