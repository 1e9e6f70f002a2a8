\* Two commands on one connection, capacity for one.
SPECIFICATION FairSpec
CONSTANTS
  Exec = {x1, x2}
  Conn = {c1}
  MaxConcurrent = 1
  Retain = 1
  MaxOutput = 2
  Watched = {x1}
  None = None
INVARIANT TailShown
INVARIANT NoFalseExit
INVARIANT NoWaiterMissed
PROPERTY EveryCommandEnds
PROPERTY ExitArrives
CHECK_DEADLOCK FALSE
