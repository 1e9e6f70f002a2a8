\* A prompt that is not waited for, and one that is.
SPECIFICATION Spec
CONSTANTS
  s = s
  p = p
  q = q
  x = x
  Call = {s, p, q}
  Instance = {i}
  Tools <- PromptTools
  MaxWorkers = 1
  MaxCost = 0
  MaxSpent = 0
  MaxBreaks = 0
  Abort = Abort
  None = None
INVARIANT SettledIsAnswered
CHECK_DEADLOCK FALSE
