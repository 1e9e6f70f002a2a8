\* The connection breaks while the agent still prepares the command.
SPECIFICATION Spec
CONSTANTS
  Exec = {x1}
  Conn = {c1}
  MaxConcurrent = 1
  Retain = 1
  MaxOutput = 1
  Watched = {x1}
  None = None
INVARIANT AbortedWithOwner
CHECK_DEADLOCK FALSE
