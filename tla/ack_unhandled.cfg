\* Completions that arrive before the orchestrator set its handler.
SPECIFICATION Spec
CONSTANTS
  Server = {s1}
  Conn = {c1, c2}
  Instance = {i1}
  Task = {t1}
  MaxLife = 1
  Faults = {"coalesced_read", "slow_hello"}
  None = None
  Absent = Absent
INVARIANT AckedAfterHandled
CHECK_DEADLOCK FALSE
