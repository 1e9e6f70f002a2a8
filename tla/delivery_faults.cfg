\* Everything the environment can do, two orchestrators.
SPECIFICATION Spec
CONSTANTS
  Server = {s1, s2}
  Conn = {c1, c2}
  Instance = {i1}
  Task = {t1, t2}
  MaxLife = 2
  Faults = {"coalesced_read", "slow_hello", "half_open", "double_connect", "late_prompt", "double_prompt", "slow_disk"}
  None = None
  Absent = Absent
SYMMETRY Symmetry
INVARIANT TypeOK
INVARIANT OneVerdictPerLife
INVARIANT OnlyUnheardLost
 
CHECK_DEADLOCK FALSE
