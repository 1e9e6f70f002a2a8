\* The well-behaved environment: crashes and broken connections only.
SPECIFICATION FairSpec
CONSTANTS
  Server = {s1}
  Conn = {c1, c2, c3}
  Instance = {i1}
  Task = {t1, t2}
  MaxLife = 2
  Faults = {}
  None = None
  Absent = Absent
INVARIANT NoCompletionLost
INVARIANT TaskAccounted
PROPERTY ImplementsAtLeastOnce
PROPERTY CompletionReachesServer
CHECK_DEADLOCK FALSE
