\* Two calls of tools, two polls at a time, two troubles of any kind; four sockets are enough
\* for one that is registered, two that are left behind and one that is greeted.
SPECIFICATION FairSpec
CONSTANTS
  Conn = {1, 2, 3, 4}
  Call = {k1, k2}
  Poll = {p1, p2}
  MaxTroubles = 2
  MaxTools = 2
  None = None
INVARIANTS
  TypeOK
  OldAddressRefused
  NeverDeaf
  NeverStranded
CHECK_DEADLOCK FALSE

  
  
