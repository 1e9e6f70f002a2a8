\* Records of up to twice the limit, cut anywhere.
SPECIFICATION FairSpec
CONSTANTS
  MaxFrameBytes = 2
  MaxSize = 4
  MaxRecords = 3
INVARIANTS
  TypeOK
  SentIsHeard
  EveryResultServed
PROPERTIES
  ImplementsRecordReader
CHECK_DEADLOCK FALSE
