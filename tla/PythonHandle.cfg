SPECIFICATION FairSpec
CONSTANTS
  Threads = {t1, t2}
  Files <- TwoFiles
  MaxRead = 2
  MaxCalls = 3
  Nobody = Nobody
INVARIANTS
  TypeOK
  ReadAtOffsetExact
  EachByteOnce
  PoolOutlivesItsUse
PROPERTIES
  CallsReturn
CHECK_DEADLOCK FALSE
