SPECIFICATION FairSpec
CONSTANTS
  Threads = {t1, t2}
  FileIds = {f1, f2}
  MaxEntries = 5
  MediaSize = 2
  MaxRead = 2
  MaxNumber = 2
INVARIANTS
  TypeOK
  EntriesAreHeld
  ListedResolves
  FuseReadsExact
PROPERTIES
  CallbacksReturn
CHECK_DEADLOCK FALSE
