SPECIFICATION Spec
CONSTANTS
  Threads = {t1, t2}
  FileIds = {f1, f2}
  MaxEntries = 5
  MediaSize = 2
  MaxRead = 1
  MaxNumber = 1
SYMMETRY Symmetric
INVARIANT ReadFileExact
CHECK_DEADLOCK FALSE
