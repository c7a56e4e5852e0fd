SPECIFICATION Spec
CONSTANTS
  Stems = {s}
  Values = {}
  MaxMedia = 3
  DefaultSize = 2
  NameLimit = 3
  CallerPools = TRUE
  NoName = NoName
  Programs <- AnyAndReader
  Faults <- AllFaults
INVARIANTS
  TypeOK
  SessionStateAgrees
  
  LayoutIsFrozen
  InformationFileMatches
  ClosedHandleCanOpen
PROPERTY
  ReadersNeverWrite
CHECK_DEADLOCK FALSE
