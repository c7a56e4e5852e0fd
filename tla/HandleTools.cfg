SPECIFICATION Spec
CONSTANTS
  Stems = {s, t}
  Values = {v}
  MaxMedia = 1
  DefaultSize = 1
  NameLimit = 2
  CallerPools = FALSE
  NoName = NoName
  Programs <- ReaderOrWriter
  Faults <- Retryable
SYMMETRY StemSymmetry
INVARIANTS
  OpenHandleCanClose
  InformationFileMatches
