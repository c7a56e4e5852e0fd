SPECIFICATION Spec
CONSTANTS
  Stems = {s}
  Values = {}
  MaxMedia = 1
  DefaultSize = 1
  NameLimit = 2
  CallerPools = FALSE
  NoName = NoName
  Programs <- AnyAndReader
  Faults = {}
PROPERTY
  ReadSessionKeepsFiles
