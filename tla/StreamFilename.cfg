SPECIFICATION Spec
CONSTANTS
  Bytes = {a}
  NameLimit = 4
  MaxMedia = 2
  MaxCall = 2
  MaxUnopened = 1
  Faults = {"pool open"}
INVARIANT
  FilenameOfOffset
