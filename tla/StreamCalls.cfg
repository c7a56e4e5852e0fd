SPECIFICATION FairSpec
CONSTANTS
  Bytes = {a}
  NameLimit = 4
  MaxMedia = 5
  MaxCall = 4
  MaxUnopened = 1
  Faults = {"short write"}
INVARIANT
  FilenameOfOffset
PROPERTY
  CallsReturn
