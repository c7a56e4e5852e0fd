SPECIFICATION Spec
CONSTANTS
  Bytes = {a, b}
  NameLimit = 4
  MaxMedia = 4
  MaxCall = 3
  MaxUnopened = 1
  Faults = {"pool open", "write", "short write", "read"}
INVARIANTS
  TypeOK
  SegmentsHaveFiles
  FullButTheLast
  ReadsAreExact
PROPERTY
  MediaIsLinear
