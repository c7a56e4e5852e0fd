SPECIFICATION FairSpec
CONSTANTS
  Radix = 3
  Letters = 2
  Directories <- SomeDirectories
  Asked <- SomeArguments
  ProcessBufferSizes = {0, 1}
  DefaultBufferSize = 8
  DigestTypes = {"sha1"}
  Nothing = Nothing
INVARIANTS
  TypeOK
  GlobFindsTheSet
  PrintedIsWhole
  SuccessMeansVerified
  NothingLeft
  HandlerFindsHandle
  AbortIsPrompt
PROPERTIES
  Ends
CHECK_DEADLOCK FALSE
