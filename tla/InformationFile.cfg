SPECIFICATION Spec
CONSTANTS
  Identifiers = {"a", "a-b"}
  HashIdentifiers = {"a"}
  Readable = {"a", "media_type"}
  Texts <- SomeTexts
  HashTexts <- SomeHashTexts
  MediaTexts <- Fixed
  FirstFiles <- Foreign
  LineSize = 5
  MaxValues = 2
  MaxSessions = 2
INVARIANTS
  TypeOK
  ReadBack
  NothingInvented
  LastSetIsFound
