SPECIFICATION PublisherSpec
CONSTANTS
  a = a
  b = b
  bar = bar
  Bar = bar
  Characters <- MCCharacters
  NoType <- MCNoType
  Base = 2
  SizeMod = 1000
  BufLength = 4
  MaxParsed = 3
  MaxQueued = 6
  GrowUntil = 9
  Types <- MCTypes
  Numerals <- MCNumerals
  Contents <- MCContents
  Sizes = {3, 4, 5, 6, 7, 8, 9}
  MaxMessages = 3
  MaxReadBuf = 16
INVARIANTS
  ParsedAsWritten
  ReadIsParsed
  HeldOnlyInsideMessage
  BatchedInOrder
PROPERTIES
  BufferSpec
CHECK_DEADLOCK FALSE
