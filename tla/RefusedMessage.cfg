SPECIFICATION PublisherSpec
CONSTANTS
  a = a
  b = b
  bar = bar
  Bar = bar
  Characters <- MCCharacters
  NoType <- MCNoType
  Base = 2
  SizeMod = 1000
  BufLength = 4
  MaxParsed = 3
  MaxQueued = 6
  GrowUntil = 10
  Types <- MCOneType
  Numerals <- MCNumerals
  Contents <- MCOneContent
  Sizes = {5}
  MaxMessages = 3
  MaxReadBuf = 16
INVARIANTS
  EveryMessageIsBatched
CHECK_DEADLOCK FALSE
