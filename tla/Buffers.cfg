SPECIFICATION BufferSpec
CONSTANTS
  BufLength = 3
  GrowUntil = 6
  SizeMod = 64
  t1 = t1
  t2 = t2
  NoType = NoType
  Types = {t1, t2, NoType}
  Sizes = {2, 3, 7}
  MaxParsed = 4
  MaxQueued = 2
INVARIANTS
  AllFit
  NoForeignMessages
  QueuedHaveContent
  BatchesAreBounded
  BufferInv
CHECK_DEADLOCK FALSE
