SPECIFICATION FairMpmcSpec
CONSTANTS
  p1 = p1
  p2 = p2
  k1 = k1
  k2 = k2
  v1 = v1
  v2 = v2
  NoValue = NoValue
  Producers = {p1, p2}
  Consumers = {k1, k2}
  Values = {v1, v2}
  Capacity = 2
  MaxPushes = 5
INVARIANTS
  MpmcInv
  NoTwoInSlot
  TakenAsPushed
  SlotLifetimes
PROPERTIES
  PushEnds
  IsFifo
