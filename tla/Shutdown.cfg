SPECIFICATION Spec
CONSTANTS
  Clients = {c1}
  RingCapacity = 1
  MaxPerRead = 2
  MaxSignals = 2
INVARIANTS
  ShutdownInv
  LateTouchesAreOwn
PROPERTIES
  NoCycleWhileDestroying
  ShutdownEnds
CHECK_DEADLOCK FALSE
