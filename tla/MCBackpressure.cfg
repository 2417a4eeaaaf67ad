SPECIFICATION FairSpec
CONSTANTS
  Callers = {c1, c2, c3, c4}
  MaxConcurrent = 2
  MaxQueue = 2
INVARIANTS
  SlotsCounted
  NoIdleSlot
PROPERTIES
  ImplementsSemaphore
  WaitersServed
