SPECIFICATION FairSpec

CONSTANTS
  c1 = c1
  c2 = c2
  c3 = c3
  c4 = c4
  c5 = c5
  Exports <- FiveCalls
  MAX_CONCURRENT = 2
  MAX_QUEUED = 2

INVARIANTS
  TypeOK
  NoIdleSlot

PROPERTIES
  IsSlotPool
  QueueDrains
