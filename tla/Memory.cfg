SPECIFICATION MCSpec
CONSTANTS
  SlotCount = 4
  ListCount = 2
  BlockSlots = 2
INVARIANTS
  PoolWellFormed
  ArenaExact
  ContainersHold
PROPERTY
  ImplementsSlotPool
CHECK_DEADLOCK FALSE
