SPECIFICATION Spec
CONSTANTS
  SlotCount = 1
  ListCount = 2
  BlockSlots = 16
  Counts = {}
  TimedDays = {1}
  Ats = {1}
  DaysOfWeek = 7
  DayTicks = 4
  Window = 1
  Recent = 2
  AddsPerWalk = 1
INVARIANTS
  CapMeansToday
CHECK_DEADLOCK FALSE
