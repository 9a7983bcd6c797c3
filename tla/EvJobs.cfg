SPECIFICATION FairSpec
CONSTANTS
  SlotCount = 2
  ListCount = 2
  BlockSlots = 16
  Counts = {0, 1}
  TimedDays = {1, 3}
  Ats = {0}
  DaysOfWeek = 2
  DayTicks = 3
  Window = 1
  Recent = 1
  AddsPerWalk = 1
INVARIANTS
  OncePerDay
  JobSlotsExact
  EachOnce
PROPERTIES
  JobRuns
CHECK_DEADLOCK FALSE
