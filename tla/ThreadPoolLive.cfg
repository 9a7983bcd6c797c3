SPECIFICATION FairSpec
CONSTANTS
  SlotCount = 2
  ListCount = 3
  BlockSlots = 16
  WorkerStart = 2
  WorkerGrow = 1
  WorkerMax = 1
  Notify = TRUE
  Logging = FALSE
  CreateMayFail = FALSE
  Kinds = {"none", "reply"}
  MaxJobs = 3
  MaxCancels = 0
  MayDestroy = FALSE
CHECK_DEADLOCK FALSE
INVARIANTS
  JobAccounted
PROPERTIES
  DoneIsCollected
  OnlySleepersStrand
