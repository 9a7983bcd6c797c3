SPECIFICATION FairSpec
CONSTANTS
  SlotCount = 2
  ListCount = 3
  BlockSlots = 16
  WorkerStart = 1
  WorkerGrow = 1
  WorkerMax = 1
  Notify = TRUE
  Logging = FALSE
  CreateMayFail = FALSE
  Kinds = {"none", "silent", "reply"}
  MaxJobs = 2
  MaxCancels = 0
  MayDestroy = TRUE
CHECK_DEADLOCK FALSE
PROPERTIES
  DestroyEnds
