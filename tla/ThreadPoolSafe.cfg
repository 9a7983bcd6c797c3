SPECIFICATION Spec
CONSTANTS
  SlotCount = 2
  ListCount = 3
  BlockSlots = 16
  WorkerStart = 1
  WorkerGrow = 1
  WorkerMax = 2
  Notify = TRUE
  Logging = FALSE
  CreateMayFail = TRUE
  Kinds = {"none", "silent", "reply"}
  MaxJobs = 3
  MaxCancels = 1
  MayDestroy = TRUE
CONSTRAINTS
  ThirdJob
  EitherOr
CHECK_DEADLOCK FALSE
INVARIANTS
  JobSlotsWellFormed
  OneOwner
  AtMostOnce
  NoLostCompletion
  NoOvertaking
