SPECIFICATION FairSpec
CONSTANTS
  Fds = {1}
  Filters = {"READ", "WRITE"}
  ChgMax = 1
INVARIANTS
  OwnEvents
  Heard
PROPERTIES
  OnlyOpenCalled
  CloseEnds
