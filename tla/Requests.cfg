SPECIFICATION MCSpec
CONSTANTS
    PageSize = 2
    FileSize = 3
    MaxReq = 3
    MaxCalls = 3
    Owners = {o1, o2}
SYMMETRY Alike
CONSTRAINT ThirdCall
INVARIANTS
    DiskTellsTruth
    LivesAsReferred
    RequestsAnsweredOnce
    RequestsAccounted
CHECK_DEADLOCK FALSE
