SPECIFICATION LiveSpec
CONSTANTS
    Jobs = {j1, j2}
    NoJob = NoJob
    MaxCompleted = 1
    MaxLoras = 1
    Requests <- MCRequests
    LongRequests <- MCLong
    ExpectedToken <- Token
INVARIANTS
    TypeOK
    CompletedIsStored
    StoredCanBeNamed
PROPERTIES
    NoLateClip
    EverythingEnds
CHECK_DEADLOCK FALSE
