SPECIFICATION Spec
CONSTANTS
    Jobs = {j1, j2}
    NoJob = NoJob
    MaxCompleted = 1
    MaxLoras = 1
    Requests <- MCRequests
    LongRequests <- MCLong
    ExpectedToken <- Token
PROPERTY
    CancelMeansStopped
CHECK_DEADLOCK FALSE
