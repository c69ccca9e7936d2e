SPECIFICATION Spec
CONSTANTS
    Jobs = {j1, j2, j3}
    NoJob = NoJob
    MaxCompleted = 1
    Pollers = {p1}
INVARIANT FailedSaysWhy
