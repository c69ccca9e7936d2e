SPECIFICATION Spec
CONSTANTS
    Jobs = {j1, j2, j3}
    NoJob = NoJob
    MaxCompleted = 1
    Pollers = {p1}
SYMMETRY Symmetry
INVARIANTS
    TypeOK
    Serial
    QueueExact
    RetentionExact
    FlagOnlyWhenStarted
    CompletedCarriesOutput
PROPERTIES
    AnswersNeverGoBack
    ImplementsLifecycle
