SPECIFICATION LiveSpec
CONSTANTS
    Renders = {r1, r2}
    LongCommands = {r2}
    NoRender = NoRender
INVARIANTS
    TypeOK
    ResultIsOwn
    OneWorker
    NoAbandonedRender
PROPERTIES
    ImplementsPromise
    DeathEndsRender
    CancelEndsRender
    ShutdownExits
    OrphansLeave
CHECK_DEADLOCK FALSE
