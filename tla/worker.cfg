SPECIFICATION WorkerSpec
CONSTANTS
    Slots = {A, B}
    Models = {Photoreal, AnimeBase}
    Anime = AnimeBase
    MaxParts = 2
    NoPipe = NoPipe
    NoJob = NoJob
    NoNumber = NoNumber
    Infinite = Infinite
    MinusInfinite = MinusInfinite
    NaN = NaN
    Raised = Raised
    Casts <- MCCasts
    Asked <- MCAsked
    Numbers <- MCNumbers
    Caps <- MCCaps
    Totals <- MCTotals
    Frees <- MCFrees
CHECK_DEADLOCK FALSE
INVARIANTS
    WorkerTypeOK
    OneOwner
    DrawsWithItsOwn
    ReferenceMatches
    NeverPoisoned
    ResultIsStored
    AdapterWasTrained
    UpdatesAreWhole
    CapIsAbsolute
    FramesExact
    DimsNeverWiden
    KnobsStayInLimits
PROPERTY
    BarGoesForward
