SPECIFICATION WorkerSpec
CONSTANTS
    Slots = {A, B}
    Models = {Photoreal, AnimeBase}
    Anime = AnimeBase
    MaxParts = 2
    NoPipe = NoPipe
    NoJob = NoJob
    NoNumber = NoNumber
    Infinite = Infinite
    MinusInfinite = MinusInfinite
    NaN = NaN
    Raised = Raised
    Casts <- MCCasts
    Asked <- MCAsked
    Numbers <- MCNumbers
    Caps <- MCCaps
    Totals <- MCTotals
    Frees <- MCFrees
INVARIANT
    KnobsAreForgiving
CHECK_DEADLOCK FALSE
