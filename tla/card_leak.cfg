SPECIFICATION Spec
CONSTANTS
    Slots = {A, B}
    Models = {Photoreal, AnimeBase}
    Anime = AnimeBase
    MaxParts = 2
    NoPipe = NoPipe
    NoJob = NoJob
SYMMETRY Symmetry
INVARIANT NextJobStartsClean
