SPECIFICATION AccessSpec
CONSTANTS
    Sessions = {s1, s2}
    Requests = {r1, r2}
    None = None
    Cap = 1
    Lives = {2}
    Window = 1
    Day = 1
    MaxTime = 1
    MaxSecret = 3
    MaxAuth = 2
    Callers = {r1, r2}
    CatalogModels = {m1}
    MaxPieces = 1
SYMMETRY Symmetry
INVARIANTS HandedAreCommitted RaceRecoverable BornUnderVersion DeletedOwnerUnserved ArgumentsWhole
PROPERTIES NoReturn CacheCoherent
CHECK_DEADLOCK FALSE
