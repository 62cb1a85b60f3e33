CONSTANTS
    a = a
    b = b
    Ids = {a, b}
    BigIds = {}
    Idempotent = TRUE
    Second = 2
    TTL = 2
    Window = 1
    Threshold = 2
    CrashInCompact = FALSE
    PowerLoss = TRUE
    Torn = FALSE
    MaxTime = 5
    MaxAppends = 5
    MaxRestarts = 2
SPECIFICATION Spec
INVARIANTS WellFormed NeverOvercounts
PROPERTIES DedupWindow RestartKeeps ImplementsJournal
