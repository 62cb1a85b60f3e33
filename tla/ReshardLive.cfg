CONSTANTS
    a = a
    b = b
    c = c
    Source = Source
    Target = Target
    s1 = s1
    s2 = s2
    Ids = {a, b, c}
    Writes <- QuietTarget
    Sessions = {s1, s2}
    Live = TRUE
    SourceCompacts = TRUE
    CompactsInLoad = FALSE
    TargetCompacts = FALSE
    LoadFails = FALSE
    TimesOut = FALSE
    LossyCalls = TRUE
    CpDies = FALSE
    Forgets = FALSE
    MaxRestarts = 1
    CrashInLoad = FALSE
SPECIFICATION Spec
INVARIANTS TransferExact CompleteMeansLoaded
PROPERTIES RestartKeepsPartition
CHECK_DEADLOCK FALSE
