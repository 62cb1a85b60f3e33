CONSTANTS
    a = a
    b = b
    c = c
    Source = Source
    Target = Target
    s1 = s1
    s2 = s2
    Ids = {a, b, c}
    Writes <- ToTarget
    Sessions = {s1, s2}
    Live = FALSE
    SourceCompacts = FALSE
    CompactsInLoad = FALSE
    TargetCompacts = TRUE
    LoadFails = TRUE
    TimesOut = TRUE
    LossyCalls = FALSE
    CpDies = TRUE
    Forgets = TRUE
    MaxRestarts = 1
    CrashInLoad = TRUE
SPECIFICATION StuckLoaderSpec
INVARIANTS TypeOK LoadingHasLoader FrozenHasOwner
PROPERTIES TransitionsEnd
CHECK_DEADLOCK FALSE
