CONSTANTS
    a = a
    b = b
    c = c
    Source = Source
    Target = Target
    s1 = s1
    Ids = {a, b, c}
    Writes <- OneEach
    Sessions = {s1}
    Live = TRUE
    SourceCompacts = FALSE
    CompactsInLoad = FALSE
    TargetCompacts = FALSE
    LoadFails = FALSE
    TimesOut = FALSE
    LossyCalls = FALSE
    CpDies = FALSE
    Forgets = FALSE
    MaxRestarts = 0
    CrashInLoad = FALSE
SPECIFICATION Spec
INVARIANTS BufferedIsReplayed
CHECK_DEADLOCK FALSE
