CONSTANTS
    r1 = r1
    r2 = r2
    r3 = r3
    Requests = {r1, r2, r3}
    Threshold = 3
    Cooldown = 3
SPECIFICATION FairSpec
INVARIANTS BreakerTypeOK HalfOpenHasProbe
PROPERTIES OpensAfterStreak Recovers
