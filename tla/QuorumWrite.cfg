CONSTANTS
    n1 = n1
    n2 = n2
    n3 = n3
    Gateway = Gateway
    q1 = q1
    Nodes = {n1, n2, n3}
    Primary = n1
    W = 2
    Tries = {q1}
    TimesOut = TRUE
    Deployments <- BothModes
SPECIFICATION FairSpec
INVARIANTS TypeOK 
PROPERTIES ReachesRF AlwaysAnswered
CHECK_DEADLOCK FALSE
