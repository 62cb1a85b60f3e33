CONSTANTS
    r1 = r1
    r2 = r2
    q1 = q1
    Requests = {r1, r2}
    One = 2
    Rate = 1
    Burst = 2
    Longest = 2
    Calls <- MCCalls
    IdOf <- MCIdOf
    Queries <- MCQueries
    QueueCap = 1
    BatchMax = 2
    MaxInflight = 2
SPECIFICATION FairSpec
INVARIANTS TypeOK RateKept AcceptedOnce
PROPERTIES DeniesOnlyExcess ImplementsLedger AllServed
CHECK_DEADLOCK FALSE
