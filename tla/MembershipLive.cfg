CONSTANTS
    g = g
    a = a
    b = b
    Members = {g, a, b}
    Nodes = {}
    Watchers = {}
    Probers = {g, a}
    Steady = {g}
    Seeds <- MCHelp
    Peers <- MCPeers
    Running = {g, a, b}
    EventTTL = 1
    EventCap = 5
    MaxCrashes <- MCCrashes
    MaxProbes <- MCTwo
    MaxInFlight = 1
    MaxInc = 0
SPECIFICATION FairSpec
INVARIANTS TypeOK
PROPERTIES Completeness
CHECK_DEADLOCK FALSE
