CONSTANTS
    g = g
    a = a
    b = b
    Members = {g, a, b}
    Nodes = {a, b}
    Watchers = {g}
    Probers = {g, a}
    Steady = {}
    Seeds <- MCChain
    Peers <- MCPeers
    Running = {g, a, b}
    EventTTL = 1
    EventCap = 4
    MaxCrashes <- MCCrashes
    MaxProbes <- MCOne
    MaxInFlight = 1
    MaxInc = 1
SPECIFICATION Spec
INVARIANTS RingFollows
PROPERTIES DeadStaysDead
CHECK_DEADLOCK FALSE
