CONSTANTS
    n1 = n1
    n2 = n2
    g1 = g1
    Nodes = {n1, n2}
    Gateways = {g1}
    Peer = Peer
    Loader = Loader
    PrimaryRepl = TRUE
    CpPowerLoss = FALSE
    NodePowerLoss = TRUE
    MaxEpoch = 2
    MaxRestarts = 2
    MaxRequests = 1
SYMMETRY SameNodes
SPECIFICATION Spec
INVARIANTS TypeOK EpochAuthority
PROPERTIES UniqueIssue
