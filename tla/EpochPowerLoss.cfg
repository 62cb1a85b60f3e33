CONSTANTS
    n1 = n1
    g1 = g1
    Nodes = {n1}
    Gateways = {g1}
    Peer = Peer
    Loader = Loader
    PrimaryRepl = FALSE
    CpPowerLoss = TRUE
    NodePowerLoss = FALSE
    MaxEpoch = 2
    MaxRestarts = 2
    MaxRequests = 1
SPECIFICATION FairSpec
INVARIANTS FenceDurable
PROPERTIES AdmissionsNeverGoBack GatewaysCatchUp
