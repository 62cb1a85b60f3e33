CONSTANTS
    Nodes <- MCNodes
    Peers = {1, 2, 3}
    Layouts <- MCLayouts
    Keys = {1, 4, 7}
    RFs = {1, 3}
    MaxTurns = 2
SPECIFICATION Spec
INVARIANTS Deterministic CountedOnce
PROPERTIES OnlyNeighboursMove GoesToReplicas
