SPECIFICATION FairSpec
CONSTANTS
    Nodes = {n1, n2, n3}
    Head = n1
    Pods = {p1}
    MaxFaults = 2
    NoNode = NoNode
    NoClaim = NoClaim
INVARIANTS
    TypeOK
PROPERTIES
    SteadyNodesKeepClaims
    PodsRecover
