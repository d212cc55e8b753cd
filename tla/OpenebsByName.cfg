SPECIFICATION Spec
CONSTANTS
    Nodes = {n1, n2, n3}
    Head = n1
    Pods = {p1}
    MaxFaults = 0
    NoNode = NoNode
    NoClaim = NoClaim
PROPERTIES
    RunningPodsKept
