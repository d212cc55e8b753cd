SPECIFICATION Spec
CONSTANTS
    n1 = n1
    n2 = n2
    j1 = j1
    j2 = j2
    Nodes = {n1, n2}
    JobNames = {j1, j2}
    JobOf <- SharedJob
    Last = 1
    Backoff = 0
    MaxFaults = 0
    None = None
INVARIANTS
    ReadyNodesHaveImages
CHECK_DEADLOCK FALSE
