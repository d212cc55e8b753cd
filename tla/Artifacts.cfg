SPECIFICATION FairSpec
CONSTANTS
    n1 = n1
    n2 = n2
    j1 = j1
    j2 = j2
    Nodes = {n1, n2}
    JobNames = {j1, j2}
    JobOf <- OwnJobs
    Last = 2
    Backoff = 1
    MaxFaults = 1
    None = None
INVARIANTS
    TypeOK
    SucceededMeansImages
    ReadyNodesHaveImages
PROPERTIES
    EveryCommandEnds
CHECK_DEADLOCK FALSE
