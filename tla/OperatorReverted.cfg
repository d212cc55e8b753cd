SPECIFICATION FairSpec
CONSTANTS
    c1 = c1
    c2 = c2
    w1 = w1
    NoPlan = NoPlan
    Versions <- MCTwoVersions
    K0s <- MCTwoK0s
    Controllers <- OneController
    Workers <- OneWorker
    Last = 2
    AirGap = FALSE
    Overlap = FALSE
    MaxFaults = 0
PROPERTY
    NewOperatorTakesOver
