SPECIFICATION Spec
CONSTANTS
    c1 = c1
    c2 = c2
    w1 = w1
    NoPlan = NoPlan
    Versions <- MCTwoVersions
    K0s <- MCTwoK0s
    Controllers <- TwoControllers
    Workers <- OneWorker
    Last = 3
    AirGap = FALSE
    Overlap = FALSE
    MaxFaults = 1
PROPERTY
    NoKubeDowngrade
