SPECIFICATION Spec
CONSTANTS
    c1 = c1
    c2 = c2
    w1 = w1
    NoPlan = NoPlan
    Versions <- MCVersions
    K0s <- MCK0s
    Controllers <- OneController
    Workers <- OneWorker
    Last = 3
    AirGap = FALSE
    Overlap = FALSE
    MaxFaults = 1
INVARIANT
    AddonsOnDesiredK0s
