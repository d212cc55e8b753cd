SPECIFICATION FairSpec
CONSTANTS
    r = r
    a = a
    b = b
    Charts = {r, a, b}
    Registry = r
    Versions = {1, 2}
    Last = 3
    VersionOf <- MCVersionOf
    Release <- MCRelease
    Repository <- MCRepository
    Broken <- MCBroken
    MaxFaults = 2
    Absent = Absent
INVARIANTS
    TypeOK
PROPERTIES
    InstalledMeansApplied
    TLSIsKept
    ErrorsDoNotStopDeployment
