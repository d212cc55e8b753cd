SPECIFICATION FairSpec
CONSTANTS
    r = r
    a = a
    b = b
    Charts = {r, a, b}
    Registry = r
    Versions = {1, 2}
    Last = 3
    VersionOf <- MCVersionOf
    Release <- RemovalOnly
    Repository <- MCRepository
    Broken <- MCBroken
    MaxFaults = 0
    Absent = Absent
PROPERTIES
    ErrorsDoNotStopDeployment
