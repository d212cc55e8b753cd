SPECIFICATION Spec
CONSTANTS
    r = r
    a = a
    b = b
    Charts = {r, a, b}
    Registry = r
    Versions = {1, 2}
    Last = 3
    VersionOf <- MCVersionOf
    Release <- Returning
    Repository <- MCRepository
    Broken <- MCBroken
    MaxFaults = 0
    Absent = Absent
PROPERTIES
    InstalledMeansApplied
