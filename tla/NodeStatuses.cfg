SPECIFICATION FairSpec
CONSTANTS
    Nodes = {n1, n2}
    Hashes = {h1}
    Absent = Absent
    Last = 2
    MaxChanges = 4
    MaxFaults = 1
INVARIANTS
    TypeOK
    RepeatedOnlyFromOldLists
    PreflightsBeforeStatus
PROPERTIES
    StatusesFollowNodes
    OldInstallationsRetired
