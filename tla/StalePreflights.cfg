SPECIFICATION Spec
CONSTANTS
    Nodes = {n1, n2}
    Hashes = {h1, h2}
    Absent = Absent
    Last = 2
    MaxChanges = 4
    MaxFaults = 0
INVARIANTS
    JobSinceLastWithout
