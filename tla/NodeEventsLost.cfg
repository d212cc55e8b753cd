SPECIFICATION FairSpec
CONSTANTS
    Nodes = {n1, n2}
    Hashes = {h1, h2}
    Absent = Absent
    Last = 1
    MaxChanges = 2
    MaxFaults = 0
PROPERTIES
    NodeEventsAreSent
