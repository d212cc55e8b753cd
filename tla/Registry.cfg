SPECIFICATION FairSpec
CONSTANTS
    Blobs = {b1}
    Last = 2
    Backoff = 1
    MaxFaults = 2
INVARIANTS
    TypeOK
    ImagesSurviveSwitch
PROPERTIES
    OperatorKeepsS3
    MigrationEnds
