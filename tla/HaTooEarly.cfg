SPECIFICATION Spec
CONSTANTS
    Blobs = {b1}
    Last = 1
    Backoff = 0
    MaxFaults = 0
INVARIANTS
    HAMeansRegistryOnS3
