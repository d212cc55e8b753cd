SPECIFICATION Spec
CONSTANTS
    Blobs = {b1}
    Last = 2
    Backoff = 0
    MaxFaults = 0
PROPERTIES
    SwitchIsFinal
