SPECIFICATION Spec
CONSTANTS
    Pods = {p, q}
    MaxEndpoints = 1
    MaxLag = 1
    MaxFaults = 1
INVARIANTS
    TypeOK
    NoNewDuplicates
PROPERTIES
    Settles
