SPECIFICATION Spec
CONSTANTS
    Pods = {p, q}
    MaxEndpoints = 2
    MaxLag = 1
    MaxFaults = 0
INVARIANTS
    UniqueIds
