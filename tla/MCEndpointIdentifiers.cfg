SPECIFICATION Spec
CONSTANTS
    Pods = {p, q, r}
    MaxEndpoints = 2
    MaxLag = 0
    MaxFaults = 1
INVARIANTS
    UniqueWhenFresh
    SlicesAgree
PROPERTIES
    StableIds
SYMMETRY Symmetry
