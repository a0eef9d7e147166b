SPECIFICATION Spec
CONSTANTS
    Names = {a, b, c}
    Sizes = {1, 2, 3}
    StartingOffset = 2
    MaxInt = 11
INVARIANTS
    TypeOK
    DisjointMarks
    NoOverflow
PROPERTIES
    FirstFit
    SearchEnds
    ImplementsOwnership
