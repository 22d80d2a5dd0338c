CONSTANTS
    s1 = s1
    s2 = s2
    s3 = s3
    Slabs = {s1, s2, s3}
    NumObjects = 5
    NULL = NULL
SYMMETRY Symmetry
SPECIFICATION Spec
INVARIANTS
    ListedByUse
    Accounted
PROPERTY Implements
CHECK_DEADLOCK FALSE
