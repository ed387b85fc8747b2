SPECIFICATION Spec
CONSTANTS
    Key = {k1, k2}
    Path = {p1, p2}
    None = None
    Size = 2
    Faults = TRUE
SYMMETRY Symmetry
INVARIANTS LinkedHasRecord
PROPERTIES LinkedUnchanged StoreSpec
CHECK_DEADLOCK FALSE
