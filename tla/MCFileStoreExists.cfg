SPECIFICATION Spec
CONSTANTS
    Key = {k1, k2}
    Path = {p1, p2}
    None = None
    Size = 2
    Faults = TRUE
SYMMETRY Symmetry
INVARIANTS CopiedExists
CHECK_DEADLOCK FALSE
