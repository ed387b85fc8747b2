SPECIFICATION Spec
CONSTANTS
    Caller = {c1, c2}
    CallTypes = {"web", "scp"}
    MaxInt = 4
    MaxIdx = 3
SYMMETRY Symmetry
INVARIANTS EveryChannelServed
CHECK_DEADLOCK FALSE
