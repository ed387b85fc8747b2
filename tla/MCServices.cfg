SPECIFICATION FairSpec
CONSTANTS
    Dialer = {d1, d2}
    Backend = {b1, b2}
    Empty = Empty
    MaxPeers = 6
INVARIANTS NilOnlyWithoutIds DuplicateNeedsOverlap FatalNeedsReader
PROPERTIES InterruptExits DialReturns
CHECK_DEADLOCK FALSE
