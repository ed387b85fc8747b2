SPECIFICATION FairSpec
CONSTANTS
    MaxConns = 2
    MaxWrite = 2
INVARIANTS HalfCloseSafe StrandedByEOFOnly NoCrossTalk LateWriteBounded LossReported
PROPERTIES FailureEndsBoth
CHECK_DEADLOCK FALSE
