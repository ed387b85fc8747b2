SPECIFICATION FairPage
CONSTANTS
    Request = {r1, r2}
    Chunks = 2
    Free = Free
INVARIANTS ReleaseAfterDrain
PROPERTIES PromiseSettled LoopReturns
CHECK_DEADLOCK FALSE
