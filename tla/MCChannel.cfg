SPECIFICATION FairSpec
CONSTANTS
    BatchSize = 2
    BufSize = 2
    QueueCap = 1
    AcceptCap = 1
    MsgSizes = {1, 3}
    ReadSizes = {1, 3}
    MaxSession = 2
    MaxBytes = 3
INVARIANTS Ownership ChunkFits PanicNeedsOverlap StreamInOrder
PROPERTIES PipeSpec ReleaseUnblocks SessionAccepted
CHECK_DEADLOCK FALSE
