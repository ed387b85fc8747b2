SPECIFICATION FairSpec
CONSTANTS
    RemoteId = {r1, r2}
    MaxSig = 2
    MaxPeers = 2
    Payloads = {"ice", "sdp"}
    SdpCap = 1
    IceCap = 1
INVARIANTS PollerUnique PollerHasSession OrphanHasNoPeer
PROPERTIES PollEnds
CHECK_DEADLOCK FALSE
