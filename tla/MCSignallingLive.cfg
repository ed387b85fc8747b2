SPECIFICATION FairSpec
CONSTANTS
    RemoteId = {r1, r2, r3}
    MaxSig = 1
    MaxPeers = 3
    Payloads = {"ice"}
    SdpCap = 1
    IceCap = 1
PROPERTIES RunProceeds
CHECK_DEADLOCK FALSE
