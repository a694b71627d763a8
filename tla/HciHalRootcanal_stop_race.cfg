CONSTANTS
    PeerFrames <- MCPeerFrames
    OutFrames <- MCOutFrames
    MaxPeerFrames = 1
    MaxSends = 1
    MaxStarts = 1
    SegmentedArrival = FALSE
    PartialWrites = FALSE
    PeerMayClose = FALSE
    ConnectMayFail = FALSE
SPECIFICATION Spec
INVARIANT StopQuiescesReactor
CHECK_DEADLOCK FALSE
