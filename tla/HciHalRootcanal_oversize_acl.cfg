CONSTANTS
    PeerFrames <- MCOversizeAcl
    OutFrames <- MCOutFrames
    MaxPeerFrames = 1
    MaxSends = 0
    MaxStarts = 1
    SegmentedArrival = FALSE
    PartialWrites = FALSE
    PeerMayClose = FALSE
    ConnectMayFail = FALSE
SPECIFICATION Spec
INVARIANT NoBufferOverflow
CHECK_DEADLOCK FALSE
