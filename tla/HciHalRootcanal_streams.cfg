CONSTANTS
    PeerFrames <- MCPeerFrames
    OutFrames <- MCOutFrames
    MaxPeerFrames = 3
    MaxSends = 3
    MaxStarts = 1
    SegmentedArrival = FALSE
    PartialWrites = FALSE
    PeerMayClose = TRUE
    ConnectMayFail = TRUE
SPECIFICATION FairSpec
INVARIANT WriteArmedOnlyWithFrames
PROPERTY QueuedFramesDrain
PROPERTY ImplementsChannel
CHECK_DEADLOCK FALSE
