CONSTANTS
    PeerFrames <- MCPeerFrames
    OutFrames <- MCOutFrames
    MaxPeerFrames = 0
    MaxSends = 2
    MaxStarts = 1
    SegmentedArrival = FALSE
    PartialWrites = TRUE
    PeerMayClose = FALSE
    ConnectMayFail = FALSE
SPECIFICATION Spec
INVARIANT OutgoingStreamIsSentFrames
CHECK_DEADLOCK FALSE
