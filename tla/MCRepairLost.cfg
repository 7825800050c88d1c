\* A lost repair Request or response is never sent again once the stream
\* stops: the same instance with one repair datagram lost.
\* (MaxRepairDrop 1)
CONSTANTS
    FrameSize = 4
    NumData = 1
    MaxMissing = 1
    StreamLen = 5
    MaxBatch = 2
    DataSize <- MCSameSize
    R = R
    P = P
    O = O
    Me = R
    Producer = P
    Table <- MCTable
    MissingCap = 1
    MaxDrop = 2
    MaxRepairDrop = 1
SPECIFICATION LossyFairSpec
PROPERTY GroupsDelivered
\* The stream may stop for good with blobs lost: R then has nothing to do.
CHECK_DEADLOCK FALSE
