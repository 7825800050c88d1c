\* Repair heals stream losses: coding groups of 1 data + 1 coding blob, a
\* 4-slot Frame and a 5-blob stream (the last blob overwrites the
\* producer's slot 0), two lost stream blobs, reliable repair datagrams.
CONSTANTS
    FrameSize = 4
    NumData = 1
    MaxMissing = 1
    StreamLen = 5
    MaxBatch = 2
    DataSize <- MCSameSize
    R = R
    P = P
    O = O
    Me = R
    Producer = P
    Table <- MCTable
    MissingCap = 1
    MaxDrop = 2
    MaxRepairDrop = 0
SPECIFICATION FairSpec
INVARIANT TypeOK
PROPERTY GroupsDelivered
PROPERTY ImplementsStream
\* The stream may stop for good with blobs lost: R then has nothing to do.
CHECK_DEADLOCK FALSE
