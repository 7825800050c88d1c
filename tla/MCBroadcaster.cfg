\* Groups of 2 data + 1 coding blob, a 6-slot Frame, batches of up to 2
\* data blobs, so a batch can start inside a coding group and a chunk never
\* spans more than one Frame; the index stops after about two groups. The
\* producer and two signers, whose Sync tables start as NewSync and the
\* signers' insert of the producer leave them and grow in any order, so
\* batches are dropped, sent to one signer and sent to both.
CONSTANTS
    FrameSize = 6
    NumData = 2
    MaxMissing = 1
    MaxBatch = 2
    MaxIndex = 4
    p = p
    s1 = s1
    s2 = s2
    Producer = p
    Signer <- MCSigner
SPECIFICATION FairSpec
INVARIANT TypeOK
INVARIANT CodingPlacement
INVARIANT ParityOverOwnGroup
INVARIANT RelayOneHop
INVARIANT StreamContiguous
PROPERTY Dissemination
\* The input bound ends the stream; the task then waits on its channel.
CHECK_DEADLOCK FALSE
