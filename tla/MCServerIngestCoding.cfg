\* The first coding blob the server node reads is parsed as blocks.
CONSTANTS
    FrameSize = 4
    NumData = 1
    MaxMissing = 1
    StreamLen = 5
    MaxBatch = 2
    DataSize <- MCSameSize
    R = R
    P = P
    Me = R
    Producer = P
    Table <- MCTable
    MissingCap = 1
    MaxDrop = 0
    MaxRepairDrop = 0
    ParseOutcomes = {"panic", "invented"}
SPECIFICATION Spec
INVARIANT SavesProducedBlocks
\* The process may end, after which the server takes no step.
CHECK_DEADLOCK FALSE
