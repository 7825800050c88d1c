\* A complete coding group left in the Frame while FrameGenerator waits.
CONSTANTS
    FrameSize = 6
    NumData = 2
    MaxMissing = 1
    StreamLen = 10
    MaxBatch = 2
    DataSize <- MCSameSize
SPECIFICATION Spec
INVARIANT NoStalledCompleteGroup
