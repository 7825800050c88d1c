\* Data blobs of two sizes: recovered blobs keep a stale Size.
CONSTANTS
    FrameSize = 6
    NumData = 2
    MaxMissing = 1
    StreamLen = 10
    MaxBatch = 2
    DataSize <- MCMixedSize
SPECIFICATION Spec
INVARIANT DeliveredIntact
