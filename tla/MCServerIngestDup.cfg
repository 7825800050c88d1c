\* A reliable network that only reorders: one blob overtaken by a later
\* one is requested, and both copies reach the forwarding goroutine.
\* Coding blobs parse to invented blocks, so that they never stop the process.
CONSTANTS
    FrameSize = 4
    NumData = 1
    MaxMissing = 1
    StreamLen = 5
    MaxBatch = 2
    DataSize <- MCSameSize
    R = R
    P = P
    Me = R
    Producer = P
    Table <- MCTable
    MissingCap = 1
    MaxDrop = 0
    MaxRepairDrop = 0
    ParseOutcomes = {"invented"}
SPECIFICATION Spec
INVARIANT SaveNeverFatal
\* The process may end, after which the server takes no step.
CHECK_DEADLOCK FALSE
