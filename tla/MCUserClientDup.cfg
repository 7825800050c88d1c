\* The network duplicates up to two datagrams and reorders them: an extra
\* answer left in the client's socket is taken as the answer of a later
\* call.
CONSTANTS
    MaxVal = 3
    MaxBatches = 3
    MaxLoss = 0
    MaxDup = 2
SPECIFICATION Spec
INVARIANT BatchesFresh
