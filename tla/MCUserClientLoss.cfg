\* The network loses one datagram: the call waiting for it never returns.
CONSTANTS
    MaxVal = 3
    MaxBatches = 3
    MaxLoss = 1
    MaxDup = 0
SPECIFICATION FairSpec
PROPERTY ValueUsed
CHECK_DEADLOCK FALSE
