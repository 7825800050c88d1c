\* The experiment over a reliable network: three producer values, so the
\* poller sees a value twice, a value skipped and the last value; a batch
\* for every value at most.
CONSTANTS
    MaxVal = 3
    MaxBatches = 3
    MaxLoss = 0
    MaxDup = 0
SPECIFICATION FairSpec
INVARIANT TypeOK
INVARIANT BatchesFresh
PROPERTY ValueUsed
