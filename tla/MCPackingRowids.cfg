\* The producer's database: BatchSaver goroutines saving batches out of order.
CONSTANTS
    MaxTransactionsInBlock <- MCMaxTransactionsInBlock
    TransactionSize = 176
    BlobDataSize = 65536
    DataOffset = 44
    NumData = 2
    TxCounts <- MCTxCounts
    MaxOutputs = 3
    MaxNumberOfBlocks = 2
    CheckInterval = 2
    MaxOffset = 10000
    Limits = {2}
    MaxServerRead = 2
    ReorderWindow = 2
    Clusters = {"ProducerNodeWithServer"}
SPECIFICATION Spec
\* Violated: batch 2 is saved before batch 1, the next size check deletes
\* batch 1's rows, which hold the largest ids, and the next id is reissued.
INVARIANT ProducerRowidsNeverReissued
CHECK_DEADLOCK FALSE
