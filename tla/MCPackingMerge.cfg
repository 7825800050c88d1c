\* A block of a rejected-only output next to the block before it.
CONSTANTS
    MaxTransactionsInBlock <- MCMaxTransactionsInBlock
    TransactionSize = 176
    BlobDataSize = 65536
    DataOffset = 44
    NumData = 2
    TxCounts <- MCTxCounts
    MaxOutputs = 3
    MaxNumberOfBlocks = 2
    CheckInterval = 2
    MaxOffset = 10000
    Limits = {2}
    MaxServerRead = 2
    ReorderWindow = 2
    Clusters = {"ServerNode"}
SPECIFICATION Spec
\* After the last output the Batcher and the signer wait for input.
INVARIANT UnpackInverse
CHECK_DEADLOCK FALSE
