\* A blob read late puts lower Heights into a table that already holds
\* newer ones, and the trims that follow remove a block newer than one kept.
CONSTANTS
    MaxTransactionsInBlock <- MCMaxTransactionsInBlock
    TransactionSize = 176
    BlobDataSize = 65536
    DataOffset = 44
    NumData = 2
    TxCounts <- MCTxCounts
    MaxOutputs = 3
    MaxNumberOfBlocks = 2
    CheckInterval = 2
    MaxOffset = 10000
    Limits = {2}
    MaxServerRead = 2
    ReorderWindow = 3
    Clusters = {"ServerNode"}
SPECIFICATION Spec
INVARIANT DBKeepsNewest
\* After the last output the Batcher and the signers wait for input.
CHECK_DEADLOCK FALSE
