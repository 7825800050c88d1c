\* The server reads a batch whose later blob came first: the lower Heights
\* are saved after the higher ones, take the larger transaction ids, and the
\* next trim deletes them, so SQLite hands those ids out again.
CONSTANTS
    MaxTransactionsInBlock <- MCMaxTransactionsInBlock
    TransactionSize = 176
    BlobDataSize = 65536
    DataOffset = 44
    NumData = 2
    TxCounts <- MCTxCounts
    MaxOutputs = 3
    MaxNumberOfBlocks = 2
    CheckInterval = 2
    MaxOffset = 10000
    Limits = {2}
    MaxServerRead = 2
    ReorderWindow = 3
    Clusters = {"ServerNode"}
SPECIFICATION Spec
INVARIANT RowidsNeverReissued
\* After the last output the Batcher and the signers wait for input.
CHECK_DEADLOCK FALSE
