\* Real byte sizes: 64 KiB blobs with a 44-byte header, 176-byte
\* transactions, 370 transactions per block at most. Three transaction
\* outputs of 0, 1 or 371 transactions, groups of two data blobs. The
\* server's table is trimmed to 2 blocks every 2 saves; a REST client pages
\* two blocks at a time, the fewest with which an inclusive offset moves on.
\* The server reads up to two blobs a batch, each any of the three lowest
\* unread ones. A run is one of the two deployments: ProducerNodeWithServer
\* with its BatchSaver goroutines, or a ProducerNode and a ServerNode.
CONSTANTS
    MaxTransactionsInBlock <- MCMaxTransactionsInBlock
    TransactionSize = 176
    BlobDataSize = 65536
    DataOffset = 44
    NumData = 2
    TxCounts <- MCTxCounts
    MaxOutputs = 3
    MaxNumberOfBlocks = 2
    CheckInterval = 2
    MaxOffset = 10000
    Limits = {2}
    MaxServerRead = 2
    ReorderWindow = 3
    Clusters = {"ProducerNodeWithServer", "ServerNode"}
SPECIFICATION Spec
INVARIANT TypeOK
INVARIANT BlobsFit
INVARIANT TransactionsInOrder
INVARIANT DBBounded
INVARIANT PagingSnapshotComplete
\* After the last output the Batcher and the signers wait for input.
CHECK_DEADLOCK FALSE
