\* A signer's pipeline with every task healthy: channels of capacity 1,
\* four inbound batches, up to two decoded groups per batch.
CONSTANTS
    Cap = 1
    MaxIn = 4
    MaxGroups = 2
SPECIFICATION FairSpec
INVARIANT TypeOK
PROPERTY TransportProgress
PROPERTY ReplicationProgress
\* The pipeline stops when the socket has no more batches.
CHECK_DEADLOCK FALSE
