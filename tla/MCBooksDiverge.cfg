\* Producer and signer books with the ring of VDF values full after three
\* blocks: the signer replays every block the producer made.
CONSTANTS
    m = m
    a = a
    Account <- MCAccount
    Mint = m
    Tokens = 2
    Amounts = {1, 2}
    Fees = {0, 2}
    MaxSize = 3
    MaxSubmit = 3
    Datagrams <- MCDatagrams
    MaxRead = 2
SPECIFICATION Spec
INVARIANT ReplicaAgrees
CHECK_DEADLOCK FALSE
