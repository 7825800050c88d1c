\* Gossip table under a hostile network: producer and one signer, both
\* changing their record once, up to two datagrams in flight (so replies
\* overtake each other), one lost and one duplicated datagram, fair
\* scheduling.
CONSTANTS
    P = P
    A = A
    B = B
    Node <- MCNode2
    Producer = P
    MaxVersion = 1
    MaxChanges = 2
    MaxDrop = 1
    MaxDup = 1
    MaxInFlight = 2
SPECIFICATION FairSpec
INVARIANT TypeOK
INVARIANT PullCompleteness
PROPERTY Convergence
PROPERTY NodesCounted
