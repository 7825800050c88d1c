\* Gossip table with relaying: one producer and two signers that know only
\* the producer at start and learn of each other through it, one lost
\* datagram, one datagram in flight at a time, fair scheduling.
CONSTANTS
    P = P
    A = A
    B = B
    Node <- MCNode
    Producer = P
    MaxVersion = 1
    MaxChanges = 0
    MaxDrop = 1
    MaxDup = 0
    MaxInFlight = 1
SPECIFICATION FairSpec
INVARIANT TypeOK
PROPERTY Convergence
