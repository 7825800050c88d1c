\* The producer's tasks on its Sync: Broadcaster, gossip listener and
\* generator, repair listener.
CONSTANTS
    transporter = transporter
    syncListener = syncListener
    syncGenerator = syncGenerator
    repairListener = repairListener
    reconstruct = reconstruct
    broadcaster = broadcaster
    Proc <- ProducerProcs
    Task <- MCTask
SPECIFICATION FairSpec
INVARIANT TypeOK
PROPERTY LockProgress
