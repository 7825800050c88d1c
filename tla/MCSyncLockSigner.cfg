\* A signer's tasks on its Sync: Transporter, gossip listener and
\* generator, repair listener, repair request sender.
CONSTANTS
    transporter = transporter
    syncListener = syncListener
    syncGenerator = syncGenerator
    repairListener = repairListener
    reconstruct = reconstruct
    broadcaster = broadcaster
    Proc <- SignerProcs
    Task <- MCTask
SPECIFICATION SignerFairSpec
PROPERTY LockProgress
\* The run ends in the deadlock LockProgress is about.
CHECK_DEADLOCK FALSE
