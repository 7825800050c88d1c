\* A signer's tasks on its Sync, Reconstruct's unlocked RandomNode among them.
CONSTANTS
    transporter = transporter
    syncListener = syncListener
    syncGenerator = syncGenerator
    repairListener = repairListener
    reconstruct = reconstruct
    broadcaster = broadcaster
    Proc <- SignerProcs
    Task <- MCTask
SPECIFICATION SignerFairSpec
PROPERTY MapRaceFree
\* The signer's Sync may deadlock (run lock_signer); that is not this question.
CHECK_DEADLOCK FALSE
