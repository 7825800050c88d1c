----------------------------- MODULE MCSyncLock -----------------------------
EXTENDS SyncLock
CONSTANTS transporter, syncListener, syncGenerator, repairListener,
          reconstruct, broadcaster

\* pipelines.BlockGenerationFaster and Synchronization: the producer.
ProducerProcs == {broadcaster, syncListener, syncGenerator, repairListener}

\* pipelines.BlockSigner and Synchronization: a signer.
SignerProcs == {transporter, syncListener, syncGenerator, repairListener,
                reconstruct}

MCTask ==
    [p \in ProducerProcs \cup SignerProcs |->
        CASE p = transporter    -> TransporterTask
          [] p = syncListener   -> SyncListenerTask
          [] p = syncGenerator  -> SyncGeneratorTask
          [] p = repairListener -> RepairListenerTask
          [] p = reconstruct    -> ReconstructTask
          [] p = broadcaster    -> BroadcasterTask]
=============================================================================
