------------------------------ MODULE Pipeline ------------------------------
(***************************************************************************)
(* The tasks of a signer's block pipeline (pipelines.BlockSigner) and the  *)
(* bounded channels between them:                                          *)
(*                                                                         *)
(*   replication socket -> BlobGenerator -> blobsReceiver -> forwarder     *)
(*   forwarder -> replicationBlobs -> FrameGenerator -> doneBlobs -> New   *)
(*   forwarder -> transportBlobs -> Transporter                            *)
(*   FrameGenerator -> missingIndexes -> Reconstruct's request sender      *)
(*                                                                         *)
(* Inbound batches are numbered in the order BlobGenerator reads them; as  *)
(* every channel is FIFO, a channel is the range of numbers put on it and  *)
(* not yet taken, and is kept as those two counters. What processBlobs     *)
(* decodes is abstracted to the sequence of sends it makes per batch:      *)
(* some decoded groups on doneBlobs, then possibly one missing-index list. *)
(***************************************************************************)
EXTENDS Naturals, Sequences

CONSTANTS
    Cap,        \* capacity of every channel (signerChannelCapacity, 10)
    MaxIn,      \* inbound batches read from the replication socket
    MaxGroups   \* most groups one processBlobs call decodes

ASSUME Cap \in Nat \ {0} /\ MaxIn \in Nat /\ MaxGroups \in Nat

VARIABLES
    read,         \* batches BlobGenerator put on blobsReceiver
    fwdTaken,     \* batches the forwarder took from blobsReceiver
    fwdAt,        \* where the forwarder is: "recv", or blocked sending to
                  \* "repl" or "trans"
    replPut,      \* batches put on replicationBlobs
    transPut,     \* batches put on transportBlobs
    fgTaken,      \* batches FrameGenerator took from replicationBlobs
    fgOut,        \* sends processBlobs has still to make for its batch
    donePut,      \* decoded batches put on doneBlobs
    processed,    \* decoded batches New took and handed to ProcessBlocks
    missPut,      \* lists put on missingIndexes
    missTaken,    \* lists Reconstruct's sender took
    transported,  \* batches the Transporter took
    rep,          \* New's goroutine: "run", or "stopped" after its break
                  \* (only in the mutant below: ProcessBlocks returns nil)
    tr            \* the Transporter: "run", or "stuck" (only in the mutant)

vars == <<read, fwdTaken, fwdAt, replPut, transPut, fgTaken, fgOut, donePut,
          processed, missPut, missTaken, transported, rep, tr>>

MaxDone == MaxIn * MaxGroups

(* Occupancy of a channel. *)
InChan(put, taken) == put - taken

TypeOK ==
    /\ read \in 0..MaxIn /\ fwdTaken \in 0..read
    /\ fwdAt \in {"recv", "repl", "trans"}
    /\ replPut \in 0..fwdTaken /\ transPut \in 0..replPut
    /\ fgTaken \in 0..replPut
    /\ fgOut \in Seq({"done", "miss"})
    /\ donePut \in 0..MaxDone /\ processed \in 0..donePut
    /\ missPut \in 0..MaxIn /\ missTaken \in 0..missPut
    /\ transported \in 0..transPut
    /\ rep \in {"run", "stopped"} /\ tr \in {"run", "stuck"}
    /\ \A q \in {InChan(read, fwdTaken), InChan(replPut, fgTaken),
                 InChan(transPut, transported), InChan(donePut, processed),
                 InChan(missPut, missTaken)} : q <= Cap

Init ==
    /\ read = 0 /\ fwdTaken = 0 /\ fwdAt = "recv"
    /\ replPut = 0 /\ transPut = 0 /\ fgTaken = 0 /\ fgOut = <<>>
    /\ donePut = 0 /\ processed = 0 /\ missPut = 0 /\ missTaken = 0
    /\ transported = 0 /\ rep = "run" /\ tr = "run"

-----------------------------------------------------------------------------
(* BlobGenerator: a read with n > 0 blobs goes on blobsReceiver, blocking  *)
(* while it is full.                                                       *)
BlobGenerator ==
    /\ read < MaxIn
    /\ InChan(read, fwdTaken) < Cap
    /\ read' = read + 1
    /\ UNCHANGED <<fwdTaken, fwdAt, replPut, transPut, fgTaken, fgOut, donePut,
                   processed, missPut, missTaken, transported, rep, tr>>

(* The forwarding goroutine of BlockSigner: take a batch, send it to      *)
(* replicationBlobs, then to transportBlobs; each send blocks while its    *)
(* channel is full. Saving the blocks to a database, when one is given,   *)
(* touches no channel and is left out.                                     *)
ForwardTake ==
    /\ fwdAt = "recv" /\ InChan(read, fwdTaken) > 0
    /\ fwdTaken' = fwdTaken + 1 /\ fwdAt' = "repl"
    /\ UNCHANGED <<read, replPut, transPut, fgTaken, fgOut, donePut, processed,
                   missPut, missTaken, transported, rep, tr>>

ForwardRepl ==
    /\ fwdAt = "repl" /\ InChan(replPut, fgTaken) < Cap
    /\ replPut' = replPut + 1 /\ fwdAt' = "trans"
    /\ UNCHANGED <<read, fwdTaken, transPut, fgTaken, fgOut, donePut, processed,
                   missPut, missTaken, transported, rep, tr>>

ForwardTrans ==
    /\ fwdAt = "trans" /\ InChan(transPut, transported) < Cap
    /\ transPut' = transPut + 1 /\ fwdAt' = "recv"
    /\ UNCHANGED <<read, fwdTaken, replPut, fgTaken, fgOut, donePut, processed,
                   missPut, missTaken, transported, rep, tr>>

(* FrameGenerator reads a batch; processBlobs decodes k groups and may     *)
(* then break with a missing-index list.                                   *)
FrameGeneratorTake ==
    /\ fgOut = <<>> /\ InChan(replPut, fgTaken) > 0
    /\ fgTaken' = fgTaken + 1
    /\ \E k \in 0..MaxGroups, miss \in BOOLEAN :
          fgOut' = [i \in 1..k |-> "done"] \o (IF miss THEN <<"miss">> ELSE <<>>)
    /\ UNCHANGED <<read, fwdTaken, fwdAt, replPut, transPut, donePut, processed,
                   missPut, missTaken, transported, rep, tr>>

(* recoverBlobs: doneBlobs <- recoveredBlobs, blocking while it is full.   *)
RecoverBlobs ==
    /\ fgOut # <<>> /\ Head(fgOut) = "done"
    /\ InChan(donePut, processed) < Cap
    /\ donePut' = donePut + 1 /\ fgOut' = Tail(fgOut)
    /\ UNCHANGED <<read, fwdTaken, fwdAt, replPut, transPut, fgTaken, processed,
                   missPut, missTaken, transported, rep, tr>>

(* processBlobs: missingIndexes <- indexes, blocking while it is full.     *)
SendMissing ==
    /\ fgOut # <<>> /\ Head(fgOut) = "miss"
    /\ InChan(missPut, missTaken) < Cap
    /\ missPut' = missPut + 1 /\ fgOut' = Tail(fgOut)
    /\ UNCHANGED <<read, fwdTaken, fwdAt, replPut, transPut, fgTaken, donePut,
                   processed, missTaken, transported, rep, tr>>

(* Reconstruct's sender takes a list; its UDP writes do not block.         *)
SendRequests ==
    /\ InChan(missPut, missTaken) > 0
    /\ missTaken' = missTaken + 1
    /\ UNCHANGED <<read, fwdTaken, fwdAt, replPut, transPut, fgTaken, fgOut,
                   donePut, processed, missPut, transported, rep, tr>>

(* Mutant: the error test inverted, so New breaks after a batch the       *)
(* ledger accepted.                                                        *)
ReplicateBreakOnSuccess ==
    /\ rep = "run" /\ InChan(donePut, processed) > 0
    /\ processed' = processed + 1 /\ rep' = "stopped"
    /\ UNCHANGED <<read, fwdTaken, fwdAt, replPut, transPut, fgTaken, fgOut,
                   donePut, missPut, missTaken, transported, tr>>

(* Mutant: a receive that does not wait for a batch. *)
ReplicateNoWait ==
    /\ rep = "run"
    /\ processed' = processed + 1
    /\ UNCHANGED <<read, fwdTaken, fwdAt, replPut, transPut, fgTaken, fgOut,
                   donePut, missPut, missTaken, transported, rep, tr>>

(* replication.New takes a decoded batch and ProcessBlocks accepts it.     *)
Replicate ==
    /\ rep = "run" /\ InChan(donePut, processed) > 0
    /\ processed' = processed + 1
    /\ UNCHANGED <<read, fwdTaken, fwdAt, replPut, transPut, fgTaken, fgOut,
                   donePut, missPut, missTaken, transported, rep, tr>>

(* Mutant: the Transporter returns after its first batch. *)
TransporterOnce ==
    /\ tr = "run" /\ InChan(transPut, transported) > 0
    /\ transported' = transported + 1 /\ tr' = "stuck"
    /\ UNCHANGED <<read, fwdTaken, fwdAt, replPut, transPut, fgTaken, fgOut,
                   donePut, processed, missPut, missTaken, rep>>

(* The Transporter takes a batch and forwards its producer blobs.          *)
Transporter ==
    /\ tr = "run" /\ InChan(transPut, transported) > 0
    /\ transported' = transported + 1
    /\ UNCHANGED <<read, fwdTaken, fwdAt, replPut, transPut, fgTaken, fgOut,
                   donePut, processed, missPut, missTaken, rep, tr>>

Next ==
    \/ BlobGenerator \/ ForwardTake \/ ForwardRepl \/ ForwardTrans
    \/ FrameGeneratorTake \/ RecoverBlobs \/ SendMissing \/ SendRequests
    \/ Replicate \/ Transporter

(* Every goroutine runs when its channel operation can complete. *)
Fairness ==
    /\ WF_vars(ForwardTake) /\ WF_vars(ForwardRepl) /\ WF_vars(ForwardTrans)
    /\ WF_vars(FrameGeneratorTake) /\ WF_vars(RecoverBlobs)
    /\ WF_vars(SendMissing) /\ WF_vars(SendRequests)
    /\ WF_vars(Replicate) /\ WF_vars(Transporter)

Spec == Init /\ [][Next]_vars

FairSpec == Spec /\ Fairness

-----------------------------------------------------------------------------
(* Every batch read from the replication socket is eventually passed to   *)
(* the Transporter, which relays the producer's blobs to the other         *)
(* signers (spec 4.4: each signer gets a share of the stream directly and  *)
(* the rest through the others; spec 6: the ledger sink's error is logged  *)
(* but never halts the pipeline; here it cannot fail).                     *)
TransportProgress ==
    \A b \in 1..MaxIn : (read >= b) ~> (transported >= b)

(* Every batch read from the replication socket eventually reaches the    *)
(* FrameGenerator (spec 5: no task blocks another through the gossip lock). *)
ReplicationProgress ==
    \A b \in 1..MaxIn : (read >= b) ~> (fgTaken >= b)

=============================================================================
