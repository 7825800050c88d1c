------------------------------- MODULE Repair -------------------------------
(***************************************************************************)
(* The repair loop of one signer R (pipelines.BlockSigner): R's            *)
(* FrameGenerator (module FrameDecoder), its Reconstruct task turning each *)
(* missing-index list into one Request per index to a random peer          *)
(* (reconstruction/reconstruction.go), the producer's repair Listener      *)
(* answering from the producer's Frame, and the UDP network between them,  *)
(* which may lose datagrams.                                               *)
(*                                                                         *)
(* Blobs on the wire are their indices; a response is the blob the         *)
(* responder's Frame slot held when it was copied. The producer's Frame    *)
(* slot s holds the last blob sent with index = s mod FrameSize.           *)
(***************************************************************************)
EXTENDS Naturals, Sequences, FiniteSets, FiniteSetsExt

CONSTANTS
    FrameSize, NumData, MaxMissing, StreamLen, MaxBatch, DataSize(_),
    Me,            \* the signer R
    Producer,      \* the producer P
    Table,         \* node ids in R's Sync table (Me and Producer included)
    MissingCap,    \* capacity of the missingIndexes channel (10)
    MaxDrop,       \* stream datagrams to R the network may lose
    MaxRepairDrop  \* repair requests and responses it may lose

ASSUME /\ {Me, Producer} \subseteq Table
       /\ MissingCap \in Nat \ {0} /\ MaxDrop \in Nat /\ MaxRepairDrop \in Nat

VARIABLES
    frame, start, end, pc, sent, delivered, reported,  \* FrameDecoder's
    inflight,    \* datagrams on their way to R's replication socket
    missingQ,    \* the missingIndexes channel
    reqs,        \* repair Requests on their way to a peer's repair socket
    lst,         \* index the producer's Listener has found in its Frame
    drops,       \* stream datagrams lost so far
    rdrops       \* repair datagrams lost so far

fdVars == <<frame, start, end, pc, sent, delivered, reported>>
netVars == <<inflight, missingQ, reqs, lst, drops, rdrops>>
vars == <<fdVars, netVars>>

FD == INSTANCE FrameDecoder

None == FD!None
Index == FD!Index
NumCoded == FD!NumCoded
Msg == [idx : Index, kind : {"data", "repair"}]

TypeOK ==
    /\ FD!TypeOK
    /\ inflight \subseteq Msg
    /\ missingQ \in Seq(SUBSET Index) /\ Len(missingQ) <= MissingCap
    /\ reqs \subseteq [idx : Index, to : Table]
    /\ lst \in Index \cup {None}
    /\ drops \in 0..MaxDrop /\ rdrops \in 0..MaxRepairDrop

Init ==
    /\ FD!Init
    /\ inflight = {} /\ missingQ = <<>> /\ reqs = {}
    /\ lst = None /\ drops = 0 /\ rdrops = 0

-----------------------------------------------------------------------------
(* The producer's Frame slot for index i holds the last blob sent there.  *)
ProducerSlot(i) == CHOOSE j \in 0..sent-1 :
                      /\ j % FrameSize = i % FrameSize
                      /\ \A k \in 0..sent-1 : k % FrameSize = i % FrameSize => k <= j

(* The producer still holds blob i: sent and not overwritten.              *)
ProducerHolds(i) == i < sent /\ ProducerSlot(i) = i

(* Mutant: RandomNode picking any table entry, R itself included. *)
RandomNodeAny(t) == t

(* RandomNode: any entry of the table but R's own. *)
RandomNode(t) == t \ {Me}

-----------------------------------------------------------------------------
(* The Broadcaster sends the next blob of the stream; it reaches R        *)
(* directly or through a Transporter.                                      *)
Produce ==
    /\ FD!Produce
    /\ inflight' = inflight \cup {[idx |-> sent, kind |-> "data"]}
    /\ UNCHANGED <<missingQ, reqs, lst, drops, rdrops>>

(* BlobGenerator reads a batch from R's replication socket; the forwarding *)
(* goroutine hands it on to Reconstruct's FrameGenerator (fillFrame).     *)
Receive ==
    \E batch \in SUBSET inflight :
        /\ batch # {} /\ Cardinality(batch) <= MaxBatch
        /\ FD!Receive({m.idx : m \in batch})
        /\ inflight' = inflight \ batch
        /\ UNCHANGED <<missingQ, reqs, lst, drops, rdrops>>

(* processBlobs' loop: a decoded group, or the loop condition failing.     *)
Decode ==
    /\ FD!DecodeGroup \/ FD!LoopExit
    /\ UNCHANGED netVars

(* DecodeRS fails: missingBlobIndexes goes on the missingIndexes channel, *)
(* blocking while the channel is full, and the loop breaks.                *)
ReportMissing ==
    /\ Len(missingQ) < MissingCap
    /\ FD!ReportMissing
    /\ missingQ' = Append(missingQ, FD!MissingBlobIndexes(start))
    /\ UNCHANGED <<inflight, reqs, lst, drops, rdrops>>

(* Reconstruct takes one list and, for every index in it, sends a Request *)
(* to RandomNode's repair address. The UDP writes do not block.            *)
Reconstruct ==
    /\ missingQ # <<>>
    /\ \E to \in [Head(missingQ) -> RandomNode(Table)] :
          reqs' = reqs \cup {[idx |-> i, to |-> to[i]] : i \in Head(missingQ)}
    /\ missingQ' = Tail(missingQ)
    /\ UNCHANGED <<fdVars, inflight, lst, drops, rdrops>>

(* handleReconstruct at a peer: a request from the peer itself is ignored; *)
(* the producer answers when its Frame slot holds the requested index; a   *)
(* signer's Frame is not modelled, so it may or may not hold it.           *)
HandleReconstruct ==
    \E r \in reqs :
        /\ lst = None
        /\ reqs' = reqs \ {r}
        /\ IF r.to = Me THEN UNCHANGED <<inflight, lst>>
           ELSE IF r.to = Producer
                THEN /\ lst' = IF ProducerHolds(r.idx) THEN r.idx ELSE None
                     /\ UNCHANGED inflight
                ELSE /\ r.idx < sent
                     /\ \E found \in BOOLEAN :
                          inflight' = IF found
                                      THEN inflight \cup {[idx |-> r.idx, kind |-> "repair"]}
                                      ELSE inflight
                     /\ UNCHANGED lst
        /\ UNCHANGED <<fdVars, missingQ, drops, rdrops>>

(* The copy of the found blob: it re-reads the slot, which the Broadcaster *)
(* may have overwritten since the index check, and sends what it reads to  *)
(* R's replication address.                                                *)
Respond ==
    /\ lst # None
    /\ inflight' = inflight \cup {[idx |-> ProducerSlot(lst), kind |-> "repair"]}
    /\ lst' = None
    /\ UNCHANGED <<fdVars, missingQ, reqs, drops, rdrops>>

(* The network loses a stream datagram on its way to R. *)
DropStream ==
    /\ drops < MaxDrop
    /\ \E m \in inflight : m.kind = "data" /\ inflight' = inflight \ {m}
    /\ drops' = drops + 1
    /\ UNCHANGED <<fdVars, missingQ, reqs, lst, rdrops>>

(* The network loses a repair Request or a repair response. *)
DropRepair ==
    /\ rdrops < MaxRepairDrop
    /\ \/ \E m \in inflight : m.kind = "repair" /\ inflight' = inflight \ {m}
                                              /\ UNCHANGED reqs
       \/ \E r \in reqs : reqs' = reqs \ {r} /\ UNCHANGED inflight
    /\ rdrops' = rdrops + 1
    /\ UNCHANGED <<fdVars, missingQ, lst, drops>>

Next ==
    \/ Produce \/ Receive \/ Decode \/ ReportMissing
    \/ Reconstruct \/ HandleReconstruct \/ Respond \/ DropStream

Spec == Init /\ [][Next]_vars

(* The same with repair datagrams lost as well. *)
LossyNext == Next \/ DropRepair

(* Every goroutine runs when it can; a datagram that is not lost is        *)
(* eventually read. The producer need not produce.                         *)
Fairness ==
    /\ WF_vars(Receive) /\ WF_vars(Decode) /\ WF_vars(ReportMissing)
    /\ WF_vars(Reconstruct) /\ WF_vars(HandleReconstruct) /\ WF_vars(Respond)

FairSpec == Spec /\ Fairness

LossyFairSpec == Init /\ [][LossyNext]_vars /\ Fairness

-----------------------------------------------------------------------------
(* Self-healing (spec 1, 4.6): once R has seen a blob past a coding group, *)
(* the group's data is eventually delivered, whatever stream blobs the     *)
(* network lost, through missingBlobIndexes, Reconstruct, the producer's   *)
(* Listener and fillFrame.                                                 *)
GroupsDelivered ==
    \A k \in 0..(StreamLen \div NumCoded) - 1 :
        (end > k * NumCoded + NumCoded) ~> (Len(delivered) >= (k + 1) * NumData)

(* Repaired blobs keep the decoder's promise (module StreamDelivery): R    *)
(* hands on the stream's data blobs in index order, a whole group at a     *)
(* time, never twice, although a response may carry a newer blob than the  *)
(* one requested (the Listener re-reads its slot after the index check).   *)
ImplementsStream == FD!ImplementsStream

=============================================================================
