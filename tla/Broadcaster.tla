---------------------------- MODULE Broadcaster ----------------------------
(***************************************************************************)
(* The send side of the block stream: the Broadcaster task of             *)
(* replication/broadcaster.go with AddCodingBlobs2 and EncodeRS of         *)
(* network/reed_solomon.go writing the producer's Frame, its round-robin  *)
(* fan-out to the producer's transit nodes, and each signer's Transporter *)
(* (replication/replicator.go) relaying the producer's blobs one hop on.  *)
(* Each node's Sync table is the set of node ids in it; gossip only adds  *)
(* to it (module GossipSync models how).                                   *)
(*                                                                         *)
(* A blob is abstracted to its header index, whether AddCodingBlobs2 made  *)
(* it a coding placeholder, and, for a coding blob, the header indices of  *)
(* the Frame blobs EncodeRS read as its group's data shards.               *)
(***************************************************************************)
EXTENDS Naturals, Sequences, FiniteSets, Functions

CONSTANTS
    FrameSize,     \* slots in a Frame (2048 in the code)
    NumData,       \* data blobs per coding group (16)
    MaxMissing,    \* coding blobs per coding group (4)
    MaxBatch,      \* data blobs in one input batch
    MaxIndex,      \* no batch is taken once the global index reaches this
    Producer,      \* the producer node
    Signer         \* the signer (and web-server) nodes running BlockSigner

NumCoded == NumData + MaxMissing

ASSUME /\ FrameSize \in Nat \ {0} /\ NumData \in Nat \ {0}
       /\ MaxMissing \in Nat \ {0} /\ MaxBatch \in Nat \ {0}

VARIABLES
    index,      \* the task's global blob index
    produced,   \* data blobs taken from the input channel
    pending,    \* chunks of the current batch not yet sent
    frame,      \* the producer's Frame.Blobs
    wire,       \* every blob written to the replication socket
    known,      \* the node ids in each node's Sync table
    dests,      \* the Broadcaster's transit nodes for the current batch,
                \*  in the order its range over the table produced them
    net,        \* datagrams on their way to a replication socket
    sent,       \* every datagram sent (history, for the properties)
    got         \* blob indices each signer's replication socket has read

netVars == <<known, net, sent, got>>
vars == <<index, produced, pending, frame, wire, dests, netVars>>

Node == {Producer} \cup Signer

(* A datagram: the blob's index, the From key in its header, the node it  *)
(* is sent to.                                                             *)
Datagram == [idx : Nat, from : Node, to : Signer]

(* A data blob or placeholder has no parity; a coding blob has NumData   *)
(* shards' indices.                                                        *)
BlobRec == [idx : Nat, coding : BOOLEAN, over : {<<>>} \cup [1..NumData -> Nat]]

IsCodingIndex(i) == i % NumCoded >= NumData
GroupStart(i) == i - (i % NumCoded)
GroupData(i) == [k \in 1..NumData |-> GroupStart(i) + k - 1]

TypeOK ==
    /\ index \in 0..MaxIndex + MaxBatch * NumCoded
    /\ produced \in 0..MaxIndex + MaxBatch
    /\ pending \in Seq(Seq(BlobRec))
    /\ frame \in [0..FrameSize-1 -> BlobRec]
    /\ wire \subseteq BlobRec
    /\ known \in [Node -> SUBSET Node]
    /\ dests \in Seq(Signer)
    /\ net \subseteq Datagram /\ sent \subseteq Datagram
    /\ got \in [Signer -> SUBSET Nat]

(* NewFrame fills every slot with a zero Blob. *)
EmptyBlob == [idx |-> 0, coding |-> FALSE, over |-> <<>>]

(* The producer's table holds itself (NewSync); a signer's holds itself  *)
(* and the producer, which SignerNode and ServerNode insert at start.      *)
Init ==
    /\ index = 0 /\ produced = 0
    /\ pending = <<>>
    /\ frame = [s \in 0..FrameSize-1 |-> EmptyBlob]
    /\ wire = {}
    /\ known = [n \in Node |-> {n, Producer}]
    /\ dests = <<>>
    /\ net = {} /\ sent = {} /\ got = [s \in Signer |-> {}]

-----------------------------------------------------------------------------
(* Insert MaxMissing placeholders before position k (0-based) of bs.      *)
InsertCoding(bs, k) ==
    SubSeq(bs, 1, k) \o [j \in 1..MaxMissing |-> TRUE] \o SubSeq(bs, k + 1, Len(bs))

(* Mutant: the commented-out count that ignores the batch's offset in its *)
(* coding group.                                                           *)
AddedBlobsPerBatch(start, n) == (n \div NumData) * MaxMissing

(* AddCodingBlobs2's count of placeholders to add, which bounds its loop. *)
AddedBlobs(start, n) == (((start % NumCoded) + n) \div NumData) * MaxMissing

(* AddCodingBlobs2's loop: at every absolute i with (i+MaxMissing) mod    *)
(* NumCoded = 0 the placeholders go in at position i - start. bs is the    *)
(* batch as coding flags, FALSE for a data blob.                           *)
RECURSIVE AddLoop(_, _, _, _)
AddLoop(bs, i, start, last) ==
    IF i >= last THEN bs
    ELSE AddLoop(IF i # 0 /\ (i + MaxMissing) % NumCoded = 0
                 THEN InsertCoding(bs, i - start) ELSE bs,
                 i + 1, start, last)

AddCodingBlobs2(n, start) ==
    AddLoop([k \in 1..n |-> FALSE], start, start,
            start + n + AddedBlobs(start, n))

(* Mutant: indices stamped from one past the task's index. *)
IndexBlobsFromNext(flags, start) ==
    [k \in 1..Len(flags) |-> [idx |-> start + k, coding |-> flags[k],
                              over |-> <<>>]]

(* IndexBlobs stamps consecutive indices from the task's index.            *)
IndexBlobs(flags, start) ==
    [k \in 1..Len(flags) |-> [idx |-> start + k - 1, coding |-> flags[k],
                              over |-> <<>>]]

(* chunkUpBlobs(blobs, FrameSize): consecutive chunks of FrameSize; the    *)
(* extra empty chunk it returns when the length is a multiple of FrameSize *)
(* changes nothing downstream and is left out.                             *)
ChunkUpBlobs(bs) ==
    [c \in 1..((Len(bs) + FrameSize - 1) \div FrameSize) |->
        SubSeq(bs, (c - 1) * FrameSize + 1,
               IF c * FrameSize < Len(bs) THEN c * FrameSize ELSE Len(bs))]

(* Mutant: blobStart taken as start, without aligning it to its group. *)
EncodeRSUnaligned(f, start, n) ==
    LET ends == {i \in start .. start + n - 1 : i % NumCoded = NumCoded - 1}
        gs(i) == start + ((i - start) \div NumCoded) * NumCoded
        codingOf(s) == {i \in ends : \E j \in NumData..NumCoded-1 :
                                       (gs(i) + j) % FrameSize = s}
    IN  [s \in 0..FrameSize-1 |->
           IF codingOf(s) = {} THEN f[s]
           ELSE LET g == gs(CHOOSE i \in codingOf(s) : TRUE)
                IN  [f[s] EXCEPT !.over =
                       [k \in 1..NumData |-> f[(g + k - 1) % FrameSize].idx]]]

(* Mutant: the shard loop runs to blobStart+NumCoded, reading the coding *)
(* slots as data.                                                          *)
EncodeRSAllShards(f, start, n) ==
    LET ends == {i \in start .. start + n - 1 : i % NumCoded = NumCoded - 1}
        codingOf(s) == {i \in ends : \E j \in NumData..NumCoded-1 :
                                       (i - (NumCoded - 1) + j) % FrameSize = s}
    IN  [s \in 0..FrameSize-1 |->
           IF codingOf(s) = {} THEN f[s]
           ELSE LET g == GroupStart(CHOOSE i \in codingOf(s) : TRUE)
                IN  [f[s] EXCEPT !.over =
                       [k \in 1..NumCoded |-> f[(g + k - 1) % FrameSize].idx]]]

(* EncodeRS(frame, start, numBlobs): for every index of the chunk that     *)
(* ends a coding group, the group's coding slots are filled with parity    *)
(* over whatever blobs the group's data slots hold now.                    *)
EncodeRS(f, start, n) ==
    LET ends == {i \in start .. start + n - 1 : i % NumCoded = NumCoded - 1}
        codingOf(s) == {i \in ends : \E j \in NumData..NumCoded-1 :
                                       (i - (NumCoded - 1) + j) % FrameSize = s}
    IN  [s \in 0..FrameSize-1 |->
           IF codingOf(s) = {} THEN f[s]
           ELSE LET g == GroupStart(CHOOSE i \in codingOf(s) : TRUE)
                IN  [f[s] EXCEPT !.over =
                       [k \in 1..NumData |-> f[(g + k - 1) % FrameSize].idx]]]

-----------------------------------------------------------------------------
(* transitNodes: the table's nodes but the node itself and its producer. *)
(* Every node has a real replication address, so the "0.0.0.0:0" test     *)
(* never excludes one.                                                     *)
TransitNodes(n) == known[n] \ {n, Producer}

(* The orders a range over a table holding the nodes S may visit them in. *)
Orderings(S) == {f \in [1..Cardinality(S) -> S] : Range(f) = S}

(* Mutant: a dropped batch still advancing the index past the blobs it   *)
(* would have had.                                                         *)
TakeBatchAdvance(n) ==
    /\ pending = <<>>
    /\ index < MaxIndex /\ produced < MaxIndex
    /\ produced' = produced + n
    /\ IF TransitNodes(Producer) = {}
       THEN /\ index' = index + n + AddedBlobs(index, n)
            /\ UNCHANGED <<pending, frame, wire, dests>>
       ELSE /\ pending' = ChunkUpBlobs(IndexBlobs(AddCodingBlobs2(n, index), index))
            /\ dests' \in Orderings(TransitNodes(Producer))
            /\ UNCHANGED <<index, frame, wire>>
    /\ UNCHANGED netVars

(* One input batch of n data blobs. The Broadcaster reads transitNodes    *)
(* once per batch; with none the batch is dropped, otherwise placeholders  *)
(* are added, blobs are indexed and cut into chunks.                       *)
TakeBatch(n) ==
    /\ pending = <<>>
    /\ index < MaxIndex /\ produced < MaxIndex
    /\ produced' = produced + n
    /\ IF TransitNodes(Producer) = {}
       THEN UNCHANGED <<index, pending, frame, wire, dests>>
       ELSE /\ pending' = ChunkUpBlobs(IndexBlobs(AddCodingBlobs2(n, index), index))
            /\ dests' \in Orderings(TransitNodes(Producer))
            /\ UNCHANGED <<index, frame, wire>>
    /\ UNCHANGED netVars

(* One pass of the chunk loop: write the chunk into the Frame, run         *)
(* EncodeRS over it, advance the index and send the chunk's blobs as the   *)
(* Frame now holds them, the blob at position i of the chunk to            *)
(* nodes[i % len(nodes)].                                                  *)
SendChunk ==
    LET chunk == Head(pending)
        written == [s \in 0..FrameSize-1 |->
                      IF \E k \in 1..Len(chunk) : chunk[k].idx % FrameSize = s
                      THEN LET k == CHOOSE k \in 1..Len(chunk) :
                                       chunk[k].idx % FrameSize = s
                           IN  chunk[k]
                      ELSE frame[s]]
        encoded == EncodeRS(written, index, Len(chunk))
        out == {[idx |-> chunk[k].idx, from |-> Producer,
                 to |-> dests[((k - 1) % Len(dests)) + 1]] : k \in 1..Len(chunk)}
    IN  /\ pending # <<>>
        /\ frame' = encoded
        /\ index' = index + Len(chunk)
        /\ wire' = wire \cup {encoded[chunk[k].idx % FrameSize] : k \in 1..Len(chunk)}
        /\ pending' = Tail(pending)
        /\ net' = net \cup out /\ sent' = sent \cup out
        /\ UNCHANGED <<produced, dests, known, got>>

(* Mutant: the Transporter relaying whatever blob it reads. *)
FromProducerAny(m) == TRUE

(* Mutant: the Transporter's test inverted. *)
FromProducerInverted(m) == m.from # Producer

(* The Transporter's test: the blob's From is ProducerNodeData().Self.    *)
FromProducer(m) == m.from = Producer

(* Signer s reads a datagram from its replication socket: BlobGenerator    *)
(* hands it to the forwarder, which passes it to FrameGenerator and the    *)
(* Transporter; a blob from the producer is sent on by transport, with s   *)
(* as its From, to every transit node of s's table as it is now.           *)
Transport(s) ==
    \E m \in net :
        LET relay == IF FromProducer(m)
                     THEN {[idx |-> m.idx, from |-> s, to |-> t] : t \in TransitNodes(s)}
                     ELSE {}
        IN  /\ m.to = s
            /\ net' = (net \ {m}) \cup relay
            /\ sent' = sent \cup relay
            /\ got' = [got EXCEPT ![s] = @ \cup {m.idx}]
            /\ UNCHANGED <<index, produced, pending, frame, wire, dests, known>>

(* Sync.Insert at node n of a record for node m not in its table yet (a   *)
(* gossip update, or the repair Listener inserting a requester).           *)
Insert(n, m) ==
    /\ m \notin known[n]
    /\ known' = [known EXCEPT ![n] = @ \cup {m}]
    /\ UNCHANGED <<index, produced, pending, frame, wire, dests, net, sent, got>>

Next ==
    \/ \E n \in 1..MaxBatch : TakeBatch(n)
    \/ SendChunk
    \/ \E s \in Signer : Transport(s)
    \/ \E n, m \in Node : Insert(n, m)

Spec == Init /\ [][Next]_vars

(* Every Transporter reads its socket while datagrams are waiting; losses *)
(* are left to module Repair. Neither the producer nor gossip must act.    *)
FairSpec == Spec /\ \A s \in Signer : WF_vars(Transport(s))

-----------------------------------------------------------------------------
(* Every blob on the wire is a coding blob exactly when its index is a     *)
(* coding position of its absolute group, across batches of any size: the  *)
(* placeholders AddCodingBlobs2 inserts line up with the groups EncodeRS   *)
(* and the receivers' DecodeRS assume.                                     *)
CodingPlacement == \A b \in wire : b.coding <=> IsCodingIndex(b.idx)

(* Every coding blob on the wire carries parity over the data blobs of     *)
(* its own group (spec 4.4: chunks are at most one Frame so that the Frame *)
(* is never aliased).                                                      *)
ParityOverOwnGroup ==
    \A b \in wire : b.coding => b.over = GroupData(b.idx)

(* Relays stop after one hop: every datagram a signer sends carries a blob *)
(* that the producer's Broadcaster sent to that signer. transport stamps   *)
(* the signer's own key as From, and a Transporter relays only blobs with  *)
(* the producer's From, so a relayed blob is never relayed again.          *)
RelayOneHop ==
    \A d \in sent : d.from # Producer =>
        [idx |-> d.idx, from |-> Producer, to |-> d.from] \in sent

(* The stream the producer writes has no gap: the indices on the wire are *)
(* exactly 0..index-1, though a batch read while transitNodes is empty is  *)
(* dropped (broadcaster.go, "No nodes to broadcast"): the index only moves *)
(* as a chunk is sent, so the signers' Frame windows, which advance one    *)
(* consecutive index at a time, never wait on an index nobody sent.        *)
StreamContiguous == {b.idx : b \in wire} = 0..index-1

(* Spec 4.4: a signer gets a share of the stream directly and the rest     *)
(* through the others. A producer blob still on its way to its relayer      *)
(* while every table is complete eventually reaches every signer.          *)
TablesComplete == \A n \in Node : known[n] = Node

Dissemination ==
    \A i \in 0..MaxIndex + MaxBatch * NumCoded :
        (TablesComplete /\ \E d \in net : d.idx = i /\ d.from = Producer)
            ~> (\A s \in Signer : i \in got[s])

=============================================================================
