------------------------------ MODULE Packing ------------------------------
(***************************************************************************)
(* Blocks from transactions to a signer's ledger: block.Generator cutting  *)
(* each TransactionGenerator output into blocks, block.Batcher gathering   *)
(* blocks until its timeout, BlocksToBlobs packing a batch into blobs      *)
(* (pipelines.BlockGenerationFaster), which also starts a BatchSaver       *)
(* goroutine per batch saving its blocks to the producer's database; on a  *)
(* signer, BlobsToBlocks                                                   *)
(* unpacking each decoded group of NumData data blobs for ProcessBlocks    *)
(* (replication.New). A web-server node (nodes.ServerNode) also saves,     *)
(* from its forwarding goroutine, the blocks of every batch it reads from  *)
(* its replication socket to its database (api/database.go), and its REST *)
(* API lists them a page at a time (GET /api/blocks).                      *)
(*                                                                         *)
(* A block is its height, its VDF iteration count, its VDF value and its   *)
(* number of transactions; a blob is the blocks it packs, in order, and    *)
(* its Size. VDF values are numbered: the initial value is 0, and a block  *)
(* with transactions extends the chain to a value never seen before.       *)
(* The signer's decoder is taken as handing on whole groups in order      *)
(* (modules FrameDecoder and Repair). The server's forwarder has no such   *)
(* decoder in front of it: it reads the data blobs in socket order.        *)
(***************************************************************************)
EXTENDS Integers, Sequences, FiniteSets, SequencesExt

CONSTANTS
    MaxTransactionsInBlock, \* maxTransactionsInBlock (370)
    TransactionSize,        \* bytes of one packed transaction (176)
    BlobDataSize,           \* bytes of Blob.Data (65536)
    DataOffset,             \* first payload byte of a blob (44)
    NumData,                \* data blobs per coding group
    TxCounts,               \* sizes of a TransactionGenerator output
    MaxOutputs,             \* outputs TransactionGenerator makes
    MaxNumberOfBlocks,      \* maxNumberOfBlocks (1000)
    CheckInterval,          \* checkInterval (100)
    MaxOffset,              \* the default offset, ^uint64(0) / 2: above every Height
    Limits,                 \* limits a REST client asks for
    MaxServerRead,          \* blobs one ReadFrom batch of the server holds
    ReorderWindow,          \* how many unread blobs a relayed blob can trail
    Clusters                \* the deployments a run may be: see Cluster

ASSUME /\ MaxTransactionsInBlock \in Nat \ {0} /\ NumData \in Nat \ {0}
       /\ TxCounts \subseteq Nat /\ MaxOutputs \in Nat
       /\ MaxNumberOfBlocks \in Nat /\ CheckInterval \in Nat \ {0}
       /\ MaxServerRead \in Nat \ {0} /\ ReorderWindow \in Nat \ {0}
       /\ Clusters \subseteq {"ProducerNodeWithServer", "ServerNode"} /\ Clusters # {}

(* Bytes a block takes in a blob: height, count, VDF value (32 bytes),    *)
(* transaction count, transactions (Block.Size).                           *)
HeaderSize == 8 + 8 + 32 + 4

SizeOf(b) == HeaderSize + TransactionSize * b.ntx

VARIABLES
    gen,       \* generatorHelper: validVDFValue, count, number
    outputs,   \* TransactionGenerator outputs read by the Generator
    blocksQ,   \* the Generator's output channel
    bls,       \* the batch the Batcher is gathering
    stream,    \* data blobs handed to the Broadcaster, in index order
    decoded,   \* data blobs of the stream the signer has decoded
    ledger,    \* blocks the signer's New passed to ProcessBlocks
    produced,  \* every block the Generator made, in order
    served,    \* the indices of stream blobs the server node has read
    store,     \* per node with a database: [db, counter, fatal, saved,
               \*  issued] db: the blocks table with its transaction rows,
               \*  Height -> [ntx: numTrans, lo: the first row's id];
               \*  counter: DB.counter, saves since the last size check;
               \*  fatal: a SaveBlock hit checkErr and log.Fatal ended the
               \*  process; saved, issued: every Height inserted and the
               \*  largest transaction id given out (history, for properties)
    savers,    \* the blocks each producer BatchSaver goroutine has left
    cluster,   \* the deployment: "ProducerNodeWithServer" (the producer saves
               \*  and serves, signers only replicate) or "ServerNode" (a
               \*  ProducerNode, which saves nothing, and a web-server node)
    walk       \* a REST client paging down the server's blocks: the offset
               \*  it sends next, the highest Height when it began, the
               \*  Heights the table held then that it has not paged past
               \*  yet, and whether a page passed over one of them

srvVars == <<served, store, savers, walk, cluster>>
vars == <<gen, outputs, blocksQ, bls, stream, decoded, ledger, produced, srvVars>>

Block == [number : Nat, count : Nat, val : Nat, ntx : Nat]
Blob == [blocks : Seq(Block), size : Nat]

(* The nodes running with a database: ProducerNodeWithServer and          *)
(* ServerNode.                                                             *)
Producer == "producer"
Server == "server"
DBNode == {Producer, Server}

TypeOK ==
    /\ gen \in [val : Nat, count : Nat, number : Nat]
    /\ outputs \in 0..MaxOutputs
    /\ blocksQ \in Seq(Block) /\ bls \in Seq(Block) /\ produced \in Seq(Block)
    /\ stream \in Seq(Blob) /\ ledger \in Seq(Block)
    /\ decoded \in 0..Len(stream) /\ served \subseteq DOMAIN stream
    /\ DOMAIN store = DBNode
    /\ \A n \in DBNode :
          /\ DOMAIN store[n].db \subseteq Nat
          /\ \A h \in DOMAIN store[n].db : store[n].db[h] \in [ntx : Nat, lo : Nat \ {0}]
          /\ store[n].counter \in 0..CheckInterval
          /\ store[n].fatal \in BOOLEAN /\ store[n].saved \subseteq Nat
          /\ store[n].issued \in Nat
    /\ savers \in Seq(Seq(Block)) /\ \A i \in DOMAIN savers : savers[i] # <<>>
    /\ cluster \in Clusters
    /\ walk \in [on : BOOLEAN, cur : Nat, hi : Nat, pend : SUBSET Nat, missed : BOOLEAN]

(* NewDBConnection: the database file is removed and both tables created *)
(* empty (Height is the blocks table's PRIMARY KEY, id the transactions    *)
(* table's, without AUTOINCREMENT).                                        *)
NewDBConnection == [db |-> <<>>, counter |-> 0, fatal |-> FALSE, saved |-> {}, issued |-> 0]

Init ==
    /\ gen = [val |-> 0, count |-> 0, number |-> 0]
    /\ outputs = 0
    /\ blocksQ = <<>> /\ bls = <<>> /\ stream = <<>>
    /\ decoded = 0 /\ ledger = <<>> /\ produced = <<>>
    /\ served = {} /\ savers = <<>>
    /\ walk = [on |-> FALSE, cur |-> 0, hi |-> 0, pend |-> {}, missed |-> FALSE]
    /\ store = [n \in DBNode |-> NewDBConnection]
    /\ cluster \in Clusters

-----------------------------------------------------------------------------
(* Generator, for n > 0 transactions: slices of at most                    *)
(* MaxTransactionsInBlock, each a New block extending the VDF chain; the   *)
(* helper moves to the new block. Result: <<blocks, helper>>.              *)
RECURSIVE SliceBlocks(_, _, _, _)
SliceBlocks(n, start, g, acc) ==
    IF start >= n THEN <<acc, g>>
    ELSE LET end == IF start + MaxTransactionsInBlock > n
                    THEN n ELSE start + MaxTransactionsInBlock
             nb  == [number |-> g.number + 1, count |-> 1 + g.count,
                     val |-> g.val + 1, ntx |-> end - start]
         IN  SliceBlocks(n, end, [val |-> nb.val, count |-> 0, number |-> nb.number],
                         Append(acc, nb))

(* Generator, for an output of n transactions. With none it makes a       *)
(* NewEmpty block, which carries the helper's VDF value as its own, and    *)
(* leaves the helper as it was.                                            *)
GeneratorBlocks(n, g) ==
    IF n = 0
    THEN << << [number |-> g.number + 1, count |-> g.count, val |-> g.val, ntx |-> 0] >>, g >>
    ELSE SliceBlocks(n, 0, g, <<>>)

(* Mutant: the capacity test without the blob header. *)
CountNumberOfBlocksInBlobNoOffset(bs, start) ==
    LET RECURSIVE Loop(_, _)
        Loop(end, byteCount) ==
            IF end >= Len(bs) THEN Len(bs) - 1
            ELSE IF byteCount + SizeOf(bs[end + 1]) >= BlobDataSize THEN end - 1
            ELSE Loop(end + 1, byteCount + SizeOf(bs[end + 1]))
    IN  Loop(start, 0)

(* countNumberOfBlocksInBlob: the 0-based index of the last block, from   *)
(* start on, that goes in the same blob; start - 1 if block start alone    *)
(* does not fit.                                                           *)
CountNumberOfBlocksInBlob(bs, start) ==
    LET RECURSIVE Loop(_, _)
        Loop(end, byteCount) ==
            IF end >= Len(bs) THEN Len(bs) - 1
            ELSE IF byteCount + SizeOf(bs[end + 1]) >= BlobDataSize - DataOffset
                 THEN end - 1
            ELSE Loop(end + 1, byteCount + SizeOf(bs[end + 1]))
    IN  Loop(start, 0)

(* Mutant: the section loop stopping one block short. *)
ConvertToBlobShort(bs, start, end) ==
    LET part == SubSeq(bs, start + 1, end)
    IN  [blocks |-> part,
         size |-> DataOffset + FoldLeft(LAMBDA acc, b : acc + SizeOf(b), 0, part)]

(* convertToBlob: blocks start..end (0-based) one after another from      *)
(* DataOffset; Size is where the last one ends.                            *)
ConvertToBlob(bs, start, end) ==
    LET part == SubSeq(bs, start + 1, end + 1)
    IN  [blocks |-> part,
         size |-> DataOffset + FoldLeft(LAMBDA acc, b : acc + SizeOf(b), 0, part)]

(* The code panics when a block alone does not fit; the model puts a blob *)
(* one byte too large in the stream instead.                               *)
Panic == [blocks |-> <<>>, size |-> BlobDataSize + 1]

RECURSIVE PackFrom(_, _, _)
PackFrom(bs, start, acc) ==
    IF start >= Len(bs) THEN acc
    ELSE LET end == CountNumberOfBlocksInBlob(bs, start)
         IN  IF end < start THEN Append(acc, Panic)
             ELSE PackFrom(bs, end + 1, Append(acc, ConvertToBlob(bs, start, end)))

BlocksToBlobs(bs) == PackFrom(bs, 0, <<>>)

(* BlobsToBlocks: every packed block, in blob order; a block whose VDF    *)
(* value was already read is merged into the first one read with it, its   *)
(* transactions appended; the result is in order of first appearance.     *)
MergeByVal(out, b) ==
    IF \E k \in DOMAIN out : out[k].val = b.val
    THEN LET k == CHOOSE k \in DOMAIN out : out[k].val = b.val
         IN  [out EXCEPT ![k].ntx = @ + b.ntx]
    ELSE Append(out, b)

BlobsToBlocks(blobs) ==
    FoldLeft(MergeByVal, <<>>, FlattenSeq([i \in DOMAIN blobs |-> blobs[i].blocks]))

(* The k lowest of a set of heights. *)
Lowest(hs, k) == {h \in hs : Cardinality({g \in hs : g < h}) < k}

(* deleteOldData: the limit lowest Heights go, with their transactions. *)
DeleteOldData(d, limit) == [h \in DOMAIN d \ Lowest(DOMAIN d, limit) |-> d[h]]

(* Mutant: the size check waiting for one save past checkInterval. *)
CheckAndDeleteOldDataLate(st) ==
    IF st.counter > CheckInterval
    THEN [st EXCEPT !.counter = 0,
                    !.db = IF Cardinality(DOMAIN @) > MaxNumberOfBlocks
                           THEN DeleteOldData(@, Cardinality(DOMAIN @) - MaxNumberOfBlocks)
                           ELSE @]
    ELSE st

(* checkAndDeleteOldData: every checkInterval saves, trim the table to    *)
(* maxNumberOfBlocks blocks.                                               *)
CheckAndDeleteOldData(st) ==
    IF st.counter >= CheckInterval
    THEN [st EXCEPT !.counter = 0,
                    !.db = IF Cardinality(DOMAIN @) > MaxNumberOfBlocks
                           THEN DeleteOldData(@, Cardinality(DOMAIN @) - MaxNumberOfBlocks)
                           ELSE @]
    ELSE st

MinOf(a, b) == IF a < b THEN a ELSE b

(* Mutant: the new row's id taken from the number of rows the table holds. *)
NextRowidCount(d) == 1 + FoldSet(LAMBDA h, acc : acc + d[h].ntx, 0, DOMAIN d)

(* The id SQLite gives a new row of a table whose id is INTEGER PRIMARY   *)
(* KEY without AUTOINCREMENT: one above the largest id the table holds,    *)
(* 1 when it holds none; a deleted largest id is given out again.          *)
NextRowid(d) == 1 + Max({d[h].lo + d[h].ntx - 1 : h \in {g \in DOMAIN d : d[g].ntx > 0}} \cup {0})

(* SaveBlock into st = [db, counter, fatal, saved, issued] (saved and     *)
(* issued: history, no state of the code): the INSERT of a Height the      *)
(* table holds fails its PRIMARY KEY and checkErr calls log.Fatal; after   *)
(* that the process is gone and nothing more is saved. The block's         *)
(* transactions are inserted one row at a time, so their ids follow on.    *)
SaveBlock(st, b) ==
    IF st.fatal THEN st
    ELSE IF b.number \in DOMAIN st.db THEN [st EXCEPT !.fatal = TRUE]
    ELSE LET lo == NextRowid(st.db)
         IN  CheckAndDeleteOldData(
                 [st EXCEPT !.db = (b.number :> [ntx |-> b.ntx, lo |-> lo]) @@ @,
                            !.counter = @ + 1,
                            !.saved = @ \cup {b.number},
                            !.issued = IF b.ntx > 0 THEN Max({@, lo + b.ntx - 1}) ELSE @])

(* The REST API's block list. A query parameter left out or unparsable   *)
(* (ParseUint fails, as on "-1") is NoParam; extractOffsetAndLimit puts    *)
(* the defaults in its place.                                              *)
NoParam == -1
DefaultLimit == 30
MaxTransactions == 100

ExtractOffsetAndLimit(o, l) ==
    << IF o = NoParam THEN MaxOffset ELSE o, IF l = NoParam THEN DefaultLimit ELSE l >>

(* Mutant: the query sorting ascending, as GetBlocksAfterHeight's does. *)
BeforeHeightRowsAsc(d, offset, limit) ==
    LET hs == SetToSortSeq({h \in DOMAIN d : h <= offset}, <)
    IN  SubSeq(hs, 1, MinOf(limit, Len(hs)))

(* GetBlocksBeforeHeight's query: Height <= offset, newest first, at most *)
(* limit rows.                                                             *)
BeforeHeightRows(d, offset, limit) ==
    LET hs == SetToSortSeq({h \in DOMAIN d : h <= offset}, >)
    IN  SubSeq(hs, 1, MinOf(limit, Len(hs)))

(* getBlocks: the limit capped at maxTransactions, the rows, and as the   *)
(* next offset the Height of the last row (the offset itself if none).     *)
GetBlocks(d, offset, limit) ==
    LET rows == BeforeHeightRows(d, offset, MinOf(MaxTransactions, limit))
    IN  << rows, IF rows = <<>> THEN offset ELSE rows[Len(rows)] >>

-----------------------------------------------------------------------------
(* Generator reads one TransactionGenerator output (the transactions       *)
(* ProcessTransactions accepted, possibly none) and sends its blocks.      *)
Generate ==
    /\ ~store[Producer].fatal
    /\ outputs < MaxOutputs
    /\ \E n \in TxCounts :
          LET r == GeneratorBlocks(n, gen)
          IN  /\ blocksQ' = blocksQ \o r[1]
              /\ produced' = produced \o r[1]
              /\ gen' = r[2]
    /\ outputs' = outputs + 1
    /\ UNCHANGED <<bls, stream, decoded, ledger, srvVars>>

(* Batcher receives a block before its timeout. *)
BatchReceive ==
    /\ ~store[Producer].fatal
    /\ blocksQ # <<>>
    /\ bls' = Append(bls, Head(blocksQ))
    /\ blocksQ' = Tail(blocksQ)
    /\ UNCHANGED <<gen, outputs, stream, decoded, ledger, produced, srvVars>>

(* The timeout fires with a non-empty batch: BlockGenerationFaster starts  *)
(* a BatchSaver goroutine for it, packs it with BlocksToBlobs and hands    *)
(* the blobs to the Broadcaster. ProducerNode passes a nil database, and  *)
(* saveBlock then saves nothing.                                           *)
BatchTimeout ==
    /\ ~store[Producer].fatal
    /\ bls # <<>>
    /\ stream' = stream \o BlocksToBlobs(bls)
    /\ savers' = IF cluster = "ProducerNodeWithServer" THEN Append(savers, bls) ELSE savers
    /\ bls' = <<>>
    /\ UNCHANGED <<gen, outputs, blocksQ, decoded, ledger, produced, served, store, walk, cluster>>

(* A BatchSaver goroutine saves its next block; SaveBlock holds DB.mutex, *)
(* so saves of different goroutines interleave block by block.            *)
BatchSaver ==
    /\ ~store[Producer].fatal
    /\ \E i \in DOMAIN savers :
          /\ store' = [store EXCEPT ![Producer] = SaveBlock(@, Head(savers[i]))]
          /\ savers' = IF Len(savers[i]) = 1 THEN RemoveAt(savers, i)
                        ELSE [savers EXCEPT ![i] = Tail(@)]
    /\ UNCHANGED <<gen, outputs, blocksQ, bls, stream, decoded, ledger, produced, served, walk, cluster>>

(* Mutant: a group handed on before all its data blobs are in, counted   *)
(* as whole.                                                               *)
ReplicatePartial ==
    /\ decoded < Len(stream)
    /\ ledger' = ledger \o BlobsToBlocks(SubSeq(stream, decoded + 1, Len(stream)))
    /\ decoded' = decoded + NumData
    /\ UNCHANGED <<gen, outputs, blocksQ, bls, stream, produced, srvVars>>

(* The signer decodes the next group and New unpacks it for ProcessBlocks. *)
Replicate ==
    /\ decoded + NumData <= Len(stream)
    /\ ledger' = ledger \o BlobsToBlocks(SubSeq(stream, decoded + 1, decoded + NumData))
    /\ decoded' = decoded + NumData
    /\ UNCHANGED <<gen, outputs, blocksQ, bls, stream, produced, srvVars>>

(* The server node's BlobGenerator reads one batch from its replication  *)
(* socket; its forwarding goroutine unpacks it with BlobsToBlocks and      *)
(* saves the blocks one by one. The producer sends blob k of a chunk to    *)
(* transitNodes[k mod n], and a signer's Transporter relays it on, so the  *)
(* server reads the data blobs it has not read yet in any order, some      *)
(* straight from the producer and some a hop later: a read takes any of    *)
(* the ReorderWindow lowest unread blobs. Each data blob is read           *)
(* once here: coding blobs and repair responses in the same socket are     *)
(* module ServerIngest's subject.                                          *)
ServerSave ==
    /\ cluster = "ServerNode"
    /\ ~store[Server].fatal
    /\ \E k \in 1..MaxServerRead :
          \E ks \in [1..k -> Lowest(DOMAIN stream \ served, ReorderWindow)] :
              /\ IsInjective(ks)
              /\ LET bs == BlobsToBlocks([j \in 1..k |-> stream[ks[j]]])
                 IN  store' = [store EXCEPT ![Server] = FoldLeft(SaveBlock, @, bs)]
              /\ served' = served \cup Range(ks)
    /\ UNCHANGED <<gen, outputs, blocksQ, bls, stream, decoded, ledger, produced, savers, walk, cluster>>

(* GET /api/blocks at the server: a client starts its walk with no offset, *)
(* (the REST API of ProducerNodeWithServer is not walked),                *)
(* at any point of the run, and then asks for each next page with the      *)
(* offset the last response gave it.                                       *)
RestBlocks ==
    /\ cluster = "ServerNode"
    /\ ~store[Server].fatal
    /\ \E o \in (IF walk.on THEN {walk.cur} ELSE {NoParam}), l \in Limits :
          LET d == store[Server].db
              p == ExtractOffsetAndLimit(o, l)
              r == GetBlocks(d, p[1], p[2])
              held == IF walk.on THEN walk.pend \cap DOMAIN d ELSE DOMAIN d
          IN  walk' = [on |-> TRUE, cur |-> r[2],
                       hi |-> IF walk.on THEN walk.hi ELSE Max(DOMAIN d \cup {0}),
                       pend |-> {h \in held : h <= r[2]},
                       missed |-> walk.missed \/ \E h \in held : r[2] < h /\ h \notin Range(r[1])]
    /\ UNCHANGED <<gen, outputs, blocksQ, bls, stream, decoded, ledger, produced,
                   served, store, savers, cluster>>

Next == Generate \/ BatchReceive \/ BatchTimeout \/ BatchSaver \/ Replicate \/ ServerSave
        \/ RestBlocks

Spec == Init /\ [][Next]_vars

-----------------------------------------------------------------------------
(* No blob outgrows Blob.Data (countNumberOfBlocksInBlob's test against   *)
(* BlobDataSize - DataOffset, and the Generator's MaxTransactionsInBlock   *)
(* keeping one block below it): a batch mixing a full block with small and *)
(* empty ones comes within a few bytes of the limit.                       *)
BlobsFit == \A i \in DOMAIN stream : stream[i].size <= BlobDataSize

(* The transactions of a block sequence, as <<VDF value, count>> per block *)
(* that has any.                                                           *)
TxTrace(bs) ==
    LET full == SelectSeq(bs, LAMBDA b : b.ntx > 0)
    IN  [k \in DOMAIN full |-> <<full[k].val, full[k].ntx>>]

(* A signer applies exactly the transactions the producer put in blocks,  *)
(* block by block and in order: packing never splits or drops a block and  *)
(* unpacking never reorders them (spec 4.2: a block is never split across  *)
(* packing decisions; unpacking merges a block's pieces).                  *)
TransactionsInOrder == IsPrefix(TxTrace(ledger), TxTrace(produced))

(* Unpacking is the exact inverse of packing (spec 4.2): the blocks a     *)
(* signer hands to ProcessBlocks are the producer's blocks, heights,       *)
(* counts and VDF values included, in order.                               *)
UnpackInverse == IsPrefix(ledger, produced)

(* No node's table ever holds more than maxNumberOfBlocks plus the       *)
(* checkInterval - 1 blocks saved since the last size check: the counter   *)
(* test and the trim in checkAndDeleteOldData keep the database bounded.   *)
DBBounded == \A n \in DBNode :
                 Cardinality(DOMAIN store[n].db) <= MaxNumberOfBlocks + CheckInterval - 1

(* Trimming keeps the newest blocks: every Height deleteOldData removed is *)
(* below every Height the table still holds, so the REST API's newest-     *)
(* first block list (GetBlocksBeforeHeight from MaxOffset) stays intact.   *)
(* Stated of the server, which saves its blocks in the order its socket    *)
(* reads the blobs: a blob relayed a hop later holds lower Heights than    *)
(* one read before it.                                                     *)
DBKeepsNewest ==
    LET st == store[Server]
    IN  \A h \in st.saved \ DOMAIN st.db, g \in DOMAIN st.db : h < g

(* The producer saves every block it makes, and the server every block it *)
(* reads, without the process exiting: no                                  *)
(* SaveBlock reaches checkErr's log.Fatal (the DataBase interface declares *)
(* an error result for a failed save).                                     *)
SaveNeverFatal == \A n \in DBNode : ~store[n].fatal

(* Paging down the block list never skips a block: no save, while a      *)
(* client walks the list, puts a block between the offset the client sends *)
(* next and the newest Height when its walk began, where the client has    *)
(* already been and will not look again (BlockListModel: the offset gets   *)
(* the next part). A blob the socket reads late holds such a block.        *)
PagingNoGap ==
    [][walk.on => \A h \in DOMAIN store'[Server].db \ DOMAIN store[Server].db :
                     ~(walk.cur < h /\ h <= walk.hi)]_vars

(* What paging does promise while the server saves and trims: every block *)
(* the table held when the client's walk began is on one of its pages, or  *)
(* trimmed before the client reached it. GetBlocksBeforeHeight returns     *)
(* Heights <= offset, newest first, and getBlocks hands back the last      *)
(* row's Height, so no page passes over a block the table holds.           *)
PagingSnapshotComplete == ~walk.missed

(* The server never gives a transaction id out twice: the id SQLite will  *)
(* give the next row is above every id it gave before. The transactions   *)
(* table's id is INTEGER PRIMARY KEY without AUTOINCREMENT, so a trim that *)
(* deleted the rows with the largest ids would hand them out again, and a  *)
(* client paging with id <= offset (getTransactions) would find newer      *)
(* transactions on its older pages. A batch whose blobs the socket read   *)
(* out of order saves lower Heights after higher ones, with larger ids,    *)
(* and the next trim deletes those rows.                                   *)
RowidsNeverReissued == NextRowid(store[Server].db) > store[Server].issued

(* The same at the producer, whose database ProducerNodeWithServer serves  *)
(* through the same REST API: its BatchSaver goroutines may save a later   *)
(* batch before an earlier one, so a trim can delete the rows with the     *)
(* largest ids.                                                            *)
ProducerRowidsNeverReissued == NextRowid(store[Producer].db) > store[Producer].issued

=============================================================================
