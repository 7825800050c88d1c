# TLA+ models of Ansiblock

These modules model `src/` from the producer's transaction socket to the
signers' books. Each is checked with TLC. The parts covered are:

- the versioned gossip table that gives every node its view of the cluster;
- the reader/writer lock its tasks share;
- the windowed Reed-Solomon broadcast of the block stream, with its
  Transporter relay and the repair loop;
- the packing of blocks into blobs and the databases behind the REST API;
- a web-server node's ingest: the repair loop and the database saves fed
  by the same replication socket;
- the statistics goroutines behind `/api/stats`;
- the account books with the Messaging tasks;
- the benchmark user client over `user.API`;
- the byte layouts of transactions, requests and responses.

`PROJECT.json` lists every component, run, mutant, source mapping, finding
and hazard. Its `map` gives, for every definition, the lines it translates.

## 1. The system

| Part | Source | What it does | Talks to |
|---|---|---|---|
| Gossip Sync | `replication/sync.go`, `replication/sync_generator.go` | A table (identity → NodeData, last writer wins by `Version`) with a logical clock. `SyncGenerator` pulls the changes after the last clock a random peer reported; `SyncListener` answers and merges. | every task below that reads the table; UDP |
| Sync lock | `replication/sync.go` | One `sync.RWMutex` guards the table. Methods nest read locks (`ProducerNodeData` → `MyNodeData`). | all Sync users |
| Broadcaster | `replication/broadcaster.go`, `network/reed_solomon.go` | Per batch: coding placeholders (`AddCodingBlobs2`), indexing and chunking. Per chunk: Frame write, `EncodeRS`, round-robin fan-out to `transitNodes`. | Sync, UDP |
| Transporter | `replication/replicator.go` | Relays each blob whose `From` is the producer, stamped with its own key, to its own `transitNodes`. | Sync, UDP |
| Frame / FrameGenerator | `network/frame_generator.go`, `network/reed_solomon.go` | `fillFrame`, then `processBlobs`: `DecodeRS` + `recoverBlobs`, or the missing indices go to repair. | replication socket, `doneBlobs`, `missingIndexes` |
| Reconstruction | `reconstruction/reconstruction.go` | `Reconstruct` sends one request per missing index to `RandomNode`. `Listener` answers from its Frame. | Sync, Frame, UDP |
| Pipelines | `pipelines/pipelines.go`, `pipelines/nodes.go` | Node roles and the bounded channels between tasks. | everything |
| Packing | `block/block_generator.go`, `block/transactions.go` | The Generator cuts transactions into blocks, the Batcher gathers them, and `BlocksToBlobs`/`BlobsToBlocks` pack and unpack them. | Broadcaster, New |
| Databases, REST | `api/database.go`, `api/rest_api.go` | `SaveBlock` with its periodic trim; `GET /api/blocks` paged by offset. | producer's BatchSavers, server's forwarder |
| Statistics | `api/blockchain_api.go` | `TPS()` and `BlockTime()` start, once each, a goroutine that samples a books counter every second and pushes a rate onto a ring. `/api/stats` reports the newest entries. | books counters, REST |
| Books | `books/*.go`, `messaging/*.go` | Balances and a ring of valid VDF values, each value with its signature set. Transactions are verified, filtered and applied. Requests are answered. | TransactionGenerator, Messaging, New |
| User client | `cmd/user-node/user.go`, `user/user_api.go` | `main` asks for the mint's balance and the valid VDF value. A poller goroutine then calls `ValidVDFValue` forever, and `main` sends one transfer batch per new value. Every call waits for the first datagram on the socket, with no timeout and no resend. | producer's Messaging, transaction socket |
| Wire formats | `block/transaction.go`, `utils/utils.go`, `messaging/request.go`, `messaging/response.go` | Fixed-offset byte layouts. Integers are written by unrolled shifts or `Uint64toByte`, and read by `ByteToInt64`. | client ↔ producer |

UDP may lose, duplicate and reorder datagrams. Many goroutines share the Sync
table, the Frame and the books. Nothing in this layer retries on a timer.

## 2. Modules

| Module | Models | MC module |
|---|---|---|
| `GossipSync` | Sync table, `NewSync`, `insert`, `update`, `updatesSince`, `requestSync`, `ChangeProducer`, `handleBlob` for both message types, the gossip side of a repair request, and a network that loses, duplicates and reorders datagrams | `MCGossipSync` |
| `SyncLock` | Every Sync method as its sequence of lock operations, every task of a producer and of a signer as the handlers it runs, Go's `RWMutex` | `MCSyncLock` |
| `FrameDecoder` | `fillFrame`, the `processBlobs` loop, `DecodeRS` (by what it achieves), `recoverIndex`, `recoverBlobs`, `missingBlobIndexes` | `MCFrameDecoder` |
| `StreamDelivery` | Abstract receive side: data blobs leave in index order, a whole group at a time | instantiated by `FrameDecoder` |
| `Repair` | `FrameDecoder` (by `INSTANCE`) with `Reconstruct`, the producer's repair `Listener` and a lossy network | `MCRepair` |
| `Broadcaster` | `AddCodingBlobs2`, `IndexBlobs`, `chunkUpBlobs`, the Frame write, `EncodeRS`, the fan-out over `transitNodes`, the Transporter's relay, and tables growing by `Insert` | `MCBroadcaster` |
| `Pipeline` | `BlockSigner`'s channels, with the forwarder, FrameGenerator, `New`, the Transporter and Reconstruct's sender | `MCPipeline` |
| `Packing` | Generator, Batcher, `BlocksToBlobs`, `BlobsToBlocks`, `BatchSaver`, the server's forwarder saving, `SaveBlock`/`checkAndDeleteOldData`/`deleteOldData`, and `GET /api/blocks` paging | `MCPacking` |
| `Stats` | `New`'s statistics, `TPS()`/`BlockTime()` with their `sync.Once`, `calculateTPS`, `calculateBlockTime` (its unlocked first loop included), the books counters growing in `ProcessBlocks`, `Ledger.UpdateLastBlock`, and the `stats` handler's `BlockHeight`, `TPS`, `BlockTime` calls in order | `MCStats` |
| `UserClient` | `user.go`'s `main` and poller, `user.API`'s `Balance` and `ValidVDFValue`, the producer's `ProcessMessages` answers, and a UDP network that reorders, loses or duplicates datagrams | none (constants in the cfgs) |
| `WireCodec` | `Transaction.Serialize`, `DeserializeFromSlice`, `ToPackets`, `Requests.Serialize`/`Deserialize`, the three responses' `Serialize`/`Deserialize`, `Responses.Serialize`/`Deserialize`, `ProcessMessages`, both `ByteToInt64`s and `Uint64toByte` | `MCWireCodec` |
| `ServerIngest` | `ServerNode`'s `BlockSigner` with a database: `Repair` (by `INSTANCE`) as the server's receive and repair side, and the forwarding goroutine's `BlobsToBlocks` and `SaveBlock` over every batch the socket reads | `MCServerIngest` |
| `Books` | Genesis, Messaging (ReadFrom, `Requests.Deserialize`, `ProcessMessages`, ResponseGenerator's channel, ResponseSender), clients' transfers, PacketGenerator + `SignatureVerification` + `fromPackets` + `filter`, `ProcessTransactions`, the Generator, `BlockGenerationFaster`'s registration goroutines, and the signer's `ProcessBlocks` | `MCBooks` |

How state and actions correspond to the code:

- **GossipSync.**
  - `table[n][x]` is the `Version` of x's record in n's table. `localVersions`, `remoteVersions` and `index` are the fields of the same name. A NodeData is abstracted to its Version: only the owner changes a record, and it bumps the Version when it does (`ChangeProducer`).
  - `Init` is `NewSync` on every node. `Started` is `SignerNode` inserting the producer.
  - `InsertAll` is `update`. Map iteration order is random, so the clocks are assigned in any order.
  - `HandleGetUpdates` is `handleBlob` on `GetUpdates`. With an empty delta it returns before merging the requester.
- **SyncLock.** A method is the list of its lock operations, nested calls included. `RLock`, `Announce`, `Acquire` and `Unlock` follow the Go runtime: a pending writer shuts out new readers. `UnlockedRead` is `RandomNode` ranging over the map without the lock.
- **FrameDecoder.**
  - A Frame slot holds a header index, a `Size` and the payload it holds in full.
  - `Receive` is `fillFrame`.
  - `DecodeGroup` is a loop pass in which `DecodeRS` succeeds. `ReportMissing` is a pass in which it fails; `LoopExit` is the loop condition failing.
- **Repair.**
  - `Reconstruct` sends one request per missing index to `RandomNode`.
  - `HandleReconstruct` at the producer checks the slot's index. `Respond` then copies the slot, which may have been overwritten in between. A signer's Frame is not modelled, so it may or may not hold the blob.
  - `DropStream` and `DropRepair` lose datagrams.
- **Broadcaster.**
  - `TakeBatch` drops the batch when `transitNodes` is empty. Otherwise it fixes the fan-out order: `Orderings` is every order of Go's random map range.
  - `SendChunk` writes the chunk, runs `EncodeRS`, and sends position k to `dests[k mod len]`.
  - `Transport(s)` is one blob at signer s: it relays only when `From` is the producer. A repair response carries the requester's key and is never relayed.
  - `Insert(n, m)` is a gossip insert that lets n learn of m.
- **Pipeline.** A FIFO channel is a pair of counters (put, taken). The forwarder's two sends block in turn.
- **Packing.**
  - `SliceBlocks`, `PackFrom` and `MergeByVal` are `RECURSIVE` or folded operators taken from the loops of the code.
  - `store[n]` is a node's blocks table with `DB.counter`. Each Height maps to its `numTrans` and the id of its first transactions row. The rows of a block take consecutive ids, because `SaveBlock` inserts them one at a time.
  - `NextRowid` is SQLite's rowid rule for `id INTEGER PRIMARY KEY` without `AUTOINCREMENT`: the largest id present plus one, or 1 for an empty table. `NewDBConnection` is the empty store the node starts with.
  - `cluster` is the deployment, chosen at Init. In `ProducerNodeWithServer` the producer saves from one `BatchSaver` goroutine per batch, interleaved block by block under `DB.mutex`. In the `ServerNode` deployment the producer is a `ProducerNode`: `saveBlock` is given a nil database and saves nothing, and a web-server node saves instead.
  - `ServerSave` is one socket read at the server, followed by the forwarder's `BlobsToBlocks` and saves. The producer sends blob k of a chunk to `transitNodes[k mod n]`, and signers relay it on, so a read takes up to `MaxServerRead` of the `ReorderWindow` lowest unread data blobs, in any order. Coding blobs and repair responses, which reach the same socket, are `ServerIngest`'s subject.
  - `RestBlocks` is one client that starts its walk at any point and then pages `GET /api/blocks` with the offsets it is given. `walk.pend` holds the Heights the table held at the start that the client has not paged past, and `walk.missed` records that a page passed over one of them.
- **ServerIngest.**
  - The variables of `Repair` are shared with the instance `RP`, and R is the server. `saved` is the set of Heights in the server's table. `junk` records that a saved block differs from every block the producer made. `proc` records whether the process has ended, and how: through `log.Fatal` or a panic.
  - A data blob carries its own blocks, named by its index, because `convertToBlob` packs whole blocks. The contents of a coding blob are parity, which the model does not carry. What `BlobsToBlocks` makes of a coding blob is a choice from `ParseOutcomes`: a panic, or blocks the producer never made.
  - `Receive` is one socket read of up to `MaxBatch` datagrams. It covers `fillFrame` (`RP!FD!Receive`) and `Forward`, which is `BlobsToBlocks` over the raw batch followed by `SaveAll`. Two copies of one data blob in a batch merge into one block whose transactions appear twice. `SaveAll` is `SaveBlock` with `checkErr`: a Height already in the table ends the process.
  - `ServerStep` runs the server's other goroutines while the process is up. `ProducerStep` runs the producer's side of `Repair`.
- **Books.**
  - `prod` and `sign` are `books.Accounts`: balances, accounts and a Ledger (the ring `values`/`index` and a signature set per value).
  - A transaction is a record that carries the key that signed it.
  - `HandleRequests` is PacketGenerator → ResponseGenerator: a ReadFrom batch of up to `MaxRead` datagrams, `Size = uint8(n)`, `Requests.Deserialize` (with its out-of-range write), and `ProcessMessages`. The answers wait in `respQ`: the one-slot channel, plus the answer the goroutine holds while blocked on it.
  - `ResponseSender` writes the answers, and the clients then hold those values (`served`).
  - `Generate` is a ReadFrom batch through `SignatureVerification`, `fromPackets`, `filter` and `ProcessTransactions`, then the Generator's block.
  - `Register` is `go bm.UpdateLastBlock(&block)`, reading the shared loop variable.
  - `Replicate` is the signer's `ProcessBlocks`.
- **Stats.**
  - `tps`, `maxTPS`, `blockTime` and `minBlockTime` are the `Stats` fields. A ring is a function from slot to value, and `Push` is the loop that moves every entry on.
  - `tpsFirst` and `btFirst` are the goroutines' `firstCount` (None before they run). `btFill` is how far the first loop of `calculateBlockTime` has got.
  - `StatsTPS` and `StatsBlockTime` are the `stats` handler's two calls in order. `req` holds the TPS it got while it calls `BlockTime()`.
  - `lastBlock` is the Ledger's last block Number. It starts at the genesis height 2. `ProcessBlocks` registers some block of the run, in any order, because the producer starts one `go bm.UpdateLastBlock(&block)` per block and they all share the loop variable. `UpdateLastBlock` keeps the larger Number, under `blockMutex`. `StatsHeight` is the handler's first call, `BlockHeight()`.
  - A window's length, `time.Since(start)` after a one-second sleep, is a choice from `Durations` in milliseconds. So `int64(count / seconds)` is `count * 1000 \div d`, and `int64(seconds * 1000 / count)` is `d \div count`.

- **UserClient.**
  - `toServer` and `toClient` are bags of datagrams, one per direction. `Serve` is the producer answering one request from its books, and `NewValue` is its Ledger registering a newer VDF value. `Lose` and `Duplicate` are the network.
  - `BalanceSend`/`BalanceRead` are `main`'s `Balance` call. `ValidVDFSend` with `StartupRead` or `PollRead` is a `ValidVDFValue` call: it takes the first datagram it reads, and falls back to `VDF("hello")` when that datagram is not a VDF answer.
  - `PollPut` is the poller's send on the one-slot channel. `MainRecv` and `MainTransfer` are `main`'s loop, which compares each value with `oldVDF` before it sends a batch.
- **WireCodec.**
  - A byte string is a sequence over 0..255. Width, key, signature and VDF sizes are constants, and every offset is computed from them as the code does.
  - `Shr` is Go's arithmetic `>>`, which is TLC's flooring `\div`. `byte()` keeps `% 256`. `ByteToInt64` reassembles the bytes big-endian and casts to int64.
  - `TransferTransaction` is a transfer through `ToPackets` and `DeserializeFromSlice`. `Exchange` is a request through `Requests.Serialize`/`Deserialize`, `ProcessMessages`' answer from any books state, and the answer through `Responses.Serialize`/`Deserialize`.

## 3. Runs and what they show

| Run | cfg | Result | Shows |
|---|---|---|---|
| gossip_net | `MCGossipSyncNet.cfg` | pass | With loss, duplication and replies that overtake each other: a pull after clock c never skips a record (`PullCompleteness`); both nodes converge on each other's newest record (`Convergence`); and `/api/stats`' node count, the peers a node has pulled from plus itself, eventually counts every node everywhere (`NodesCounted`). |
| decoder_intact | `MCFrameDecoderIntact.cfg` | violation | A blob rebuilt by `DecodeRS` leaves with a stale `Size` (`DeliveredIntact`). |
| broadcaster | `MCBroadcaster.cfg` | pass | Coding blobs sit exactly at the coding positions (`CodingPlacement`) and carry parity over their own group (`ParityOverOwnGroup`). A signer relays only blobs the producer sent it (`RelayOneHop`). A batch dropped for want of transit nodes leaves no gap in the indices on the wire (`StreamContiguous`). A producer blob relayed once every table is complete reaches every signer (`Dissemination`). |
| broadcaster_alias | `MCBroadcasterAlias.cfg` | violation | A batch that starts mid-group and fills a Frame overwrites its group's first slot before `EncodeRS` (`ParityOverOwnGroup`). |
| lock_signer | `MCSyncLockSigner.cfg` | violation | The Transporter's nested read lock and a writer deadlock (`LockProgress`). |
| repair_heals | `MCRepair.cfg` | pass | With two stream blobs lost, every group R has seen past is delivered (`GroupsDelivered`); the premise is processBlobs' loop bound `start+NumCoded < end` (`LoopCond`), and the same property fails if the bound waits one blob longer. Delivery still refines `StreamDelivery` (`ImplementsStream`). |
| lock_map_race | `MCSyncLockRace.cfg` | violation | `RandomNode` reads the table while a writer holds the lock (`MapRaceFree`). |
| packing | `MCPacking.cfg` | pass, 266k states | Blobs never overflow (`BlobsFit`). A signer applies exactly the producer's transactions, in order (`TransactionsInOrder`). Each run is one of two deployments: `ProducerNodeWithServer` with its interleaved BatchSaver goroutines, or a `ProducerNode` and a `ServerNode` that reads the data blobs in any order within a window of three. Every table stays bounded (`DBBounded`). A REST client paging two blocks at a time never passes over a block the table held when its walk began, while the server saves and trims between its requests (`PagingSnapshotComplete`). |
| server_fatal | `MCPackingFatal.cfg` | violation | An empty block and the next block share a Height, and the second INSERT ends the process through `log.Fatal` (`SaveNeverFatal`). |
| books | `MCBooks.cfg` | pass | No balance goes negative (`NoNegativeBalance`). No block carries a forged debit (`NoForgedDebit`). A refused withdraw leaves no signature behind (`SignaturesApplied`). |
| books_diverge | `MCBooksDiverge.cfg` | violation | With the VDF ring full, a signer rejects a transaction the producer accepted (`ReplicaAgrees`). |
| books_panic | `MCBooksPanic.cfg` | violation | A 256-byte datagram followed by another request in one read panics `Requests.Deserialize` (`MessagingNeverPanics`). |

Every property of a passing run has a mutant in `PROJECT.json`: a plausible
bug in a mapped definition with which TLC finds the property violated.
Examples:

- `UpdatesSinceSkipNext`: the delta filter is off by one.
- `FromProducerInverted`: the Transporter's `From` test is inverted.
- `RemoveSignatureNoop`: the refused withdraw keeps its signature.
- `BeforeHeightRowsAsc`: the page query sorts ascending.

Further cfgs that are kept for the same questions:

| cfg | Result | Shows |
|---|---|---|
| `MCGossipSync.cfg` | pass, 31k states | `Convergence` with relaying: two signers that know only the producer learn of each other through it. |
| `MCSyncLockProducer.cfg` | pass | `LockProgress` on a producer, whose tasks never nest a read lock behind a writer. |
| `MCRepairLost.cfg` | violation | `GroupsDelivered` fails once one repair request or response is lost and the stream stops: nothing retries it. |
| `MCFrameDecoderStall.cfg` | violation | `NoStalledCompleteGroup`: a complete group waits for a blob past it. |
| `MCPackingMerge.cfg` | violation | `UnpackInverse`: `BlobsToBlocks` merges an empty block into the block before it, because the two share a VDF value. |
| `MCPackingRowids.cfg` | violation | `ProducerRowidsNeverReissued`: at the producer, batch 2's BatchSaver saves before batch 1's, the next trim deletes batch 1's rows, which hold the largest ids, and the next id is given out again. `ProducerNodeWithServer` serves this database through the REST API, so a client paging transactions with `id <= offset` would meet a newer row on an older page. |
| `MCStats.cfg` | pass, 162k states | `TPSNeverZeroAfterTraffic`: once a window has measured traffic, TPS is never reported as 0 again, however long the node stays idle. `BlockTimeMeasured`: a block applied after `calculateBlockTime` started is eventually measured. Dropping the `tps == 0` test breaks the first property, and measuring only windows of two or more blocks breaks the second. |
| `MCStatsHeight.cfg` | pass, 80k states | `ReportedHeightMonotone`: three blocks registered by goroutines in any order, and no answer of `/api/stats` reports a lower height than the one before. Replacing `UpdateLastBlock`'s comparison by a plain store breaks it. |
| `MCStatsZero.cfg` | violation | `ReportedBlockTimeNonZero`: the first `/api/stats` starts `calculateBlockTime` and reads `blockTime[0]` before that goroutine has set it to `maxBlockTime`, so it reports a block time of 0. |
| `MCUserClient.cfg` (module `UserClient`) | pass, 331 states | Over a reliable network, `BatchesFresh` holds: every batch is signed with a value the Ledger handed out, and each is newer than the batch before. `ValueUsed` also holds: once the Ledger holds a value, `main` eventually sends a batch with it or a newer one. |
| `MCUserClientDup.cfg` | violation | `BatchesFresh`: one duplicated balance answer stays in the client's socket. The startup `ValidVDFValue` call reads it as its answer and falls back to `VDF("hello")`, and `main` sends a batch signed with a value the producer never gave out. |
| `MCUserClientLoss.cfg` | violation | `ValueUsed`: one lost request or answer leaves the waiting call blocked for ever, as the code's comments warn. |
| `MCWireCodec.cfg` | pass, 1.3k states | `WireRoundTrip`: every transfer and every answer reads back as it was sent. The integers include negatives and uint64s past the int64 range. `ShiftsTwosComplement`: the shifts write an int64 as its big-endian two's-complement bytes. Mutants that read little-endian, drop the int64 cast, read the fee from the token's offset, or write the key over the balance's last byte break `WireRoundTrip`. Reversed shift counts break `ShiftsTwosComplement`. |
| `MCServerIngestDup.cfg` (module `MCServerIngest`) | violation | `SaveNeverFatal` is violated with no loss, only reordering. Blob 3 reaches the server before blobs 1 and 2, so `processBlobs` reports both missing. Blob 2 then arrives and is saved. The producer's repair response for blob 2 arrives after it, and its Height is saved a second time. The INSERT fails the PRIMARY KEY and `checkErr` calls `log.Fatal`. |
| `MCServerIngestCoding.cfg` | violation | `SavesProducedBlocks`: the first coding blob the server reads goes through `BlobsToBlocks`. It either panics the forwarding goroutine or saves blocks the producer never made. |
| `MCPackingServerRowids.cfg` | violation | `RowidsNeverReissued` at the server. One socket read returns blob 2 before blob 1. Heights 3 and 4 take ids 1-371, and Heights 1 and 2 then take ids 372-742. The trim deletes Heights 1 and 2, and id 372 is given out again. |
| `MCPackingLateBlock.cfg` | violation | `PagingNoGap`: the server reads blobs 1 and 3, and a client pages down from Height 3 to Height 1. Blob 2 is then read, and its Height 2 lies above the client's offset, so the client never sees it. |
| `MCPackingTrim.cfg` | violation | `DBKeepsNewest`: a blob read late puts lower Heights into a table that already holds newer ones, and a later trim removes a block newer than one it keeps. |
| `MCBooksReplay.cfg` | violation, 2.7M states | `NoReplay` with a ring of 2 values. A transfer naming genesis value 2 is applied. Values 3 and 4 evict value 2 and its signature set. The goroutine of the genesis-valued empty block then runs late, and `AddValidVDFValue` registers value 2 again with an empty set. The client's resend of the transfer is applied a second time. |
| `MCPipeline.cfg` | pass | `TransportProgress` and `ReplicationProgress`: with every task healthy, each inbound batch reaches the Transporter and the FrameGenerator. |

### Findings

`PROJECT.json` gives the details of each.

1. **Rebuilt blobs keep a stale Size** (`network/reed_solomon.go:215`).
2. **Frame aliasing in the Broadcaster** (`replication/broadcaster.go:48`). Any batch of at least `FrameSize - offset` blobs after a batch that ended mid-group triggers it. In the code that is about 2033 blobs.
3. **Deadlock on a signer's Sync lock** (`replication/sync.go:156`). `ProducerNodeData` takes the read lock again through `MyNodeData`.
4. **Unlocked map read** (`reconstruction/reconstruction.go:76`). `RandomNode` ranges over the table without the lock.
5. **Replica divergence** (`books/books.go:114`). The producer applies a batch before it registers the batch's VDF value, and a signer does the reverse. With the ring full, the signer evicts a value that a transaction in the block names.
6. **Fatal duplicate Height** (`api/database.go:116`). `NewEmpty` does not move the Generator's helper, so the next block reuses its Height.
7. **Messaging panic** (`messaging/request.go:78`). `Size = uint8(256) = 0` shifts `Deserialize`'s writes past its slice.
8. **A web server saves repaired blobs twice** (`pipelines/pipelines.go:124`, `api/database.go:116`). The forwarding goroutine saves every blob its socket reads, and repair responses go to that same socket. A blob that arrives late is saved once on its own and once as the response, and `log.Fatal` ends the server (`MCServerIngestDup.cfg`). Spec section 6 calls the PersistenceSink best-effort, with errors only logged.
9. **A web server parses coding blobs as blocks** (`pipelines/pipelines.go:122`). `BlobsToBlocks` is given the raw batch, parity included (`MCServerIngestCoding.cfg`).

10. **A web server saves blocks in socket order** (`pipelines/pipelines.go:119-127`). A relayed blob trails a direct one, so lower Heights are saved after higher ones. Three effects follow. Transaction ids are given out again (`MCPackingServerRowids.cfg`). A REST client paging down misses the late block (`MCPackingLateBlock.cfg`). A trim keeps an older block over a newer one (`MCPackingTrim.cfg`).
11. **An evicted VDF value can be registered again** (`books/ledger.go:99-112`, `pipelines/pipelines.go:70`). `AddValidVDFValue` checks only the ring, so a late `UpdateLastBlock` goroutine brings an evicted value back with an empty signature set, and a resent transfer naming it is applied twice (`MCBooksReplay.cfg`). With `maxSize` 4096, the goroutine has to lag 4096 registrations.

Findings 8 to 11 come from cfgs that are not among `PROJECT.json`'s runs, so that file's `hazards` notes record them.

## 4. Bounds and why they are enough

- **Gossip.**
  - Two nodes with two datagrams in flight give every reordering of requests and replies. One loss and one duplicate are allowed, and both records change.
  - `MCGossipSync.cfg` uses three nodes, the smallest set with relaying, with one datagram in flight and one loss.
- **FrameDecoder, Repair.**
  - The code's groups are 16 data + 4 coding blobs. The models use 2 data + 1 coding (1 + 1 in Repair). A group can then still lose one blob and be decoded, or lose two and need repair, as in the code.
  - Frames of 6 (Repair: 4) slots, with streams longer than a Frame, make indices wrap and let blobs arrive a Frame early. Repair's fifth blob overwrites the producer's slot 0.
- **Broadcaster.**
  - Frame 6, batches of up to 2 data blobs, and indices up to 4 past the last send.
  - The producer and two signers have tables that start with only themselves and the producer, and grow in any order. Two signers are the fewest for which a relay has a destination.
  - The alias cfg uses batches of 4 and one signer (no relays) to keep the state space small. 4 is the smallest batch that reaches a Frame past its group start.
- **Packing.** The real byte sizes are kept: 64 KiB blobs, a 44-byte header, 176-byte transactions and 370 per block. The three outputs (0, 1 or 371 transactions) give an empty block, a small one and one the Generator must cut. Tables are trimmed to 2 blocks every 2 saves, so trims happen between a client's requests. The client asks for 2 blocks a page: offsets are inclusive, so a page of 1 repeats the block it was given and never moves on. With 2, a walk crosses several pages and trims, and blocks lie below its offset. The server reads up to 2 blobs at a time out of the 3 lowest unread ones, which reaches every reordering of a relayed blob behind two direct ones. The two deployments are separate behaviours, so the producer's BatchSaver interleavings never multiply the server's states. The REST client walks only the `ServerNode` deployment. `MaxOffset` stands for the code's default offset `^uint64(0) / 2`. Any value above every Height the model reaches (10000) behaves the same.
- **Stats.** Rings of 2 slots: an entry moves on, and a window can repeat the newest one. Windows of 1 or 1.5 s, so that one transaction in a long window rounds down to 0 TPS. Three blocks of up to two transactions each. The code's rings hold 100 slots, but only slot 0 is ever read.
- **UserClient.** Three Ledger values (one seen twice, one skipped, one last), three batches, and at most two duplicated or one lost datagram.
- **WireCodec.** Integers of 3 bytes instead of 8, because TLC's integers are 32-bit. Keys of 2 bytes, signatures and VDF values of 1 byte, and packets of 12 bytes. Every field still has its own offset, and the integer set holds both ends of the signed and unsigned ranges and values that cross a byte.
- **Books.** Two accounts, a ring of 3 VDF values (full after the genesis blocks and one more), three client transfers, and reads of up to two datagrams. The datagram set has one 1-byte ValidVDFValue request and one 256-byte datagram, which is the smallest length `uint8` wraps to 0. `MCBooksReplay.cfg` shrinks the ring to 2 values and allows five transfers of one amount and fee. This is the smallest ring a value can be evicted from and registered again by a late goroutine while its transfer is resent.
- **ServerIngest.** These runs use Repair's bounds: Frame 4, groups of 1 data + 1 coding blob, and a stream of 5. Reads take up to 2 datagrams. No datagram is lost, because reordering alone reaches both findings.
- **SyncLock.** The exact task sets of the two node roles, from `pipelines.go` and `nodes.go`.

## 5. Fairness

- **GossipSync.**
  - `SyncGenerator` asks a uniformly random peer every second: strong fairness per (node, peer).
  - The listeners read forever: weak fairness per receiver and sender.
  - Nothing forces a change or a loss.
- **SyncLock.**
  - Weak fairness per task step.
  - Strong fairness on the writers' mutex: Go's `sync.Mutex` hands the lock to a goroutine that has waited over 1 ms.
- **Repair, Pipeline.**
  - Every goroutine runs when its channel operation or socket read can complete: weak fairness on each.
  - The producer need not produce.
- **Broadcaster.** Weak fairness on each signer's Transporter: it reads its socket forever. Gossip inserts and new batches are not forced.
- **Stats.** Weak fairness on each step of the two goroutines, which sleep a second and run again. Blocks and clients are not forced.
- **UserClient.** Weak fairness on every step of the client, the poller and the producer's Messaging: each is a goroutine blocked on a socket or channel that runs once it can. The Ledger need not make new values, and the network need not fail.
- **Packing, Books, ServerIngest.** These runs check safety only (`Spec`, no fairness).

## 6. Not modelled, and why

- **Reed-Solomon arithmetic** (`EncodeRSBlock`/`DecodeRSBlock`). It is abstracted to "reconstructs up to MaxMissing shards, up to the shard length given". `AddCodingBlobs` has no production caller.
- **Byte layouts and sockets.** The client-facing layouts (transactions, requests, responses) are modelled in `WireCodec`. The blob header, packet and gob encodings (`blob.go` accessors, `packet.go`, `sync_messages.go`, `node.go`) are conversions the other models abstract to records.
  - Only the layout facts that change behaviour are kept: `Size = uint8(n)`, a blob's `Size`, `From` and index, and a transaction's 176 bytes.
  - Values are `int64` in the code. TLC's integers are 32-bit, and no property needs the high bits.
- **Dead code.** `BlockGeneration`, `GeneratorWithTick`, `Saver` and `saveBlockInDB` are called only from each other. `ConnectedNodes`, `AllNodesExceptMe` and `Block.Verify` have no production caller, and the commented-out `cmd/user-node/user_node.go` is not compiled.
- **REST handlers other than `GET /api/blocks` and `/api/stats`.** These only read and format.
  - The transaction queries (`getTransactions` and its four callers) only read. The ids they page by are modelled, and both nodes reissue them: `MCPackingServerRowids.cfg` shows the server's and `MCPackingRowids.cfg` the producer's.
  - In `/api/stats`, the node count is modelled in `GossipSync` (`NodeCount`, `NodesCounted`). `maxTPS` and `minBlockTime` are modelled but nothing reads them.
- **Other tools** (`cmd/genesis-demo`, `user.API.TransactionsTotal`). These are benchmark drivers outside the spec's scope, and `user.go` does not call `TransactionsTotal`. Outside `UserClient`, the models' clients are arbitrary senders of datagrams and transactions.
- **CUDA verification, mint parsing, logging, the CLI and test mocks.** These are cryptography, bootstrap and test support.

## 7. Plan for the rest of the project

1. Books liveness: with fair Generator and Replicate, a signer eventually applies every block the producer made, unless the ring evicts a value (finding 5).
2. `New` breaks out of its loop at the first ledger error (`replicator.go:54-58`), where the spec says the LedgerSink's error is logged and never halts the pipeline. `ProcessBlocks` always returns nil (`books.go:117`), so no run of the code reaches this break, and no model needs it.
3. Membership changes in the middle of a chunk in the Broadcaster fan-out (spec 9), with a signer leaving.
4. `/api/stats`' block height is modelled (`MCStatsHeight.cfg`) with registrations in any order. Left to do: tie the registered Number to the blocks made so far, to ask whether a height can name a block not yet applied.
