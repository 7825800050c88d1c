------------------------------- MODULE Stats --------------------------------
(***************************************************************************)
(* The statistics behind GET /api/stats (api/blockchain_api.go): TPS()    *)
(* and BlockTime() start, through a sync.Once each, a goroutine that wakes *)
(* every second, reads a counter of books.Accounts and pushes a rate onto  *)
(* a ring of statsCount values; the handler reports the height of the     *)
(* Ledger's last block and the newest entry of each ring. The counters     *)
(* grow, and the last block moves on, as blocks are registered.            *)
(*                                                                         *)
(* A ring is a function 0..StatsCount-1 -> Int; a goroutine not started   *)
(* yet has first = None. How long a second of time.Sleep really lasts is   *)
(* a choice from Durations (milliseconds).                                 *)
(***************************************************************************)
EXTENDS Integers

CONSTANTS
    StatsCount,     \* statsCount, the length of both rings (100)
    MaxBlockTime,   \* maxBlockTime, the block time meaning "none yet" (10000)
    Durations,      \* time.Since(start) after a 1 s sleep, in milliseconds
    MaxTxPerBlock,  \* transactions one block adds to transactionsTotal
    MaxBlocks       \* blocks the node applies

ASSUME /\ StatsCount \in Nat \ {0} /\ MaxBlockTime \in Nat \ {0}
       /\ Durations \subseteq Nat \ {0} /\ MaxTxPerBlock \in Nat /\ MaxBlocks \in Nat

None == -1
Slots == 0..StatsCount-1

VARIABLES
    txTotal,      \* Accounts.transactionsTotal
    blTotal,      \* Accounts.blocksTotal
    tps,          \* stats.tps
    maxTPS,       \* stats.maxTPS
    tpsOnce,      \* onceTPS has run: the TPS goroutine was started
    tpsFirst,     \* the TPS goroutine's firstCount, None before it runs
    blockTime,    \* stats.blockTime
    minBlockTime, \* stats.minBlockTime
    btOnce,       \* onceBlockTime has run
    btFirst,      \* the block-time goroutine's firstCount, None before it runs
    btFill,       \* slots of blockTime its first loop has set to maxBlockTime
    lastBlock,    \* the Number of Ledger.lastBlock
    req,          \* what the stats handler has read so far: [height, tps],
                  \*  None for what it has not
    reported      \* the last answer: [height, tps, blockTime], None before one

vars == <<txTotal, blTotal, tps, maxTPS, tpsOnce, tpsFirst, blockTime,
          minBlockTime, btOnce, btFirst, btFill, lastBlock, req, reported>>

MaxTx == MaxBlocks * MaxTxPerBlock

(* Both nodes that serve the REST API start from processMintAndCreateAccounts, *)
(* whose ProcessBlocks registers the genesis block with a transaction,     *)
(* block.New(emptyBlock.Val, 1, 0, ...): Number 2. The producer's          *)
(* Generator numbers its blocks on from there.                             *)
GenesisHeight == 2
Numbers == GenesisHeight+1 .. GenesisHeight+MaxBlocks

NoRequest == [height |-> None, tps |-> None]

TypeOK ==
    /\ txTotal \in 0..MaxTx /\ blTotal \in 0..MaxBlocks
    /\ tps \in [Slots -> Nat] /\ maxTPS \in Nat
    /\ tpsOnce \in BOOLEAN /\ tpsFirst \in {None} \cup 0..MaxTx
    /\ blockTime \in [Slots -> Nat] /\ minBlockTime \in Nat
    /\ btOnce \in BOOLEAN /\ btFirst \in {None} \cup 0..MaxBlocks
    /\ btFill \in 0..StatsCount
    /\ lastBlock \in Numbers \cup {GenesisHeight}
    /\ req \in [height : {None} \cup Nat, tps : {None} \cup Nat]
    /\ reported \in [height : {None} \cup Nat, tps : {None} \cup Nat,
                     blockTime : {None} \cup Nat]

(* New: both rings zero, maxTPS 0, minBlockTime maxBlockTime. *)
Init ==
    /\ txTotal = 0 /\ blTotal = 0
    /\ tps = [i \in Slots |-> 0] /\ maxTPS = 0
    /\ tpsOnce = FALSE /\ tpsFirst = None
    /\ blockTime = [i \in Slots |-> 0] /\ minBlockTime = MaxBlockTime
    /\ btOnce = FALSE /\ btFirst = None /\ btFill = 0
    /\ lastBlock = GenesisHeight
    /\ req = NoRequest /\ reported = [height |-> None, tps |-> None, blockTime |-> None]

(* The loop that moves every entry one slot on, then the new entry. *)
Push(r, v) == [i \in Slots |-> IF i = 0 THEN v ELSE r[i-1]]

-----------------------------------------------------------------------------
(* The counters, read with atomic loads (Accounts.TransactionsTotal and    *)
(* BlocksTotal).                                                           *)
TransactionsTotal == txTotal
BlocksTotal == blTotal

(* Mutant: the last block replaced whatever its Number. *)
UpdateLastBlockAlways(n) == n

(* Ledger.UpdateLastBlock, under blockMutex: a block becomes the last one  *)
(* only when its Number is above the last one's.                           *)
UpdateLastBlock(n) == IF n > lastBlock THEN n ELSE lastBlock

(* Accounts.LastBlock: the ledger is never nil, and after the genesis      *)
(* block neither is its last block.                                        *)
LastBlock == lastBlock

(* API.BlockHeight: the last block's Number. *)
BlockHeight == LastBlock

(* A block is registered: Accounts.UpdateLastBlock counts it, and every   *)
(* withdraw that succeeds counts a transaction. The server node's          *)
(* ProcessBlocks registers blocks in stream order, the producer one        *)
(* UpdateLastBlock goroutine per block of a batch (pipelines.go:70), which *)
(* run in any order and, sharing the loop variable, may register one block *)
(* twice: a block's Number is any the node may see.                        *)
ProcessBlocks ==
    /\ blTotal < MaxBlocks
    /\ \E k \in 0..MaxTxPerBlock : txTotal' = txTotal + k
    /\ blTotal' = blTotal + 1
    /\ \E n \in Numbers : lastBlock' = UpdateLastBlock(n)
    /\ UNCHANGED <<tps, maxTPS, tpsOnce, tpsFirst, blockTime, minBlockTime,
                   btOnce, btFirst, btFill, req, reported>>

(* The stats handler first reads BlockHeight(). *)
StatsHeight ==
    /\ req.height = None
    /\ req' = [req EXCEPT !.height = BlockHeight]
    /\ UNCHANGED <<txTotal, blTotal, tps, maxTPS, tpsOnce, tpsFirst, blockTime,
                   minBlockTime, btOnce, btFirst, btFill, lastBlock, reported>>

(* It then calls TPS(): onceTPS starts calculateTPS the first time, then  *)
(* tps[0] is read under tpsMutex.                                          *)
StatsTPS ==
    /\ req.height # None /\ req.tps = None
    /\ tpsOnce' = TRUE
    /\ req' = [req EXCEPT !.tps = tps[0]]
    /\ UNCHANGED <<txTotal, blTotal, tps, maxTPS, tpsFirst, blockTime,
                   minBlockTime, btOnce, btFirst, btFill, lastBlock, reported>>

(* Last it calls BlockTime(): onceBlockTime starts calculateBlockTime the *)
(* first time, then blockTime[0] is read under blockTimeMutex, which the  *)
(* goroutine's first loop does not take; the answer is written.           *)
StatsBlockTime ==
    /\ req.tps # None
    /\ btOnce' = TRUE
    /\ req' = NoRequest
    /\ reported' = [height |-> req.height, tps |-> req.tps, blockTime |-> blockTime[0]]
    /\ UNCHANGED <<txTotal, blTotal, tps, maxTPS, tpsOnce, tpsFirst, blockTime,
                   minBlockTime, btFirst, btFill, lastBlock>>

-----------------------------------------------------------------------------
(* calculateTPS begins: start and firstCount. *)
TPSStart ==
    /\ tpsOnce /\ tpsFirst = None
    /\ tpsFirst' = TransactionsTotal
    /\ UNCHANGED <<txTotal, blTotal, tps, maxTPS, tpsOnce, blockTime,
                   minBlockTime, btOnce, btFirst, btFill, lastBlock, req, reported>>

(* One pass of calculateTPS' loop: int64(count / seconds), maxTPS raised   *)
(* to it, a rate of 0 replaced by the newest entry, and the push.          *)
TPSTick ==
    /\ tpsFirst # None
    /\ \E d \in Durations :
          LET rate == ((TransactionsTotal - tpsFirst) * 1000) \div d
          IN  /\ maxTPS' = IF maxTPS < rate THEN rate ELSE maxTPS
              /\ tps' = Push(tps, IF rate = 0 THEN tps[0] ELSE rate)
    /\ tpsFirst' = TransactionsTotal
    /\ UNCHANGED <<txTotal, blTotal, tpsOnce, blockTime, minBlockTime, btOnce,
                   btFirst, btFill, lastBlock, req, reported>>

(* calculateBlockTime begins: start and firstCount. *)
BTStart ==
    /\ btOnce /\ btFirst = None
    /\ btFirst' = BlocksTotal
    /\ UNCHANGED <<txTotal, blTotal, tps, maxTPS, tpsOnce, tpsFirst, blockTime,
                   minBlockTime, btOnce, btFill, lastBlock, req, reported>>

(* Its first loop sets every slot to maxBlockTime, one at a time and      *)
(* without blockTimeMutex.                                                 *)
BTFill ==
    /\ btFirst # None /\ btFill < StatsCount
    /\ blockTime' = [blockTime EXCEPT ![btFill] = MaxBlockTime]
    /\ btFill' = btFill + 1
    /\ UNCHANGED <<txTotal, blTotal, tps, maxTPS, tpsOnce, tpsFirst,
                   minBlockTime, btOnce, btFirst, lastBlock, req, reported>>

(* One pass of its second loop: with no new block the newest entry is     *)
(* kept, else int64(seconds * 1000 / count); minBlockTime lowered to it,  *)
(* and the push.                                                           *)
BTTick ==
    /\ btFirst # None /\ btFill = StatsCount
    /\ \E d \in Durations :
          LET count == BlocksTotal - btFirst
              t == IF count # 0 THEN d \div count ELSE blockTime[0]
          IN  /\ minBlockTime' = IF minBlockTime > t THEN t ELSE minBlockTime
              /\ blockTime' = Push(blockTime, t)
    /\ btFirst' = BlocksTotal
    /\ UNCHANGED <<txTotal, blTotal, tps, maxTPS, tpsOnce, tpsFirst, btOnce,
                   btFill, lastBlock, req, reported>>

Next ==
    \/ ProcessBlocks \/ StatsHeight \/ StatsTPS \/ StatsBlockTime
    \/ TPSStart \/ TPSTick \/ BTStart \/ BTFill \/ BTTick

Spec == Init /\ [][Next]_vars

(* Both goroutines sleep a second and run again; the Go scheduler runs a   *)
(* runnable goroutine. Neither blocks nor clients need come.               *)
Fairness ==
    /\ WF_vars(TPSStart) /\ WF_vars(TPSTick)
    /\ WF_vars(BTStart) /\ WF_vars(BTFill) /\ WF_vars(BTTick)

FairSpec == Spec /\ Fairness

-----------------------------------------------------------------------------
(* Once calculateTPS has measured a window with traffic, TPS() never      *)
(* answers 0 again, however long the node then stays idle: a window that  *)
(* measures 0 repeats the newest entry (calculateTPS' tps == 0 test).      *)
TPSNeverZeroAfterTraffic == maxTPS > 0 => tps[0] > 0

(* A block the node applies after calculateBlockTime has started is       *)
(* eventually measured: the newest entry drops below maxBlockTime, the     *)
(* "none yet" its first loop filled the ring with.                         *)
BlockTimeMeasured ==
    \A n \in 1..MaxBlocks :
        (btFirst # None /\ btFirst < n /\ blTotal >= n) ~> (blockTime[0] < MaxBlockTime)

(* /api/stats never reports a block time of 0: calculateBlockTime sets     *)
(* every slot to maxBlockTime, meaning no block measured yet, before it    *)
(* measures anything.                                                      *)
ReportedBlockTimeNonZero == reported.blockTime # 0

(* The block height /api/stats reports never goes down from one answer to *)
(* the next, although the producer's UpdateLastBlock goroutines register   *)
(* the blocks of a batch in any order: Ledger.UpdateLastBlock keeps the    *)
(* block with the highest Number.                                          *)
ReportedHeightMonotone ==
    [][reported.height # None => reported'.height >= reported.height]_reported

=============================================================================
