------------------------------- MODULE Books -------------------------------
(***************************************************************************)
(* The account books (books.Accounts and its Ledger) of the producer and   *)
(* of one signer, and the steps that change them:                          *)
(*                                                                         *)
(*  - genesis (pipelines.processMintAndCreateAccounts) on both nodes;      *)
(*  - clients' request datagrams to the producer's Messaging task, read   *)
(*    in batches and deserialized, a ValidVDFValue request answered from   *)
(*    the producer's books; a client sending a transaction that names a    *)
(*    value it was given;                                                  *)
(*  - TransactionGenerator applying a packet batch to the producer's books *)
(*    and the Generator turning what was accepted into a block;            *)
(*  - BlockGenerationFaster taking a batch of blocks and starting one      *)
(*    goroutine per block that registers it (go bm.UpdateLastBlock(&block)) *)
(*    while the loop variable it points to moves on;                       *)
(*  - the signer replaying each block with ProcessBlocks.                  *)
(*                                                                         *)
(* A VDF value is a number: 0 is the Ledger's "hello", 1 and 2 are the     *)
(* genesis blocks' values, and every block with transactions extends the   *)
(* chain with the next number. A transaction is its fields and the key    *)
(* that signed them; ed25519 signatures are deterministic, so the record   *)
(* stands for the signature. Blocks reach the signer whole and in order    *)
(* (modules Packing, FrameDecoder and Repair cover the way there).         *)
(***************************************************************************)
EXTENDS Integers, Sequences, SequencesExt, TLC

CONSTANTS
    Account,    \* public keys
    Mint,       \* the mint's key, the only account genesis creates
    Tokens,     \* the mint's tokens
    Amounts,    \* Token values clients send
    Fees,       \* Fee values clients send
    MaxSize,    \* slots of the Ledger's ring of VDF values (maxSize, 4096)
    MaxSubmit,  \* transactions clients send
    Datagrams,  \* datagrams sent to the Messaging socket: [type, len]
    MaxRead     \* datagrams one ReadFrom collects

ASSUME /\ Mint \in Account /\ Tokens \in Nat /\ MaxSize \in Nat \ {0}
       /\ Amounts \subseteq Int /\ Fees \subseteq Int /\ MaxSubmit \in Nat

Hello == 0
NoVal == -1     \* an empty slot of Ledger.values

NoKey == "none"  \* the nil keys of the zero Transaction

Tx == [from : Account \cup {NoKey}, to : Account \cup {NoKey}, token : Int,
       fee : Int, vdf : Nat \cup {NoVal}, sig : Account \cup {NoKey}]
Block == [number : Nat, val : Nat, txs : Seq(Tx)]

VARIABLES
    prod,       \* the producer's books
    sign,       \* the signer's books
    served,     \* VDF values the producer's Messaging has handed to clients
    inbox,      \* transactions sent to the producer's transaction socket
    submitted,  \* how many were sent
    gen,        \* the Generator's helper: VDF value and height
    chain,      \* blocks the Generator made, in order
    batched,    \* blocks BlockGenerationFaster has taken and broadcast
    regs,       \* its UpdateLastBlock goroutines not yet run: block i of the
                \* batch ending at block hi
    applied,    \* blocks the signer's ProcessBlocks has replayed
    respQ,      \* ResponseGenerator's answers not yet written: the contents
                \* of its channel to ResponseSender, then the one it holds
                \* while blocked on a full channel (VDF values answered)
    crashed     \* a goroutine of the producer panicked: the process is gone

vars == <<prod, sign, served, inbox, submitted, gen, chain, batched, regs, applied,
          respQ, crashed>>

-----------------------------------------------------------------------------
(* The Ledger: a ring of the last MaxSize VDF values, a signature set per  *)
(* value in the ring, and the last block registered.                       *)
NewLedger ==
    [values |-> [i \in 0..MaxSize-1 |-> IF i = 0 THEN Hello ELSE NoVal],
     sigs |-> (Hello :> {}), index |-> 0, full |-> FALSE, lastBlock |-> NoVal]

ValidVDFValue(l) == l.values[l.index]

InRing(l, v) == \E i \in 0..MaxSize-1 : l.values[i] = v

(* Mutant: the ring index moved on without wrapping. *)
AddValidVDFValueNoWrap(l, v) ==
    IF InRing(l, v) THEN l
    ELSE [l EXCEPT !.full = l.full \/ l.index = MaxSize - 1, !.index = @ + 1,
                   !.values[l.index + 1] = v, !.sigs = (v :> {}) @@ @]

(* AddValidVDFValue: a value already in the ring is ignored; once the ring *)
(* is full the next slot is reused and its value's signatures dropped.     *)
AddValidVDFValue(l, v) ==
    IF InRing(l, v) THEN l
    ELSE IF l.full \/ l.index = MaxSize - 1
    THEN LET i == (l.index + 1) % MaxSize
         IN  [l EXCEPT !.full = TRUE, !.index = i, !.values[i] = v,
                       !.sigs = (v :> {}) @@ Restrict(l.sigs, DOMAIN l.sigs \ {l.values[i]})]
    ELSE [l EXCEPT !.index = @ + 1, !.values[l.index + 1] = v,
                   !.sigs = (v :> {}) @@ @]

(* addSignature succeeds for a registered value not signed yet with it. *)
CanAddSignature(l, t) == t.vdf \in DOMAIN l.sigs /\ t \notin l.sigs[t.vdf]

AddSignature(l, t) == [l EXCEPT !.sigs[t.vdf] = @ \cup {t}]

(* Ledger.UpdateLastBlock keeps the highest block. *)
UpdateLedgerLastBlock(l, b) ==
    IF l.lastBlock = NoVal \/ b.number > l.lastBlock
    THEN [l EXCEPT !.lastBlock = b.number] ELSE l

-----------------------------------------------------------------------------
(* Accounts: balances of the accounts that exist, the Ledger, counters.    *)
NewBookManager ==
    [bal |-> [a \in Account |-> 0], has |-> {}, ledger |-> NewLedger,
     transactionsTotal |-> 0, blocksTotal |-> 0]

CreateAccount(bk, a, amount) ==
    [bk EXCEPT !.bal[a] = amount, !.has = @ \cup {a}]

(* Mutant: removeSignature leaving the signature in place. *)
RemoveSignatureNoop(l, t) == l

(* removeSignature: the signature leaves its value's set, if the set is   *)
(* still there.                                                            *)
RemoveSignature(l, t) ==
    IF t.vdf \in DOMAIN l.sigs THEN [l EXCEPT !.sigs[t.vdf] = @ \ {t}] ELSE l

(* applyTransactionWithdraw: negative tokens and unknown accounts are     *)
(* refused; addSignature records the signature, and when the funds are    *)
(* short removeSignature takes it out again. Result: <<accepted, books>>. *)
(* Both ledger calls run under the Accounts lock; a value registered by a *)
(* goroutine between them only drops a set removeSignature then skips.    *)
ApplyTransactionWithdraw(bk, t) ==
    IF t.token < 0 \/ t.from \notin bk.has \/ ~CanAddSignature(bk.ledger, t)
    THEN <<FALSE, bk>>
    ELSE IF bk.bal[t.from] < t.token
    THEN <<FALSE, [bk EXCEPT !.ledger = RemoveSignature(AddSignature(@, t), t)]>>
    ELSE <<TRUE, [bk EXCEPT !.bal[t.from] = @ - t.token,
                            !.ledger = AddSignature(@, t),
                            !.transactionsTotal = @ + 1]>>

(* applyTransactionDeposit: a missing account comes into being. *)
ApplyTransactionDeposit(bk, t) ==
    [bk EXCEPT !.bal[t.to] = @ + t.token - t.fee, !.has = @ \cup {t.to}]

(* processTransactionsWithdraws: <<accepted transactions, books>>. *)
ProcessTransactionsWithdraws(bk, ts) ==
    FoldLeft(LAMBDA acc, t :
                 LET r == ApplyTransactionWithdraw(acc[2], t)
                 IN  <<IF r[1] THEN Append(acc[1], t) ELSE acc[1], r[2]>>,
             << <<>>, bk >>, ts)

(* ProcessTransactions: every withdraw, then the deposits of the accepted. *)
ProcessTransactions(bk, ts) ==
    LET w == ProcessTransactionsWithdraws(bk, ts)
    IN  <<w[1], FoldLeft(ApplyTransactionDeposit, w[2], w[1])>>

(* Accounts.UpdateLastBlock: last block, block count, the block's value. *)
UpdateLastBlock(bk, b) ==
    [bk EXCEPT !.ledger = AddValidVDFValue(UpdateLedgerLastBlock(@, b), b.val),
               !.blocksTotal = @ + 1]

(* ProcessBlocks, per block: UpdateLastBlock, then its transactions. *)
ProcessBlock(bk, b) == ProcessTransactions(UpdateLastBlock(bk, b), b.txs)[2]

(* verifyPackets: ed25519.Verify of the packet's signature (Data[:64])    *)
(* over Data[64:176] with the From key (Data[64:96]); a packet that fails  *)
(* gets Size 0.                                                            *)
VerifyPacket(t) == t.sig = t.from

(* PacketGenerator: one ReadFrom, passed on when it read n > 0 datagrams: *)
(* the first one waiting and those that follow within readTimeout, at most *)
(* NumPackets (8192, more than clients send here).                         *)
ReadFromCounts(q) == 1..Len(q)

(* Transaction.Serialize: the 176 bytes a client's datagram carries. *)
TxBytes == 176

(* SignatureVerification: PacketBatch gathers the Packets that arrive      *)
(* before its timeout, verifyPackets marks them, and every Packets is      *)
(* passed on whole and in order. A packet is its transaction and its Size. *)
SignatureVerification(ts) ==
    [i \in DOMAIN ts |-> [tx |-> ts[i], size |-> IF VerifyPacket(ts[i]) THEN TxBytes ELSE 0]]

(* Mutant: fromPackets deserializing a packet whatever its Size. *)
FromPacketsIgnoreSize(ps) == [i \in DOMAIN ps |-> ps[i].tx]

(* fromPackets: a packet of Size 0 becomes Transaction{Fee: -1}. *)
FromPackets(ps) ==
    [i \in DOMAIN ps |->
        IF ps[i].size # 0 THEN ps[i].tx
        ELSE [from |-> NoKey, to |-> NoKey, token |-> 0, fee |-> -1,
              vdf |-> NoVal, sig |-> NoKey]]

(* Mutant: filter passing every transaction. *)
FilterNone(ts) == ts

(* filter: transactions failing Verify (0 <= Fee <= Token) are dropped. *)
Verify(t) == 0 <= t.fee /\ t.fee <= t.token

Filter(ts) == SelectSeq(ts, Verify)

(* processMintAndCreateAccounts: the mint's account, the values of the two *)
(* genesis blocks, and the second block, the mint paying itself with the   *)
(* first block's value.                                                    *)
MintTx == [from |-> Mint, to |-> Mint, token |-> Tokens, fee |-> 0, vdf |-> 1,
           sig |-> Mint]

Genesis ==
    LET bk == CreateAccount(NewBookManager, Mint, Tokens)
        l  == AddValidVDFValue(AddValidVDFValue(bk.ledger, 1), 2)
    IN  ProcessBlock([bk EXCEPT !.ledger = l],
                     [number |-> 2, val |-> 2, txs |-> <<MintTx>>])

(* Capacity of ResponseGenerator's output channel (messageCapacity). *)
MessageCapacity == 1

(* Message types: the first byte of a request. *)
Balance == 0
ValidVDFValueType == 1
TransactionsTotal == 2

(* Packets.ReadFrom: n bytes land in a 256-byte Data, and Size = uint8(n). *)
PacketSize(len) == (IF len > 256 THEN 256 ELSE len) % 256

(* Requests.Deserialize of packets [type, size]: the slice has one entry  *)
(* per packet of non-zero Size, but packet i is written to entry i; an     *)
(* entry left alone is a zero Request (type Balance). Result: <<FALSE,     *)
(* _>> when a write is out of range (a panic), else <<TRUE, types>>.       *)
Deserialize(ps) ==
    LET count == Cardinality({i \in DOMAIN ps : ps[i].size # 0})
    IN  << \A i \in DOMAIN ps : ps[i].size # 0 => i <= count,
          [k \in 1..count |-> IF ps[k].size # 0 THEN ps[k].type ELSE Balance] >>

(* ProcessMessages: the VDF values answered to the requests (Balance and  *)
(* TransactionsTotal answers change nothing here).                         *)
ProcessMessages(types, bk) ==
    IF \E k \in DOMAIN types : types[k] = ValidVDFValueType
    THEN {ValidVDFValue(bk.ledger)} ELSE {}

-----------------------------------------------------------------------------
Init ==
    /\ prod = Genesis /\ sign = Genesis
    /\ served = {} /\ inbox = <<>> /\ submitted = 0
    /\ gen = [val |-> ValidVDFValue(Genesis.ledger), number |-> 2]
    /\ chain = <<>> /\ batched = 0 /\ regs = {} /\ applied = 0
    /\ respQ = <<>> /\ crashed = FALSE

(* PacketGenerator reads a batch of datagrams from the Messaging socket;  *)
(* ResponseGenerator deserializes it, ProcessMessages answers it from the *)
(* producer's books, and the answers go on the channel to ResponseSender,  *)
(* the goroutine blocking while the channel is full. A panic in            *)
(* Deserialize ends the process.                                           *)
HandleRequests ==
    /\ ~crashed
    /\ Len(respQ) <= MessageCapacity
    /\ \E ds \in UNION {[1..n -> Datagrams] : n \in 1..MaxRead} :
          LET d == Deserialize([i \in DOMAIN ds |-> [type |-> ds[i].type,
                                                     size |-> PacketSize(ds[i].len)]])
          IN  IF d[1]
              THEN respQ' = Append(respQ, ProcessMessages(d[2], prod)) /\ UNCHANGED crashed
              ELSE crashed' = TRUE /\ UNCHANGED respQ
    /\ UNCHANGED <<prod, sign, served, inbox, submitted, gen, chain, batched, regs, applied>>

(* ResponseSender takes the next Responses, serializes them and writes     *)
(* each to the address its request came from: the clients have the values. *)
ResponseSender ==
    /\ ~crashed /\ respQ # <<>>
    /\ served' = served \cup Head(respQ)
    /\ respQ' = Tail(respQ)
    /\ UNCHANGED <<prod, sign, inbox, submitted, gen, chain, batched, regs, applied, crashed>>

(* A client signs a transfer naming a value the producer handed it, now    *)
(* or earlier, and sends it to the transaction socket. The key it signs    *)
(* with need not be the From account's.                                    *)
Submit ==
    /\ submitted < MaxSubmit
    /\ \E from, to, key \in Account, tok \in Amounts, fee \in Fees, v \in served :
          inbox' = Append(inbox, [from |-> from, to |-> to, token |-> tok,
                                  fee |-> fee, vdf |-> v, sig |-> key])
    /\ submitted' = submitted + 1
    /\ UNCHANGED <<prod, sign, served, gen, chain, batched, regs, applied, respQ, crashed>>

(* SignatureVerification checks a packet batch; TransactionGenerator       *)
(* deserializes it, filters it and applies it to the producer's books; the *)
(* Generator makes a block of what was accepted, or a NewEmpty block with  *)
(* the helper's value when nothing was.                                    *)
Generate ==
    /\ ~crashed
    /\ \E k \in ReadFromCounts(inbox) :
        LET r  == ProcessTransactions(prod, Filter(FromPackets(
                      SignatureVerification(SubSeq(inbox, 1, k)))))
            nb == IF r[1] = <<>>
                  THEN [number |-> gen.number + 1, val |-> gen.val, txs |-> <<>>]
                  ELSE [number |-> gen.number + 1, val |-> gen.val + 1, txs |-> r[1]]
        IN  /\ prod' = r[2]
            /\ inbox' = SubSeq(inbox, k + 1, Len(inbox))
            /\ chain' = Append(chain, nb)
            /\ gen' = IF r[1] = <<>> THEN gen ELSE [val |-> nb.val, number |-> nb.number]
            /\ UNCHANGED <<sign, served, submitted, batched, regs, applied, respQ, crashed>>

(* BlockGenerationFaster takes the Batcher's next batch, starts a          *)
(* goroutine per block and broadcasts the batch.                           *)
Batch ==
    /\ ~crashed
    /\ \E hi \in batched + 1..Len(chain) :
        /\ regs' = regs \cup {[i |-> j, hi |-> hi] : j \in batched + 1..hi}
        /\ batched' = hi
        /\ UNCHANGED <<prod, sign, served, inbox, submitted, gen, chain, applied, respQ, crashed>>

(* A goroutine runs UpdateLastBlock(&block). The loop variable it points   *)
(* to holds the block of the iteration the loop is at when it is read (a  *)
(* data race): its own or a later one of its batch while that batch is     *)
(* the latest, the batch's last block once the loop has moved on.          *)
Register ==
    /\ ~crashed
    /\ \E r \in regs :
        \E j \in IF r.hi = batched THEN r.i..r.hi ELSE {r.hi} :
            /\ prod' = UpdateLastBlock(prod, chain[j])
            /\ regs' = regs \ {r}
            /\ UNCHANGED <<sign, served, inbox, submitted, gen, chain, batched, applied, respQ, crashed>>

(* The signer's replication.New hands the next block to ProcessBlocks. *)
Replicate ==
    /\ applied < batched
    /\ sign' = ProcessBlock(sign, chain[applied + 1])
    /\ applied' = applied + 1
    /\ UNCHANGED <<prod, served, inbox, submitted, gen, chain, batched, regs, respQ, crashed>>

Next ==
    \/ HandleRequests \/ ResponseSender \/ Submit \/ Generate \/ Batch \/ Register \/ Replicate

Spec == Init /\ [][Next]_vars

-----------------------------------------------------------------------------
TypeOK ==
    /\ prod.has \subseteq Account /\ sign.has \subseteq Account
    /\ \A bk \in {prod, sign} :
          /\ bk.bal \in [Account -> Int]
          /\ bk.ledger.index \in 0..MaxSize-1
          /\ \A v \in DOMAIN bk.ledger.sigs : bk.ledger.sigs[v] \subseteq Tx
    /\ served \subseteq Nat /\ inbox \in Seq(Tx) /\ submitted \in 0..MaxSubmit
    /\ chain \in Seq(Block) /\ batched \in 0..Len(chain) /\ applied \in 0..batched
    /\ regs \subseteq [i : 1..batched, hi : 1..batched]
    /\ respQ \in Seq(SUBSET Nat) /\ Len(respQ) <= MessageCapacity + 1
    /\ crashed \in BOOLEAN

(* A signer that has replayed every block the producer made holds the     *)
(* producer's balances: ProcessBlocks on the signer accepts every          *)
(* transaction TransactionGenerator accepted, although the producer        *)
(* registers VDF values from goroutines that race with its loop.           *)
ReplicaAgrees == applied = Len(chain) => sign.bal = prod.bal

(* No account of either node ever goes negative: Verify drops a fee above *)
(* the tokens before ProcessTransactions, and a withdraw checks the funds. *)
NoNegativeBalance == \A a \in Account : prod.bal[a] >= 0 /\ sign.bal[a] >= 0

(* Replay protection: no signed transaction is applied twice by the       *)
(* producer, whatever clients resend. addSignature refuses a signature its *)
(* value's set holds, and a value evicted from the ring takes its set with *)
(* it; but AddValidVDFValue registers an evicted value again with an empty *)
(* set when an UpdateLastBlock goroutine that carries it runs late.        *)
NoReplay == IsInjective(FlattenSeq([i \in DOMAIN chain |-> chain[i].txs]))

(* Only the holder of an account's key moves its tokens: every transaction *)
(* in a block, which every signer applies without checking signatures, was *)
(* signed with its From key. verifyPackets zeroes a forged packet's Size,  *)
(* fromPackets turns it into a Fee -1 transaction, and filter drops it.    *)
NoForgedDebit == \A i \in DOMAIN chain : \A j \in DOMAIN chain[i].txs :
                    chain[i].txs[j].sig = chain[i].txs[j].from

(* A withdraw refused for short funds leaves no trace in the ledger: on   *)
(* both nodes every signature recorded against a VDF value is that of a  *)
(* transaction some block carries, or the genesis mint transaction.      *)
(* applyTransactionWithdraw adds the signature before the funds check and *)
(* must remove it again, or the client's resend, once funded, would be    *)
(* refused as a duplicate.                                                 *)
SignaturesApplied ==
    LET carried == {MintTx} \cup Range(FlattenSeq([i \in DOMAIN chain |-> chain[i].txs]))
    IN  \A bk \in {prod, sign} : \A v \in DOMAIN bk.ledger.sigs :
            bk.ledger.sigs[v] \subseteq carried

(* A malformed datagram on the Messaging socket is never fatal (spec 7:   *)
(* only a failure at start-up is): no batch of datagrams makes             *)
(* Requests.Deserialize index past its slice and panic the producer.       *)
MessagingNeverPanics == ~crashed

=============================================================================
