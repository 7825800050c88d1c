----------------------------- MODULE GossipSync -----------------------------
(***************************************************************************)
(* The gossip membership table of replication/sync.go and the two gossip  *)
(* tasks of replication/sync_generator.go, for a set of nodes exchanging   *)
(* datagrams over a lossy, duplicating, reordering network.                *)
(*                                                                         *)
(* A NodeData record is abstracted to its Version: only its owner changes  *)
(* it and always bumps Version when it does (ChangeProducer), so the pair  *)
(* (identity, version) determines the record's content.                    *)
(*                                                                         *)
(* Per node n:                                                             *)
(*   table[n][x]   version of x's record in n's table, Absent if none      *)
(*   localVersions[n][x]  n's clock when it last accepted x's record       *)
(*                        (0 when x is absent, the Go map's zero value)    *)
(*   remoteVersions[n][p] last clock p reported to n, Absent if none       *)
(*   index[n]      n's logical clock, bumped by every accepted insert      *)
(***************************************************************************)
EXTENDS Naturals, FiniteSets, Functions

CONSTANTS
    Node,          \* node identities (ed25519 public keys)
    Producer,      \* the producer every signer is started with
    MaxVersion,    \* bound on ChangeProducer calls per node
    MaxChanges,    \* bound on ChangeProducer calls in all
    MaxDrop,       \* bound on datagrams the network loses
    MaxDup,        \* bound on datagrams the network delivers twice
    MaxInFlight    \* bound on datagrams in flight (socket buffers)

ASSUME Producer \in Node /\ MaxVersion \in Nat /\ MaxChanges \in Nat /\ MaxDrop \in Nat /\ MaxDup \in Nat
       /\ MaxInFlight \in Nat

VARIABLES table, localVersions, remoteVersions, index, msgs, drops, dups

vars == <<table, localVersions, remoteVersions, index, msgs, drops, dups>>

Absent == -1
Version == 0..MaxVersion
\* Every accepted insert is a new (identity, version) pair, so clocks are bounded.
MaxClock == 1 + Cardinality(Node) * (MaxVersion + 1)
Clock == 0..MaxClock

Known(n) == {x \in Node : table[n][x] # Absent}

GetUpdatesMsg == [type : {"GetUpdates"}, src : Node, dst : Node,
                  since : Clock, info : Version]
UpdatesMsg == [type : {"Updates"}, src : Node, dst : Node, clock : Clock,
               recs : UNION {[S -> Version] : S \in SUBSET Node}]
RepairMsg == [type : {"Repair"}, src : Node, dst : Node, info : Version]

TypeOK ==
    /\ table \in [Node -> [Node -> Version \cup {Absent}]]
    /\ localVersions \in [Node -> [Node -> Clock]]
    /\ remoteVersions \in [Node -> [Node -> Clock \cup {Absent}]]
    /\ index \in [Node -> Clock]
    /\ msgs \subseteq GetUpdatesMsg \cup UpdatesMsg \cup RepairMsg
    /\ drops \in 0..MaxDrop /\ dups \in 0..MaxDup

(* NewSync(me), for a NodeData of Version 0 (any other is refused): me    *)
(* alone in the table, stamped with the clock's first value, 1.            *)
NewSync(me) ==
    [table |-> [x \in Node |-> IF x = me THEN 0 ELSE Absent],
     localVersions |-> [x \in Node |-> IF x = me THEN 1 ELSE 0],
     remoteVersions |-> [x \in Node |-> Absent],
     index |-> 1]

(* A node's Sync at start: NewSync, and on a signer the Insert of the      *)
(* producer's NodeData (pipelines.SignerNode), which takes clock 2.        *)
Started(n) ==
    IF n = Producer THEN NewSync(n)
    ELSE [NewSync(n) EXCEPT !.table[Producer] = 0, !.localVersions[Producer] = 2,
                            !.index = 2]

Init ==
    /\ table = [n \in Node |-> Started(n).table]
    /\ localVersions = [n \in Node |-> Started(n).localVersions]
    /\ remoteVersions = [n \in Node |-> Started(n).remoteVersions]
    /\ index = [n \in Node |-> Started(n).index]
    /\ msgs = {}
    /\ drops = 0 /\ dups = 0

(* Sync.insert: a record is accepted when its identity is unknown or its  *)
(* version is strictly higher; acceptance bumps the clock.                 *)
Accept(n, x, v) == table[n][x] = Absent \/ v > table[n][x]

(* Mutant: insert that forgets to stamp the accepted record's clock. *)
InsertAllUnstamped(n, recs) ==
    LET acc == {x \in DOMAIN recs : Accept(n, x, recs[x])}
    IN  /\ table' = [table EXCEPT ![n] = [x \in Node |->
                        IF x \in acc THEN recs[x] ELSE @[x]]]
        /\ index' = [index EXCEPT ![n] = @ + Cardinality(acc)]
        /\ UNCHANGED localVersions

(* Mutant: the clock bumped for every record offered, accepted or not. *)
InsertAllBumpAlways(n, recs) ==
    LET acc == {x \in DOMAIN recs : Accept(n, x, recs[x])}
    IN  /\ table' = [table EXCEPT ![n] = [x \in Node |->
                        IF x \in acc THEN recs[x] ELSE @[x]]]
        /\ localVersions' = [localVersions EXCEPT ![n] = [x \in Node |->
                        IF x \in acc THEN index[n] + Cardinality(DOMAIN recs)
                        ELSE @[x]]]
        /\ index' = [index EXCEPT ![n] = @ + Cardinality(DOMAIN recs)]

(* Sync.update and the loop in Sync.insert, for a batch of records: the   *)
(* accepted ones get the clocks index+1 .. index+k in the order of the     *)
(* Updates slice, which is the sender's map order and so arbitrary.        *)
InsertAll(n, recs) ==
    LET acc == {x \in DOMAIN recs : Accept(n, x, recs[x])}
        k   == Cardinality(acc)
    IN  \E order \in Bijection(acc, index[n]+1 .. index[n]+k) :
          /\ table' = [table EXCEPT ![n] = [x \in Node |->
                          IF x \in acc THEN recs[x] ELSE @[x]]]
          /\ localVersions' = [localVersions EXCEPT ![n] = [x \in Node |->
                          IF x \in acc THEN order[x] ELSE @[x]]]
          /\ index' = [index EXCEPT ![n] = @ + k]

Insert(n, x, v) == InsertAll(n, [y \in {x} |-> v])

(* Mutant: an off-by-one in the delta filter. *)
UpdatesSinceSkipNext(n, since) ==
    [x \in {y \in Known(n) : localVersions[n][y] > since + 1} |-> table[n][x]]

(* Sync.updatesSince: every record whose local clock exceeds `since`,     *)
(* together with the current clock, read under one read lock.              *)
UpdatesSince(n, since) ==
    [x \in {y \in Known(n) : localVersions[n][y] > since} |-> table[n][x]]

(* Sync.RandomNode: any table entry but me; an error below two entries.   *)
RandomNode(n) == Known(n) \ {n}

Send(m) == Cardinality(msgs) < MaxInFlight /\ msgs' = msgs \cup {m}

(* Consuming datagram m and sending the datagrams `out`; while the        *)
(* duplication budget lasts the network may deliver m again later.         *)
Reply(m, out) ==
    \/ msgs' = (msgs \ {m}) \cup out /\ UNCHANGED dups
    \/ dups < MaxDup /\ dups' = dups + 1 /\ msgs' = msgs \cup out

SumOwnVersions == SumFunction([n \in Node |-> table[n][n]])

-----------------------------------------------------------------------------
(* Sync.ChangeProducer: the owner bumps its own version and inserts it.   *)
ChangeProducer(n) ==
    /\ table[n][n] < MaxVersion
    /\ SumOwnVersions < MaxChanges
    /\ Insert(n, n, table[n][n] + 1)
    /\ UNCHANGED <<remoteVersions, msgs, drops, dups>>

(* One SyncGenerator tick: Sync.requestSync picks a random peer and asks  *)
(* for everything after the last clock that peer reported.                 *)
RequestSync(n, p) ==
    /\ p \in RandomNode(n)
    /\ Send([type |-> "GetUpdates", src |-> n, dst |-> p,
             since |-> IF remoteVersions[n][p] = Absent THEN 0
                       ELSE remoteVersions[n][p],
             info |-> table[n][n]])
    /\ UNCHANGED <<table, localVersions, remoteVersions, index, drops, dups>>

(* Mutant: replying without merging the requester's NodeData. *)
HandleGetUpdatesNoMerge(p, m) ==
    LET ups == UpdatesSince(p, m.since)
    IN  /\ m.type = "GetUpdates" /\ m.dst = p
        /\ IF DOMAIN ups = {}
             THEN Reply(m, {})
             ELSE Reply(m, {[type |-> "Updates", src |-> p, dst |-> m.src,
                             clock |-> index[p], recs |-> ups]})
        /\ UNCHANGED <<table, localVersions, index, remoteVersions, drops>>

(* handleBlob on a GetUpdates: no reply and no insert when nothing is new; *)
(* otherwise reply with the delta and the clock read with it, then insert  *)
(* the requester's own NodeData.                                           *)
HandleGetUpdates(p, m) ==
    LET ups == UpdatesSince(p, m.since)
    IN  /\ m.type = "GetUpdates" /\ m.dst = p
        /\ IF DOMAIN ups = {}
             THEN Reply(m, {}) /\ UNCHANGED <<table, localVersions, index>>
             ELSE /\ Reply(m, {[type |-> "Updates", src |-> p, dst |-> m.src,
                                clock |-> index[p], recs |-> ups]})
                  /\ Insert(p, m.src, m.info)
        /\ UNCHANGED <<remoteVersions, drops>>

(* Mutant: the merge that forgets the clock the sender reported. *)
HandleUpdatesNoClock(n, m) ==
    /\ m.type = "Updates" /\ m.dst = n
    /\ InsertAll(n, m.recs)
    /\ Reply(m, {})
    /\ UNCHANGED <<remoteVersions, drops>>

(* handleBlob on an Updates, i.e. Sync.update: merge every record, then   *)
(* remember the clock the sender reported.                                 *)
HandleUpdates(n, m) ==
    /\ m.type = "Updates" /\ m.dst = n
    /\ InsertAll(n, m.recs)
    /\ remoteVersions' = [remoteVersions EXCEPT ![n][m.src] = m.clock]
    /\ Reply(m, {})
    /\ UNCHANGED drops

(* Reconstruct sends a repair Request carrying its MyCopy to a random     *)
(* peer; that peer's Listener (handleReconstruct) inserts it first thing.  *)
SendRepairRequest(x, n) ==
    /\ n \in RandomNode(x)
    /\ Send([type |-> "Repair", src |-> x, dst |-> n, info |-> table[x][x]])
    /\ UNCHANGED <<table, localVersions, remoteVersions, index, drops, dups>>

HandleRepairRequest(n, m) ==
    /\ m.type = "Repair" /\ m.dst = n
    /\ Insert(n, m.src, m.info)
    /\ Reply(m, {})
    /\ UNCHANGED <<remoteVersions, drops>>

(* UDP loses the datagram. *)
Drop(m) ==
    /\ drops < MaxDrop
    /\ msgs' = msgs \ {m}
    /\ drops' = drops + 1
    /\ UNCHANGED <<table, localVersions, remoteVersions, index, dups>>

Next ==
    \/ \E n \in Node : ChangeProducer(n)
    \/ \E n, p \in Node : RequestSync(n, p)
    \/ \E n, p \in Node : SendRepairRequest(n, p)
    \/ \E m \in msgs :
         \/ HandleGetUpdates(m.dst, m)
         \/ HandleUpdates(m.dst, m)
         \/ HandleRepairRequest(m.dst, m)
         \/ Drop(m)

Spec == Init /\ [][Next]_vars

(* Fairness: SyncGenerator asks a uniformly random peer once a second, so  *)
(* every known peer is asked again and again; SyncListener keeps reading   *)
(* its socket, and so does the repair Listener, so datagrams that are not  *)
(* lost are eventually handled. Sending repair requests and ChangeProducer *)
(* calls are not forced to happen.                                         *)
(* Sends wait for room in the bounded network, so a request is only       *)
(* intermittently enabled and needs strong fairness.                       *)
Fairness ==
    /\ \A n, p \in Node : SF_vars(RequestSync(n, p))
    /\ \A n, p \in Node :
         WF_vars(\E m \in msgs : m.src = p /\ HandleGetUpdates(n, m))
    /\ \A n, p \in Node :
         WF_vars(\E m \in msgs : m.src = p /\ HandleUpdates(n, m))
    /\ \A n \in Node : WF_vars(\E m \in msgs : HandleRepairRequest(n, m))

FairSpec == Spec /\ Fairness

-----------------------------------------------------------------------------
(* Delta pull is complete: Sync.update records that p reported clock c,   *)
(* and requestSync from then on asks p only for records changed after c.  *)
(* That is safe only if every record p holds that last changed at or      *)
(* before c is already known to n at least as new. It depends on          *)
(* updatesSince reading the delta and the clock under one lock, on         *)
(* insert stamping each accepted record with a fresh clock, and on         *)
(* reordered, duplicated and lost Updates never raising remoteVersions     *)
(* past what n has merged.                                                 *)
PullCompleteness ==
    \A n, p \in Node :
        remoteVersions[n][p] # Absent =>
            \A x \in Known(p) :
                localVersions[p][x] <= remoteVersions[n][p] =>
                    /\ x \in Known(n)
                    /\ table[n][x] >= table[p][x]

(* Anti-entropy converges: once owners stop changing their records, every *)
(* node ends up holding every node's latest record.                        *)
Converged ==
    \A n, x \in Node : table[n][x] = table[x][x]

Convergence == <>[]Converged

(* Sync.RemoteTableCopy, whose size GET /api/stats reports as the node     *)
(* count: the entries of the table that have reported a clock to n (n has  *)
(* pulled from them), and n itself.                                        *)
NodeCount(n) ==
    Cardinality({x \in Known(n) : remoteVersions[n][x] # Absent} \cup {n})

(* /api/stats eventually counts every node on every node. A node learns of *)
(* a peer from the GetUpdates or repair request the peer sends, but counts *)
(* it only after pulling from it: SyncGenerator must pick it, the peer's   *)
(* first delta is never empty (its own record), and Sync.update must       *)
(* record the clock the reply carries, whatever datagrams are lost.        *)
NodesCounted == <>[](\A n \in Node : NodeCount(n) = Cardinality(Node))

=============================================================================
