------------------------------ MODULE SyncLock ------------------------------
(***************************************************************************)
(* The reader/writer lock of replication.Sync (a Go sync.RWMutex) and the  *)
(* tasks of one node that take it. Each Sync method is abstracted to the   *)
(* sequence of lock operations it performs, nested calls included; a task  *)
(* runs one handler at a time, each handler a sequence of method calls.    *)
(*                                                                         *)
(* sync.RWMutex, as the Go runtime implements it:                          *)
(*  - RLock succeeds at once unless a writer holds the lock or has         *)
(*    announced itself; then it waits until that writer's Unlock, which    *)
(*    admits every reader that waited;                                     *)
(*  - Lock first takes the writers' mutex, then announces itself, which    *)
(*    shuts out new readers, and waits for the readers already inside.     *)
(***************************************************************************)
EXTENDS Naturals, Sequences

CONSTANTS
    Proc,      \* the node's tasks
    Task       \* Task[p]: the handlers task p may run, as lock-op sequences

None == "none"

VARIABLES
    prog,      \* the handler task p is running, <<>> when it waits for input
    pc,        \* index in prog[p] of the next lock operation
    st,        \* "run", or waiting: "rwait" in RLock, "wq" for the writers'
               \* mutex, "wdrain" announced and waiting for readers to leave
    rc,        \* read locks held by each task
    writer,    \* the task holding the write lock, or None
    pend       \* the task announced as writer and waiting, or None

vars == <<prog, pc, st, rc, writer, pend>>

Op == {"R", "RU", "W", "WU", "N"}    \* "N": a read of the table with no lock

-----------------------------------------------------------------------------
(* Sync methods as the lock operations they perform (replication/sync.go) *)
MyNodeData == <<"R", "RU">>
MyCopy == <<"R", "RU">>
TableCopy == <<"R", "RU">>
(* Mutant: a read lock released both explicitly and by its defer. *)
UpdatesSinceDoubleUnlock == <<"R", "RU", "RU">>

UpdatesSince == <<"R", "RU">>
RequestSync == <<"R", "RU">>
Insert == <<"W", "WU">>
Update == <<"W", "WU">>

(* ProducerNodeData takes the read lock and, holding it, calls MyNodeData, *)
(* which takes it again.                                                   *)
ProducerNodeData == <<"R">> \o MyNodeData \o <<"RU">>

(* Mutant: transitNodes guarding its two copies with its own read lock. *)
TransitNodesLocked == <<"R">> \o MyCopy \o TableCopy \o <<"RU">>

(* transitNodes: MyCopy, then TableCopy. *)
TransitNodes == MyCopy \o TableCopy

(* Task handlers, one input item each.                                     *)
(* Transporter: every blob is checked against ProducerNodeData; a blob    *)
(* from the producer is passed on by transport (MyCopy, transitNodes).     *)
TransporterTask == {ProducerNodeData \o MyCopy \o TransitNodes, ProducerNodeData}

(* SyncListener.handleBlob: GetUpdates (updatesSince, then Insert unless  *)
(* the delta is empty) or Updates (update).                                *)
SyncListenerTask == {UpdatesSince \o Insert, UpdatesSince, Update}

SyncGeneratorTask == {RequestSync}

(* reconstruction.Listener: handleReconstruct inserts, then MyCopy.        *)
RepairListenerTask == {Insert \o MyCopy}

(* RandomNode reads the table without taking the lock. *)
RandomNode == <<"N">>

(* Reconstruct's request sender, per missing index: MyCopy, then           *)
(* RandomNode.                                                             *)
ReconstructTask == {MyCopy \o RandomNode}

(* Broadcaster: transitNodes per batch, then MyCopy unless it had none.   *)
BroadcasterTask == {TransitNodes \o MyCopy, TransitNodes}

-----------------------------------------------------------------------------
TypeOK ==
    /\ prog \in [Proc -> Seq(Op)]
    /\ pc \in [Proc -> Nat]
    /\ st \in [Proc -> {"run", "rwait", "wq", "wdrain"}]
    /\ rc \in [Proc -> Nat]
    /\ writer \in Proc \cup {None}
    /\ pend \in Proc \cup {None}

Init ==
    /\ prog = [p \in Proc |-> <<>>]
    /\ pc = [p \in Proc |-> 1]
    /\ st = [p \in Proc |-> "run"]
    /\ rc = [p \in Proc |-> 0]
    /\ writer = None /\ pend = None

NextOp(p) == prog[p][pc[p]]
Ready(p, op) == st[p] = "run" /\ pc[p] <= Len(prog[p]) /\ NextOp(p) = op
Advance(p) == pc' = [pc EXCEPT ![p] = @ + 1]

(* The task takes its next input and starts the handler for it. *)
Begin(p) ==
    /\ prog[p] = <<>>
    /\ \E h \in Task[p] : prog' = [prog EXCEPT ![p] = h]
    /\ pc' = [pc EXCEPT ![p] = 1]
    /\ UNCHANGED <<st, rc, writer, pend>>

(* The handler is done; the task goes back to its input. *)
Finish(p) ==
    /\ prog[p] # <<>> /\ pc[p] > Len(prog[p])
    /\ prog' = [prog EXCEPT ![p] = <<>>]
    /\ UNCHANGED <<pc, st, rc, writer, pend>>

RLock(p) ==
    /\ Ready(p, "R")
    /\ IF writer = None /\ pend = None
         THEN rc' = [rc EXCEPT ![p] = @ + 1] /\ Advance(p) /\ UNCHANGED st
         ELSE st' = [st EXCEPT ![p] = "rwait"] /\ UNCHANGED <<rc, pc>>
    /\ UNCHANGED <<prog, writer, pend>>

RUnlock(p) ==
    /\ Ready(p, "RU")
    /\ rc' = [rc EXCEPT ![p] = @ - 1]
    /\ Advance(p)
    /\ UNCHANGED <<prog, st, writer, pend>>

(* Lock: wait for the writers' mutex. *)
Lock(p) ==
    /\ Ready(p, "W")
    /\ st' = [st EXCEPT ![p] = "wq"]
    /\ UNCHANGED <<prog, pc, rc, writer, pend>>

(* The writers' mutex is free: announce, shutting out new readers. *)
Announce(p) ==
    /\ st[p] = "wq" /\ writer = None /\ pend = None
    /\ pend' = p
    /\ st' = [st EXCEPT ![p] = "wdrain"]
    /\ UNCHANGED <<prog, pc, rc, writer>>

(* The last reader inside has left: the announced writer holds the lock. *)
Acquire(p) ==
    /\ st[p] = "wdrain" /\ pend = p
    /\ \A q \in Proc : rc[q] = 0
    /\ writer' = p /\ pend' = None
    /\ st' = [st EXCEPT ![p] = "run"]
    /\ Advance(p)
    /\ UNCHANGED <<prog, rc>>

(* Unlock admits every reader that waited, then frees the writers' mutex. *)
Unlock(p) ==
    LET waiting == {q \in Proc : st[q] = "rwait"}
    IN  /\ Ready(p, "WU")
        /\ writer' = None
        /\ st' = [q \in Proc |-> IF q \in waiting THEN "run" ELSE st[q]]
        /\ rc' = [q \in Proc |-> IF q \in waiting THEN rc[q] + 1 ELSE rc[q]]
        /\ pc' = [q \in Proc |-> IF q \in waiting \/ q = p THEN pc[q] + 1 ELSE pc[q]]
        /\ UNCHANGED <<prog, pend>>

(* A map read outside the lock: nothing stops it. *)
UnlockedRead(p) ==
    /\ Ready(p, "N")
    /\ Advance(p)
    /\ UNCHANGED <<prog, st, rc, writer, pend>>

Step(p) == RLock(p) \/ RUnlock(p) \/ Lock(p) \/ Acquire(p) \/ Unlock(p) \/ Finish(p)

Next == \E p \in Proc : Begin(p) \/ Step(p) \/ Announce(p)

Spec == Init /\ [][Next]_vars

(* Every task runs whenever it can; no task must receive input. The        *)
(* writers' mutex is strongly fair: Go's sync.Mutex hands itself to a      *)
(* goroutine that has waited over a millisecond.                           *)
FairSpec == Spec /\ \A p \in Proc : WF_vars(Step(p)) /\ SF_vars(Announce(p))

(* A signer also runs Reconstruct, whose RandomNode reads unlocked. *)
SignerNext == Next \/ \E p \in Proc : UnlockedRead(p)

SignerFairSpec ==
    /\ Init /\ [][SignerNext]_vars
    /\ \A p \in Proc : WF_vars(Step(p) \/ UnlockedRead(p)) /\ SF_vars(Announce(p))

-----------------------------------------------------------------------------
Waiting(p) == st[p] \in {"rwait", "wq", "wdrain"}

(* Every task waiting on the Sync lock eventually gets it: no interleaving *)
(* of the node's tasks leaves a task blocked in RLock or Lock for good     *)
(* (spec 5: no task holds the gossip lock while blocked, which precludes   *)
(* deadlock).                                                              *)
LockProgress == \A p \in Proc : Waiting(p) ~> ~Waiting(p)

(* No task reads the Sync table while another holds the write lock and     *)
(* mutates it (spec 5: the table is protected end-to-end by one lock; a Go *)
(* map read concurrent with a write is a data race the runtime may abort   *)
(* on). Reconstruct's call of RandomNode is the unlocked read.             *)
MapRaceFree == [][\A p \in Proc : UnlockedRead(p) => writer = None]_vars

=============================================================================
