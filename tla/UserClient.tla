----------------------------- MODULE UserClient -----------------------------
(***************************************************************************)
(* The benchmark client of cmd/user-node/user.go, as main runs it          *)
(* (infiniteExperiment3), over the user.API of user/user_api.go, against   *)
(* the producer's Messaging task (messaging/message_processor.go,          *)
(* response_generator.go).                                                 *)
(*                                                                         *)
(* The client's messaging socket is used first by main (Balance of the     *)
(* mint, then ValidVDFValue), then by a poller goroutine that calls        *)
(* ValidVDFValue forever and puts each answer on the one-slot channel      *)
(* vdfs. main takes values from vdfs and, for every value that differs     *)
(* from the last one it used, signs and sends one transfer per key pair    *)
(* naming that value. Requests and answers are UDP datagrams: a bag per    *)
(* direction, so they may be reordered, and, where the configuration       *)
(* allows it, lost or duplicated. No call resends its request.             *)
(*                                                                         *)
(* A VDF value is a number: the producer's Ledger answers 1, 2, ... as     *)
(* blocks are registered; Hello stands for block.VDF("hello"), the value   *)
(* ValidVDFValue returns when the datagram it reads is not a VDF answer,   *)
(* and OldInit for the one-byte []byte{1} main starts comparing with.      *)
(***************************************************************************)
EXTENDS Naturals, Sequences, Bags, BagsExt

CONSTANTS
    MaxVal,      \* VDF values the producer's Ledger reaches: 1..MaxVal
    MaxBatches,  \* transfer batches main sends
    MaxLoss,     \* datagrams the network loses
    MaxDup       \* datagrams the network duplicates

ASSUME /\ MaxVal \in Nat \ {0} /\ MaxBatches \in Nat
       /\ MaxLoss \in Nat /\ MaxDup \in Nat

Hello == 0
OldInit == MaxVal + 1
Values == 1..MaxVal

\* Request datagrams carry the request type; a ResponseBalance's value and
\* key are abstracted to "the mint's balance", which is all the client asks.
ReqType == {"bal", "vdf"}
Resp == [type : ReqType, val : {Hello} \cup Values]

VARIABLES
    val,       \* the producer Ledger's ValidVDFValue
    toServer,  \* request datagrams on their way to the Messaging socket
    toClient,  \* answers on their way to the client's messaging socket
    cl,        \* where the user of the client's socket is:
               \*  "bal_send", "bal_read"   main's Balance(mint)
               \*  "vdf_send", "vdf_read"   main's ValidVDFValue()
               \*  "poll_send", "poll_read", "poll_put"   the poller
    polled,    \* the value the poller holds for vdfs
    vdfs,      \* the channel vdfs (capacity 1)
    main,      \* "startup", "recv" (taking from vdfs) or "transfer"
    oldVDF,    \* main's oldVDF
    batches,   \* the values main's transfer batches were signed with
    lost,      \* datagrams lost so far
    dups       \* datagrams duplicated so far

vars == <<val, toServer, toClient, cl, polled, vdfs, main, oldVDF, batches,
          lost, dups>>

TypeOK ==
    /\ val \in Values
    /\ IsABag(toServer) /\ BagToSet(toServer) \subseteq ReqType
    /\ IsABag(toClient) /\ BagToSet(toClient) \subseteq Resp
    /\ cl \in {"bal_send", "bal_read", "vdf_send", "vdf_read",
               "poll_send", "poll_read", "poll_put"}
    /\ polled \in {Hello} \cup Values
    /\ vdfs \in Seq({Hello} \cup Values) /\ Len(vdfs) <= 1
    /\ main \in {"startup", "recv", "transfer"}
    /\ oldVDF \in {Hello, OldInit} \cup Values
    /\ batches \in Seq({Hello} \cup Values) /\ Len(batches) <= MaxBatches
    /\ lost \in 0..MaxLoss /\ dups \in 0..MaxDup

(* infiniteExperiment3 begins: no datagram in flight, the producer at its  *)
(* first value, main about to ask the mint's balance.                      *)
Init ==
    /\ val = 1
    /\ toServer = EmptyBag /\ toClient = EmptyBag
    /\ cl = "bal_send"
    /\ polled = Hello /\ vdfs = <<>>
    /\ main = "startup" /\ oldVDF = OldInit
    /\ batches = <<>>
    /\ lost = 0 /\ dups = 0

-----------------------------------------------------------------------------
(* What ValidVDFValue makes of the first datagram a ReadFrom returns:      *)
(* Responses.Deserialize dispatches on its type byte, and anything but a   *)
(* ResponseValidVDFValue gives block.VDF("hello").                         *)
VDFOf(r) == IF r.type = "vdf" THEN r.val ELSE Hello

(* Packets.ReadFrom into NewPackets(): the first datagram r, then         *)
(* whatever else arrives within readTimeout, all taken off the socket;     *)
(* only r is looked at.                                                    *)
ReadBatch(r, next) ==
    \E rest \in SubBag(BagRemove(toClient, r)) :
        /\ toClient' = BagRemove(toClient, r) (-) rest
        /\ cl' = next

(* The producer's Ledger registers a newer value. *)
NewValue ==
    /\ val < MaxVal
    /\ val' = val + 1
    /\ UNCHANGED <<toServer, toClient, cl, polled, vdfs, main, oldVDF, batches,
                   lost, dups>>

(* The producer's Messaging reads a request, ProcessMessages answers it    *)
(* from the books (the balance, or bm.ValidVDFValue()), and ResponseSender *)
(* writes the answer to the address the request came from.                 *)
Serve ==
    \E q \in BagToSet(toServer) :
        /\ toServer' = BagRemove(toServer, q)
        /\ toClient' = BagAdd(toClient, [type |-> q, val |-> IF q = "vdf" THEN val ELSE Hello])
        /\ UNCHANGED <<val, cl, polled, vdfs, main, oldVDF, batches, lost, dups>>

-----------------------------------------------------------------------------
(* Balance(mint): the request is serialized and written. *)
BalanceSend ==
    /\ cl = "bal_send"
    /\ toServer' = BagAdd(toServer, "bal")
    /\ cl' = "bal_read"
    /\ UNCHANGED <<val, toClient, polled, vdfs, main, oldVDF, batches, lost, dups>>

(* Balance's loop reads one datagram (NewNumPackets(1)) and stops when it  *)
(* deserializes to a ResponseBalance for the mint's key; any other         *)
(* datagram is dropped and the loop reads again.                           *)
BalanceRead ==
    /\ cl = "bal_read"
    /\ \E r \in BagToSet(toClient) :
          /\ toClient' = BagRemove(toClient, r)
          /\ cl' = IF r.type = "bal" THEN "vdf_send" ELSE "bal_read"
    /\ UNCHANGED <<val, toServer, polled, vdfs, main, oldVDF, batches, lost, dups>>

(* ValidVDFValue writes its request, for main or for the poller. *)
ValidVDFSend ==
    /\ cl \in {"vdf_send", "poll_send"}
    /\ toServer' = BagAdd(toServer, "vdf")
    /\ cl' = IF cl = "vdf_send" THEN "vdf_read" ELSE "poll_read"
    /\ UNCHANGED <<val, toClient, polled, vdfs, main, oldVDF, batches, lost, dups>>

(* main's ValidVDFValue returns (its value is only printed); main then     *)
(* starts the poller and enters its loop.                                  *)
StartupRead ==
    /\ cl = "vdf_read"
    /\ \E r \in BagToSet(toClient) : ReadBatch(r, "poll_send")
    /\ main' = "recv"
    /\ UNCHANGED <<val, toServer, polled, vdfs, oldVDF, batches, lost, dups>>

(* The poller's ValidVDFValue returns the value of the first datagram. *)
PollRead ==
    /\ cl = "poll_read"
    /\ \E r \in BagToSet(toClient) : ReadBatch(r, "poll_put") /\ polled' = VDFOf(r)
    /\ UNCHANGED <<val, toServer, vdfs, main, oldVDF, batches, lost, dups>>

(* vdfs <- validVDFValue, blocking while the channel is full. *)
PollPut ==
    /\ cl = "poll_put" /\ vdfs = <<>>
    /\ vdfs' = <<polled>>
    /\ cl' = "poll_send"
    /\ UNCHANGED <<val, toServer, toClient, polled, main, oldVDF, batches, lost, dups>>

-----------------------------------------------------------------------------
(* main's inner loop takes a value from vdfs and leaves it for a new batch *)
(* only when it differs from oldVDF.                                       *)
MainRecv ==
    /\ main = "recv" /\ vdfs # <<>>
    /\ vdfs' = <<>>
    /\ IF Head(vdfs) # oldVDF
       THEN oldVDF' = Head(vdfs) /\ main' = "transfer"
       ELSE UNCHANGED <<oldVDF, main>>
    /\ UNCHANGED <<val, toServer, toClient, cl, polled, batches, lost, dups>>

(* One goroutine per key pair signs a mint transfer naming oldVDF and      *)
(* TransferTransaction writes it to the producer's transaction socket;     *)
(* main waits for all of them.                                             *)
MainTransfer ==
    /\ main = "transfer" /\ Len(batches) < MaxBatches
    /\ batches' = Append(batches, oldVDF)
    /\ main' = "recv"
    /\ UNCHANGED <<val, toServer, toClient, cl, polled, vdfs, oldVDF, lost, dups>>

-----------------------------------------------------------------------------
(* The network loses a datagram in either direction. *)
Lose ==
    /\ lost < MaxLoss
    /\ \/ \E q \in BagToSet(toServer) : toServer' = BagRemove(toServer, q)
                                      /\ UNCHANGED toClient
       \/ \E r \in BagToSet(toClient) : toClient' = BagRemove(toClient, r)
                                      /\ UNCHANGED toServer
    /\ lost' = lost + 1
    /\ UNCHANGED <<val, cl, polled, vdfs, main, oldVDF, batches, dups>>

(* The network delivers a datagram twice. *)
Duplicate ==
    /\ dups < MaxDup
    /\ \/ \E q \in BagToSet(toServer) : toServer' = BagAdd(toServer, q)
                                      /\ UNCHANGED toClient
       \/ \E r \in BagToSet(toClient) : toClient' = BagAdd(toClient, r)
                                      /\ UNCHANGED toServer
    /\ dups' = dups + 1
    /\ UNCHANGED <<val, cl, polled, vdfs, main, oldVDF, batches, lost>>

Next ==
    \/ NewValue \/ Serve
    \/ BalanceSend \/ BalanceRead \/ ValidVDFSend \/ StartupRead
    \/ PollRead \/ PollPut \/ MainRecv \/ MainTransfer
    \/ Lose \/ Duplicate

Spec == Init /\ [][Next]_vars

(* Every goroutine runs when it can, and a datagram in a socket's buffer   *)
(* is read by the ReadFrom blocked on it. The producer need not make new   *)
(* values, nor the network fail.                                           *)
Fairness ==
    /\ WF_vars(Serve)
    /\ WF_vars(BalanceSend) /\ WF_vars(BalanceRead) /\ WF_vars(ValidVDFSend)
    /\ WF_vars(StartupRead) /\ WF_vars(PollRead) /\ WF_vars(PollPut)
    /\ WF_vars(MainRecv) /\ WF_vars(MainTransfer)

FairSpec == Spec /\ Fairness

-----------------------------------------------------------------------------
(* Every batch main sends is signed with a value the producer's Ledger     *)
(* handed out (never block.VDF("hello")), and with a newer value than the  *)
(* batch before, so no batch repeats an earlier one's transactions. It     *)
(* rests on each call having one request outstanding and taking the first  *)
(* datagram it reads as its answer, on ValidVDFValue's "hello" fallback    *)
(* never being taken, and on main's oldVDF comparison.                     *)
BatchesFresh ==
    \A i \in 1..Len(batches) :
        /\ batches[i] # Hello
        /\ i > 1 => batches[i-1] < batches[i]

(* The experiment keeps up with the producer: once the Ledger holds a      *)
(* value, main eventually sends a batch signed with it or a newer one.     *)
(* The user.API calls never time out or resend (their comments say they   *)
(* hang when a datagram is dropped), so this needs every datagram          *)
(* delivered.                                                              *)
ValueUsed ==
    \A v \in Values :
        (val = v) ~> (batches # <<>> /\ batches[Len(batches)] >= v)

=============================================================================
