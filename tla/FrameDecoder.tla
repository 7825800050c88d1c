---------------------------- MODULE FrameDecoder ----------------------------
(***************************************************************************)
(* The receive side of the block stream: the FrameGenerator task of       *)
(* network/frame_generator.go filling a Frame from inbound batches and     *)
(* decoding it with DecodeRS of network/reed_solomon.go.                   *)
(*                                                                         *)
(* A Blob in a Frame slot is abstracted to three fields:                   *)
(*   idx   the index in its header (Blob.Index)                            *)
(*   size  its Size field                                                  *)
(*   data  which stream blob's payload its data region holds in full, or   *)
(*         None when it holds none or only a prefix                        *)
(* Reed-Solomon arithmetic is abstracted to what it achieves: with at most *)
(* MaxMissing of a group's shards missing, Reconstruct refills every       *)
(* missing shard up to the shard length it is given.                       *)
(***************************************************************************)
EXTENDS Naturals, Sequences, FiniteSets, FiniteSetsExt

CONSTANTS
    FrameSize,     \* slots in a Frame (2048 in the code)
    NumData,       \* data blobs per coding group (16)
    MaxMissing,    \* coding blobs per coding group (4)
    StreamLen,     \* blobs the producer sends: indices 0 .. StreamLen-1
    MaxBatch,      \* blobs in one inbound batch
    DataSize(_)    \* Size of data blob i as the producer packed it

NumCoded == NumData + MaxMissing

ASSUME /\ FrameSize \in Nat \ {0} /\ NumData \in Nat \ {0}
       /\ MaxMissing \in Nat /\ StreamLen \in Nat /\ MaxBatch \in Nat \ {0}

VARIABLES
    frame,       \* Frame.Blobs
    start,       \* FrameGenerator's start: next undelivered index
    end,         \* FrameGenerator's end: highest index seen
    pc,          \* "idle" waiting on input, "loop" inside processBlobs
    sent,        \* the producer has sent indices 0 .. sent-1
    delivered,   \* blobs pushed on doneBlobs, in order
    reported     \* the last index list pushed on missingIndexes

vars == <<frame, start, end, pc, sent, delivered, reported>>

None == -1
Index == 0..StreamLen + NumCoded
IsCoding(i) == i % NumCoded >= NumData
GroupStart(i) == i - (i % NumCoded)

\* A coding blob is sized to the largest data blob of its group (EncodeRS).
BlobSize(i) ==
    IF IsCoding(i)
    THEN Max({DataSize(j) : j \in GroupStart(i) .. GroupStart(i) + NumData - 1})
    ELSE DataSize(i)

\* Blob i as it arrives from the network.
Arrived(i) == [idx |-> i, size |-> BlobSize(i), data |-> i]

\* NewFrame fills every slot with a zero Blob: index 0, Size 0.
EmptyBlob == [idx |-> 0, size |-> 0, data |-> None]

Slot(i) == i % FrameSize

Blob == [idx : Index, size : {0} \cup {BlobSize(i) : i \in 0..StreamLen-1},
         data : Index \cup {None}]

TypeOK ==
    /\ frame \in [0..FrameSize-1 -> Blob]
    /\ start \in Index /\ end \in Index
    /\ pc \in {"idle", "loop"}
    /\ sent \in 0..StreamLen
    /\ delivered \in Seq(Blob)
    /\ reported \subseteq Index

Init ==
    /\ frame = [s \in 0..FrameSize-1 |-> EmptyBlob]
    /\ start = 0 /\ end = 0
    /\ pc = "idle"
    /\ sent = 0
    /\ delivered = <<>>
    /\ reported = {}

-----------------------------------------------------------------------------
(* countMissing: a slot is missing when its Size is zero or its header    *)
(* index is not the one the group expects there.                           *)
IsMissing(i) == frame[Slot(i)].size = 0 \/ frame[Slot(i)].idx # i

GroupIndices(g) == g .. g + NumCoded - 1

(* getMaxDataSize over the group's data slots, whatever blob they hold.   *)
MaxDataSize(g) == Max({frame[Slot(i)].size : i \in g .. g + NumData - 1})

(* DecodeRS after a successful Reconstruct: every missing shard is        *)
(* rebuilt into the blob object sitting in its slot, up to the shard       *)
(* length maxDataSize; recoverIndex then rewrites every header index of    *)
(* the group that does not match. Nothing restores the Size field.         *)
Recovered(g) ==
    [s \in 0..FrameSize-1 |->
        IF \E i \in GroupIndices(g) : Slot(i) = s
        THEN LET i == CHOOSE j \in GroupIndices(g) : Slot(j) = s
                 b == frame[s]
             IN  [idx  |-> i,
                  size |-> b.size,
                  data |-> IF ~IsMissing(i) THEN b.data
                           ELSE IF BlobSize(i) <= MaxDataSize(g) THEN i
                           ELSE None]
        ELSE frame[s]]

(* missingBlobIndexes(start, end) with end trimmed to start+NumCoded:     *)
(* the loop bound is inclusive and only header indices are compared.       *)
MissingBlobIndexes(s) == {i \in s .. s + NumCoded : frame[Slot(i)].idx # i}

(* Mutant: the loop bound one blob later. *)
LoopCondLate == start + NumCoded + 1 < end

(* processBlobs' loop condition: a group is worked on only once a blob    *)
(* past it has been seen.                                                  *)
LoopCond == start + NumCoded < end

-----------------------------------------------------------------------------
(* The Broadcaster hands the next blob of the stream to the network.      *)
Produce ==
    /\ sent < StreamLen
    /\ sent' = sent + 1
    /\ UNCHANGED <<frame, start, end, pc, delivered, reported>>

(* Mutant: end advanced by the batch length instead of to its maximum. *)
ReceiveEndSum(batch) ==
    LET fresh == {i \in batch : i >= start}
        hit   == {Slot(i) : i \in fresh}
    IN  /\ pc = "idle"
        /\ \E winner \in [hit -> fresh] :
             /\ \A s \in hit : Slot(winner[s]) = s
             /\ frame' = [s \in 0..FrameSize-1 |->
                            IF s \in hit THEN Arrived(winner[s]) ELSE frame[s]]
        /\ end' = end + Cardinality(batch)
        /\ pc' = "loop"
        /\ UNCHANGED <<start, sent, delivered, reported>>

(* FrameGenerator reads a batch and processBlobs starts with fillFrame:   *)
(* every blob goes to its slot unless it is behind start, and end rises to *)
(* the highest index seen, old ones included. When two blobs of the batch  *)
(* claim one slot the later one in the batch wins.                         *)
Receive(batch) ==
    LET fresh == {i \in batch : i >= start}
        hit   == {Slot(i) : i \in fresh}
    IN  /\ pc = "idle"
        /\ \E winner \in [hit -> fresh] :
             /\ \A s \in hit : Slot(winner[s]) = s
             /\ frame' = [s \in 0..FrameSize-1 |->
                            IF s \in hit THEN Arrived(winner[s]) ELSE frame[s]]
        /\ end' = Max({end} \cup batch)
        /\ pc' = "loop"
        /\ UNCHANGED <<start, sent, delivered, reported>>

(* Mutant: start advanced past the data blobs only. *)
DecodeGroupSkipData ==
    LET g == start
        rec == Recovered(g)
    IN  /\ pc = "loop"
        /\ LoopCond
        /\ Cardinality({i \in GroupIndices(g) : IsMissing(i)}) <= MaxMissing
        /\ frame' = rec
        /\ delivered' = delivered \o [k \in 1..NumData |-> rec[Slot(g + k - 1)]]
        /\ start' = g + NumData
        /\ UNCHANGED <<end, pc, sent, reported>>

(* One pass of processBlobs' loop in which DecodeRS succeeds, followed by *)
(* recoverBlobs: the group's NumData data blobs go out as one batch and    *)
(* start skips the MaxMissing coding slots.                                *)
DecodeGroup ==
    LET g == start
        missing == {i \in GroupIndices(g) : IsMissing(i)}
        rec == Recovered(g)
    IN  /\ pc = "loop"
        /\ LoopCond
        /\ Cardinality(missing) <= MaxMissing
        /\ frame' = rec
        /\ delivered' = delivered \o [k \in 1..NumData |-> rec[Slot(g + k - 1)]]
        /\ start' = g + NumCoded
        /\ UNCHANGED <<end, pc, sent, reported>>

(* DecodeRS fails with too many blobs missing: the missing indices go out *)
(* for repair and the loop breaks.                                         *)
ReportMissing ==
    /\ pc = "loop"
    /\ LoopCond
    /\ Cardinality({i \in GroupIndices(start) : IsMissing(i)}) > MaxMissing
    /\ reported' = MissingBlobIndexes(start)
    /\ pc' = "idle"
    /\ UNCHANGED <<frame, start, end, sent, delivered>>

(* The loop condition start+NumCoded < end fails: back to reading input.  *)
LoopExit ==
    /\ pc = "loop"
    /\ ~LoopCond
    /\ pc' = "idle"
    /\ UNCHANGED <<frame, start, end, sent, delivered, reported>>

Next ==
    \/ Produce
    \/ \E batch \in SUBSET (0..sent-1) :
         batch # {} /\ Cardinality(batch) <= MaxBatch /\ Receive(batch)
    \/ DecodeGroup
    \/ ReportMissing
    \/ LoopExit

Spec == Init /\ [][Next]_vars

-----------------------------------------------------------------------------
(* Refinement: whatever blobs arrive, lost, duplicated, out of order or a *)
(* window ahead, the decoder hands on the stream's data blobs in index     *)
(* order, one whole group at a time, never a coding slot, never twice.     *)
(* It rests on recoverBlobs walking from start, on recoverIndex, and on    *)
(* start skipping exactly the coding slots.                                *)
Stream == INSTANCE StreamDelivery
            WITH out <- [k \in 1..Len(delivered) |-> delivered[k].idx]

ImplementsStream == Stream!Spec

(* Every blob handed on is the producer's blob: its payload in full and   *)
(* its Size as packed (spec 8: decoding a group with at most MaxMissing    *)
(* losses emits the original data blobs). BlobsToBlocks reads a blob only  *)
(* up to its Size.                                                         *)
DeliveredIntact ==
    \A k \in 1..Len(delivered) :
        /\ delivered[k].data = delivered[k].idx
        /\ delivered[k].size = BlobSize(delivered[k].idx)

(* A group that is complete in the Frame is decoded before FrameGenerator *)
(* waits for more input (spec 4.5, and spec 8: twenty loss-free blobs give *)
(* one delivered batch).                                                   *)
NoStalledCompleteGroup ==
    pc = "idle" => \E i \in GroupIndices(start) : IsMissing(i)

=============================================================================
