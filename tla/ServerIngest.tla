---------------------------- MODULE ServerIngest ----------------------------
(***************************************************************************)
(* A web-server node (pipelines.ServerNode): BlockSigner with a database.  *)
(* Its forwarding goroutine hands every batch read from the replication    *)
(* socket to Reconstruct's FrameGenerator and, because db is not nil, also *)
(* unpacks the raw batch with BlobsToBlocks and saves each block with      *)
(* DB.SaveBlock. The batch is whatever the socket held: data blobs, the    *)
(* coding blobs the producer's fan-out sends to every node, and the repair *)
(* responses the producer's Listener addresses to the requester's          *)
(* Replication address (reconstruction.go:30).                             *)
(*                                                                         *)
(* The repair loop is module Repair, instantiated on the same variables,   *)
(* with R the server node. A data blob carries its own blocks, named by    *)
(* its index (convertToBlob packs whole blocks, so no block spans two      *)
(* blobs). The contents of a coding blob are Reed-Solomon parity, which   *)
(* the model does not carry: what BlobsToBlocks makes of them is a choice  *)
(* from ParseOutcomes.                                                     *)
(***************************************************************************)
EXTENDS Naturals, FiniteSets

CONSTANTS
    FrameSize, NumData, MaxMissing, StreamLen, MaxBatch, DataSize(_),
    Me, Producer, Table, MissingCap, MaxDrop, MaxRepairDrop,
    ParseOutcomes  \* what parsing parity as block headers can end in

ASSUME ParseOutcomes \subseteq {"panic", "invented"} /\ ParseOutcomes # {}

VARIABLES
    frame, start, end, pc, sent, delivered, reported,
    inflight, missingQ, reqs, lst, drops, rdrops,
    saved,  \* the Heights in the server's blocks table
    junk,   \* a block unlike any the producer made has been saved
    proc    \* "up", or how the server's process ended: "fatal", "panic"

RP == INSTANCE Repair

repVars == RP!vars
vars == <<repVars, saved, junk, proc>>

TypeOK ==
    /\ RP!TypeOK
    /\ saved \subseteq RP!Index
    /\ junk \in BOOLEAN
    /\ proc \in {"up", "fatal", "panic"}

Init == RP!Init /\ saved = {} /\ junk = FALSE /\ proc = "up"

-----------------------------------------------------------------------------
(* Mutant: SaveBlock inserting with INSERT OR REPLACE, so a Height saved  *)
(* again overwrites its row.                                               *)
SaveAllReplace(hs) ==
    /\ saved' = saved \cup hs
    /\ UNCHANGED proc

(* SaveBlock for each block of the batch: the INSERT of a Height already  *)
(* in the table fails its PRIMARY KEY and checkErr calls log.Fatal, which  *)
(* ends the process; otherwise every Height is added.                      *)
SaveAll(hs) ==
    IF hs \cap saved # {}
    THEN proc' = "fatal" /\ UNCHANGED saved
    ELSE saved' = saved \cup hs /\ UNCHANGED proc

(* BlobsToBlocks over the raw batch, then the saves. A data blob yields    *)
(* its blocks; two copies of one data blob in a batch (the original and a  *)
(* repair response) are merged by VDF value into one block holding its     *)
(* transactions twice. A coding blob has the group's largest data Size and *)
(* parity where headers belong: the parse loop either runs off Blob.Data   *)
(* or into a negative transaction count and panics, which ends the process *)
(* before any save, or it ends and yields blocks the producer never made,  *)
(* which are saved with the rest.                                          *)
Forward(batch) ==
    LET ids == {m.idx : m \in batch}
        coded == {i \in ids : RP!FD!IsCoding(i)}
        blocks == ids \ coded
        twice == \E m, n \in batch : m # n /\ m.idx = n.idx /\ m.idx \in blocks
    IN  IF coded = {}
        THEN SaveAll(blocks) /\ junk' = (junk \/ twice)
        ELSE \E o \in ParseOutcomes :
                IF o = "panic"
                THEN proc' = "panic" /\ UNCHANGED <<saved, junk>>
                ELSE SaveAll(blocks) /\ junk' = TRUE

-----------------------------------------------------------------------------
(* BlobGenerator reads a batch from the server's replication socket; the  *)
(* forwarding goroutine sends it on to the FrameGenerator (fillFrame) and  *)
(* to the Transporter, and unpacks and saves it.                           *)
Receive ==
    /\ proc = "up"
    /\ \E batch \in SUBSET inflight :
          /\ batch # {} /\ Cardinality(batch) <= MaxBatch
          /\ RP!FD!Receive({m.idx : m \in batch})
          /\ inflight' = inflight \ batch
          /\ Forward(batch)
    /\ UNCHANGED <<missingQ, reqs, lst, drops, rdrops>>

(* The server's other goroutines run only while its process does; the     *)
(* producer's go on regardless.                                            *)
ServerStep ==
    /\ proc = "up"
    /\ RP!Decode \/ RP!ReportMissing \/ RP!Reconstruct
    /\ UNCHANGED <<saved, junk, proc>>

ProducerStep ==
    /\ RP!Produce \/ RP!HandleReconstruct \/ RP!Respond \/ RP!DropStream
    /\ UNCHANGED <<saved, junk, proc>>

Next == Receive \/ ServerStep \/ ProducerStep

Spec == Init /\ [][Next]_vars

-----------------------------------------------------------------------------
(* A web-server node never saves a block Height twice, so SaveBlock never *)
(* ends the process through log.Fatal. The same blob can reach the        *)
(* forwarding goroutine twice: a blob that arrives after a later one makes *)
(* processBlobs report its group missing, Reconstruct asks the producer    *)
(* for it, and both the response and the original are unpacked and saved. *)
SaveNeverFatal == proc # "fatal"

(* The server's blocks table holds only blocks as the producer made them,  *)
(* and the forwarding goroutine never panics: it would need BlobsToBlocks  *)
(* to be given each data blob once and no coding blob, and it is given     *)
(* every blob the replication socket reads.                                *)
SavesProducedBlocks == proc # "panic" /\ ~junk

=============================================================================
