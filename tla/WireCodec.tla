------------------------------ MODULE WireCodec ------------------------------
(***************************************************************************)
(* The byte layouts the user client and the producer exchange over UDP:    *)
(* a transfer (Transaction.Serialize into a packet by                      *)
(* Transactions.ToPackets, read back with DeserializeFromSlice), a request *)
(* (Requests.Serialize, read by Requests.Deserialize) and the answer       *)
(* ProcessMessages makes for it (the Serialize of ResponseBalance,         *)
(* ResponseValidVDFValue or ResponseTransactionsTotal, read back by        *)
(* Responses.Deserialize). Integers are written by hand-unrolled shifts,   *)
(* byte(v >> 56) ... byte(v), or utils.Uint64toByte, and read by          *)
(* ByteToInt64, which ORs the bytes back and casts to int64.               *)
(*                                                                         *)
(* A byte string is a sequence of 0..255, Go offset k being index k+1. The *)
(* widths are constants: Width is the 8 bytes of an int64, and the sizes   *)
(* of signatures, keys and VDF values are ed25519's and sha256's; the      *)
(* layout arithmetic is the code's for any of them.                        *)
(***************************************************************************)
EXTENDS Integers, Sequences

CONSTANTS
    Width,           \* bytes of an int64 or uint64 on the wire (8)
    SigSize,         \* ed25519.SignatureSize (64)
    KeySize,         \* ed25519.PublicKeySize (32)
    VDFSize,         \* block.VDFSize, sha256.Size (32)
    PacketDataSize,  \* packetDataSize, the bytes of Packet.Data (256)
    Sigs, Keys, VDFs,  \* the signatures, keys and VDF values clients use
    Int64s, Uint64s  \* the int64 and uint64 values sent

Span(w) == 2^(8 * w)
Bytes(n) == [1..n -> 0..255]

ASSUME /\ Width \in Nat \ {0}
       /\ Sigs \subseteq Bytes(SigSize) /\ Keys \subseteq Bytes(KeySize)
       /\ VDFs \subseteq Bytes(VDFSize)
       /\ Int64s \subseteq -(Span(Width) \div 2) .. Span(Width) \div 2 - 1
       /\ Uint64s \subseteq 0 .. Span(Width) - 1

Zeros(n) == [i \in 1..n |-> 0]

(* A buffer of PacketDataSize bytes: what was written, then zeros. *)
Pad(s) == s \o Zeros(PacketDataSize - Len(s))

(* The n bytes at offset st. *)
Get(b, st, n) == SubSeq(b, st + 1, st + n)

-----------------------------------------------------------------------------
(* v >> s on a signed value: Go shifts arithmetically, rounding down, as *)
(* \div does.                                                             *)
Shr(v, s) == v \div 2^s

(* Mutant: the shift counts in the wrong order, 8 * i for byte i. *)
PutLE(v, w) == [i \in 1..w |-> Shr(v, 8 * (i - 1)) % 256]

(* res[start] = byte(v >> 56), ..., res[start+7] = byte(v): big-endian, *)
(* byte() keeping the low eight bits.                                      *)
PutBE(v, w) == [i \in 1..w |-> Shr(v, 8 * (w - i)) % 256]

(* utils.Uint64toByte: the same, in a loop of shift counts 8 * (7 - i). *)
Uint64toByte(v) == PutBE(v, Width)

(* Mutant: the bytes read little-endian. *)
RECURSIVE LittleEndian(_, _, _)
LittleEndian(b, st, w) == IF w = 0 THEN 0 ELSE LittleEndian(b, st + 1, w - 1) * 256 + b[st + 1]

(* The OR of uint64(b[st+k]) << 8*(7-k): the bytes read big-endian. *)
RECURSIVE BigEndian(_, _, _)
BigEndian(b, st, w) == IF w = 0 THEN 0 ELSE BigEndian(b, st, w - 1) * 256 + b[st + w]

(* A uint64 read as int64: the upper half of the range is negative. *)
ToInt64(u) == IF u >= Span(Width) \div 2 THEN u - Span(Width) ELSE u

(* Mutant: the reassembled uint64 returned without the int64 cast. *)
ByteToInt64NoCast(b, st) == BigEndian(b, st, Width)

(* utils.ByteToInt64, int64(uint64(b[st+7]) | ... | uint64(b[st]) << 56). *)
ByteToInt64(b, st) == ToInt64(BigEndian(b, st, Width))

(* block.ByteToInt64 is the same function, copied into package block. *)
BlockByteToInt64(b, st) == ByteToInt64(b, st)

-----------------------------------------------------------------------------
(* A transfer: signature, payer, payee, token, fee, the VDF value it       *)
(* names.                                                                  *)
Transaction == [sig : Sigs, from : Keys, to : Keys, token : Int64s, fee : Int64s,
                vdf : VDFs]

(* TransactionSize: two keys, a signature, 16 bytes of token and fee, a  *)
(* VDF value.                                                              *)
TransactionSize == KeySize * 2 + SigSize + 2 * Width + VDFSize

(* Transaction.Serialize: SignatureSize bytes of signature, then From and  *)
(* To, each advancing start by its own length, the token and the fee       *)
(* big-endian, sha256.Size bytes of VDF value, in a [256]byte.             *)
TxSerialize(t) ==
    Pad(SubSeq(t.sig, 1, SigSize) \o t.from \o t.to
        \o PutBE(t.token, Width) \o PutBE(t.fee, Width) \o SubSeq(t.vdf, 1, VDFSize))

(* Mutant: the fee read from the token's offset (start not advanced). *)
TxDeserializeNoAdvance(b) ==
    LET k == SigSize + 2 * KeySize
    IN  [sig |-> Get(b, 0, SigSize), from |-> Get(b, SigSize, KeySize),
         to |-> Get(b, SigSize + KeySize, KeySize),
         token |-> BlockByteToInt64(b, k), fee |-> BlockByteToInt64(b, k),
         vdf |-> Get(b, k + 2 * Width, VDFSize)]

(* DeserializeFromSlice: the same fields at offsets advanced by the fixed *)
(* sizes SignatureSize, PublicKeySize, 8 and 8.                            *)
TxDeserializeFromSlice(b) ==
    LET k == SigSize + 2 * KeySize
    IN  [sig |-> Get(b, 0, SigSize), from |-> Get(b, SigSize, KeySize),
         to |-> Get(b, SigSize + KeySize, KeySize),
         token |-> BlockByteToInt64(b, k), fee |-> BlockByteToInt64(b, k + Width),
         vdf |-> Get(b, k + 2 * Width, VDFSize)]

(* Transactions.ToPackets: one packet per transaction, its goroutine i    *)
(* filling packet i with Serialize() and Size uint8(TransactionSize()).    *)
ToPackets(ts) == [i \in DOMAIN ts |-> [data |-> TxSerialize(ts[i]),
                                       size |-> TransactionSize % 256]]

-----------------------------------------------------------------------------
(* The message types, one byte (request.go). *)
Balance == 0
ValidVDFValue == 1
TransactionsTotal == 2

(* The requests user.API makes: Balance names a key, the other two none. *)
Request ==
    {[type |-> Balance, key |-> k] : k \in Keys}
        \cup {[type |-> t, key |-> <<>>] : t \in {ValidVDFValue, TransactionsTotal}}

(* Requests.Serialize, for packet i: Size 1 and the type byte, then for a *)
(* Balance request the key and Size 1 + PublicKeySize.                     *)
RequestSerialize(q) ==
    [size |-> 1 + (IF q.type = Balance THEN KeySize ELSE 0),
     data |-> Pad(<<q.type>> \o (IF q.type = Balance THEN q.key ELSE <<>>))]

RequestsSerialize(qs) == [i \in DOMAIN qs |-> RequestSerialize(qs[i])]

(* Requests.Deserialize of a packet with a non-zero Size: the type byte    *)
(* and PublicKeySize bytes of key after it, whatever the type.             *)
RequestDeserialize(p) == [type |-> p.data[1], key |-> Get(p.data, 1, KeySize)]

(* ProcessMessages' answer to one request: the books' balance of the key,  *)
(* ValidVDFValue or TransactionsTotal, as they are when it runs.           *)
ProcessMessage(q, balance, vdf, total) ==
    CASE q.type = Balance           -> [type |-> Balance, value |-> balance, key |-> q.key]
      [] q.type = ValidVDFValue     -> [type |-> ValidVDFValue, value |-> vdf, key |-> <<>>]
      [] q.type = TransactionsTotal -> [type |-> TransactionsTotal, value |-> total, key |-> <<>>]

(* Mutant: the balance response's key written from offset 8, over the    *)
(* value's last byte.                                                      *)
ResponseSerializeOverlap(r) ==
    CASE r.type = Balance ->
            [size |-> KeySize + Width + 1,
             data |-> Pad(<<Balance>> \o SubSeq(PutBE(r.value, Width), 1, Width - 1) \o r.key)]
      [] r.type = ValidVDFValue ->
            [size |-> 1 + VDFSize, data |-> Pad(<<ValidVDFValue>> \o SubSeq(r.value, 1, VDFSize))]
      [] r.type = TransactionsTotal ->
            [size |-> 1 + Width, data |-> Pad(<<TransactionsTotal>> \o Uint64toByte(r.value))]

(* The Serialize of each response: the type byte, then ResponseBalance's  *)
(* value big-endian and key, ResponseValidVDFValue's 32 bytes of value,    *)
(* ResponseTransactionsTotal's Uint64toByte of its count.                  *)
ResponseSerialize(r) ==
    CASE r.type = Balance ->
            [size |-> KeySize + Width + 1,
             data |-> Pad(<<Balance>> \o PutBE(r.value, Width) \o r.key)]
      [] r.type = ValidVDFValue ->
            [size |-> 1 + VDFSize, data |-> Pad(<<ValidVDFValue>> \o SubSeq(r.value, 1, VDFSize))]
      [] r.type = TransactionsTotal ->
            [size |-> 1 + Width, data |-> Pad(<<TransactionsTotal>> \o Uint64toByte(r.value))]

(* Responses.Serialize: goroutine i writes packet i. *)
ResponsesSerialize(rs) == [i \in DOMAIN rs |-> ResponseSerialize(rs[i])]

NoResponse == [type |-> "nil"]

(* Responses.Deserialize of packet i, by its type byte: ResponseBalance    *)
(* reads ByteToInt64 at 1 and the key at 9; ResponseValidVDFValue 32 bytes *)
(* at 1; ResponseTransactionsTotal uint64(ByteToInt64(Data[:10], 1)). Any  *)
(* other type byte leaves the entry nil.                                   *)
ResponseDeserialize(p) ==
    CASE p.data[1] = Balance ->
            [type |-> Balance, value |-> ByteToInt64(p.data, 1), key |-> Get(p.data, 1 + Width, KeySize)]
      [] p.data[1] = ValidVDFValue ->
            [type |-> ValidVDFValue, value |-> Get(p.data, 1, VDFSize), key |-> <<>>]
      [] p.data[1] = TransactionsTotal ->
            [type |-> TransactionsTotal, value |-> ByteToInt64(SubSeq(p.data, 1, 10), 1) % Span(Width),
             key |-> <<>>]
      [] OTHER -> NoResponse

ResponsesDeserialize(ps) == [i \in DOMAIN ps |-> ResponseDeserialize(ps[i])]

-----------------------------------------------------------------------------
VARIABLES
    sent,  \* what one side meant to send: a transaction, or the answer to a request
    got    \* what the other side read from the bytes

vars == <<sent, got>>

TypeOK ==
    /\ sent \in {NoResponse} \cup Transaction
             \cup {ProcessMessage(q, b, v, t) : q \in Request, b \in Int64s, v \in VDFs, t \in Uint64s}
    /\ DOMAIN got = DOMAIN sent

Init == sent = NoResponse /\ got = NoResponse

(* user.API.TransferTransaction: ToPackets and a write to the producer's  *)
(* transaction socket, whose FromPackets reads each packet's Data with     *)
(* DeserializeFromSlice.                                                   *)
TransferTransaction ==
    \E t \in Transaction :
        /\ sent' = t
        /\ got' = TxDeserializeFromSlice(ToPackets(<<t>>)[1].data)

(* A user.API call: its request serialized and written; the producer's     *)
(* Messaging deserializes it, ProcessMessages answers from the books as    *)
(* they are, and the answer is serialized and written back; the client     *)
(* deserializes the packet it reads (Balance and TransactionsTotal with   *)
(* the Deserialize of the response they expect, which is the one the type *)
(* byte dispatches to).                                                    *)
Exchange ==
    \E q \in Request, b \in Int64s, v \in VDFs, t \in Uint64s :
        LET req == RequestDeserialize(RequestsSerialize(<<q>>)[1])
        IN  /\ sent' = ProcessMessage(q, b, v, t)
            /\ got' = ResponsesDeserialize(ResponsesSerialize(<<ProcessMessage(req, b, v, t)>>))[1]

Next == TransferTransaction \/ Exchange

Spec == Init /\ [][Next]_vars

-----------------------------------------------------------------------------
(* Every transfer and every answer arrives as it was sent: token, fee,     *)
(* keys and VDF value out of DeserializeFromSlice, and the type, value and *)
(* key out of Responses.Deserialize, equal what Serialize was given,       *)
(* negative int64s and uint64s past the int64 range included. It needs the *)
(* writers' offsets to match the readers' fixed ones and the int64 cast of *)
(* ByteToInt64 to undo byte()'s truncation of an arithmetic shift.         *)
WireRoundTrip == got = sent

(* The unrolled shifts write an int64 as its two's-complement value,      *)
(* big-endian: byte i is digit i in base 256 of v mod 2^(8 * Width).       *)
ShiftsTwosComplement ==
    \A v \in Int64s :
        PutBE(v, Width) = [i \in 1..Width |-> ((v % Span(Width)) \div 256^(Width - i)) % 256]

====
