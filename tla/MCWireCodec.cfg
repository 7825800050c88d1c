\* Transfers, requests and answers through their byte layouts, 3-byte integers.
CONSTANTS
    Width = 3
    SigSize = 1
    KeySize = 2
    VDFSize = 1
    PacketDataSize = 12
    Sigs <- MCSigs
    Keys <- MCKeys
    VDFs <- MCVDFs
    Int64s <- MCInt64s
    Uint64s <- MCUint64s
SPECIFICATION Spec
INVARIANT TypeOK
INVARIANT WireRoundTrip
INVARIANT ShiftsTwosComplement
