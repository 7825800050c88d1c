---------------------------- MODULE MCWireCodec ----------------------------
(* WireCodec with three-byte integers and one- or two-byte signatures,    *)
(* keys and VDF values: every offset the code computes from the widths is *)
(* still distinct, and the integers include both ends of the signed and   *)
(* unsigned ranges and the values whose bytes cross a byte boundary.       *)
EXTENDS WireCodec

MCSigs == {<<0>>, <<255>>}
MCKeys == {<<0, 255>>, <<255, 1>>}
MCVDFs == {<<7>>, <<255>>}
MCInt64s == {-(2^23), -256, -1, 0, 1, 128, 255, 256, 2^23 - 1}
MCUint64s == {0, 1, 255, 256, 2^23, 2^24 - 1}
====
