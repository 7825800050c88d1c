------------------------------- MODULE MCBooks -------------------------------
EXTENDS Books

CONSTANTS m, a

MCAccount == {m, a}

(* A ValidVDFValue request of one byte, and a datagram of 256 bytes: the  *)
(* whole 256-byte buffer, which ReadFrom records with Size uint8(256) = 0. *)
MCDatagrams == {[type |-> ValidVDFValueType, len |-> 1], [type |-> Balance, len |-> 256]}

(* Only ValidVDFValue requests: the clients' way to learn a value.        *)
MCDatagramsVDF == {[type |-> ValidVDFValueType, len |-> 1]}

=============================================================================
