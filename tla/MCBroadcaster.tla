--------------------------- MODULE MCBroadcaster ---------------------------
EXTENDS Broadcaster

CONSTANTS p, s1, s2

(* Two signers: each relays to the other. *)
MCSigner == {s1, s2}

(* One signer, which relays to nobody: the send side alone. *)
MCSignerOne == {s1}

=============================================================================
