--------------------------- MODULE StreamDelivery ---------------------------
(***************************************************************************)
(* What the receive side of the block stream promises (spec 4.5): the     *)
(* data blobs of the stream come out in index order, one coding group at   *)
(* a time, each exactly once and without the group's coding slots.         *)
(* Indices are absolute: group g holds g*NumCoded .. g*NumCoded+NumCoded-1 *)
(* and its first NumData indices are data.                                 *)
(***************************************************************************)
EXTENDS Naturals, Sequences

CONSTANTS NumData, MaxMissing

VARIABLE out     \* indices of the data blobs handed on so far, in order

NumCoded == NumData + MaxMissing

\* The data indices of coding group g.
GroupData(g) == [k \in 1..NumData |-> g * NumCoded + k - 1]

Init == out = <<>>

DeliverGroup == out' = out \o GroupData(Len(out) \div NumData)

Spec == Init /\ [][DeliverGroup]_out

=============================================================================
