---------------------------- MODULE MCGossipSync ----------------------------
EXTENDS GossipSync, TLC

CONSTANTS P, A, B

MCNode == {P, A, B}
MCNode2 == {P, A}
MCSymmetry == Permutations({A, B})

=============================================================================
