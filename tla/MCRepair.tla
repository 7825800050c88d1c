------------------------------ MODULE MCRepair ------------------------------
EXTENDS Repair

CONSTANTS R, P, O

MCTable == {R, P}
MCTable3 == {R, P, O}
MCSameSize(i) == 1
=============================================================================
