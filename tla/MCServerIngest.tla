--------------------------- MODULE MCServerIngest ---------------------------
EXTENDS ServerIngest

CONSTANTS R, P

MCTable == {R, P}
MCSameSize(i) == 1
=============================================================================
